------------------------------ MODULE Frontend ------------------------------
(***************************************************************************)
(* The parts cert, lb, listener, tg and rule: what leads requests to the   *)
(* services of a cluster.  The certificate is shared by the clusters of a  *)
(* domain, the others are found by the cluster's name.                     *)
(***************************************************************************)
EXTENDS Executions

CONSTANTS Services, Paths

VARIABLES
  certs,     \* the status of each certificate of the domain
  record,    \* is the record that validates them in the hosted zone?
  lbs,       \* of each cluster: the VPC of its loadbalancer, or 0
  listeners, \* of each cluster: the ports its loadbalancer listens to
  rules,     \* of each cluster: the service forwarded to, by priority
  default,   \* of each cluster: where other requests go, or "404"
  tgs        \* of each cluster and service: its target group's health path, or None

frontVars == <<certs, record, lbs, listeners, rules, default, tgs>>

None == "none"

-----------------------------------------------------------------------------
(* cert.                                                                   *)

CertLook(w) ==
  /\ At(w, "cert", "start")
  /\ IF certs = <<>> THEN Go(w, "request", <<>>)
     ELSE \E i \in DOMAIN certs :
            IF certs[i] = "issued" THEN Finish(w, <<i>>) ELSE Go(w, "request", <<>>)
  /\ UNCHANGED frontVars

(* NewCert looks for it again before it requests one. *)
CertLookAgain(w) ==
  /\ At(w, "cert", "request")
  /\ IF certs = <<>> THEN Go(w, "new", <<>>)
     ELSE \E i \in DOMAIN certs : Go(w, "validation", <<i>>)
  /\ UNCHANGED frontVars

CertRequest(w) ==
  /\ At(w, "cert", "new")
  /\ certs' = Append(certs, "pending")
  /\ Go(w, "validation", <<Len(certs) + 1>>)
  /\ UNCHANGED <<record, lbs, listeners, rules, default, tgs>>

(* The record to create; an issued certificate has none, and NewRecord     *)
(* does nothing then.  AWS may not know it yet.                            *)
CertValidation(w) ==
  /\ At(w, "cert", "validation")
  /\ IF certs[exec[w].got[1]] = "issued" THEN Go(w, "wait", exec[w].got)
     ELSE Go(w, "record", exec[w].got) \/ Refused(w)
  /\ UNCHANGED frontVars

(* The record is created and not upserted: refused when it exists. *)
CertRecord(w) ==
  /\ At(w, "cert", "record")
  /\ IF record THEN Refused(w) ELSE Go(w, "wait", exec[w].got)
  /\ record' = TRUE
  /\ UNCHANGED <<certs, lbs, listeners, rules, default, tgs>>

(* Mutant: a wait that ends with an error is a wait that ends. *)
CertWaitAnyhow(w) ==
  /\ At(w, "cert", "wait")
  /\ Go(w, "read", <<>>)
  /\ UNCHANGED frontVars

(* Five minutes at most. *)
CertWait(w) ==
  /\ At(w, "cert", "wait")
  /\ \/ certs[exec[w].got[1]] = "issued" /\ Go(w, "read", <<>>)
     \/ certs[exec[w].got[1]] # "issued" /\ Refused(w)
  /\ UNCHANGED frontVars

CertRead(w) ==
  /\ At(w, "cert", "read")
  /\ \E i \in DOMAIN certs : Finish(w, <<i>>)
  /\ UNCHANGED frontVars

(* AWS issues a pending certificate once the record is there, or gives up. *)
Validated(i) ==
  /\ certs[i] = "pending"
  /\ \/ record /\ certs' = [certs EXCEPT ![i] = "issued"]
     \/ ~record /\ certs' = [certs EXCEPT ![i] = "timed out"]
  /\ UNCHANGED <<record, lbs, listeners, rules, default, tgs>>

-----------------------------------------------------------------------------
(* lb: one call, which returns the loadbalancer of the same name and       *)
(* settings when there is one and is refused when its settings differ.     *)
LoadbalancerCreate(w) ==
  LET c == exec[w].cluster
      v == Arg(w, "sn")
  IN  /\ At(w, "lb", "start")
      /\ IF v = Arg(w, "lbsg") /\ lbs[c] \in {0, v}
         THEN lbs' = [lbs EXCEPT ![c] = v] /\ Finish(w, <<v>>)
         ELSE Refused(w) /\ UNCHANGED lbs
      /\ UNCHANGED <<certs, record, listeners, rules, default, tgs>>

-----------------------------------------------------------------------------
(* listener.                                                               *)

ListenerLook(w) ==
  /\ At(w, "listener", "start")
  /\ IF 443 \in listeners[exec[w].cluster] THEN Finish(w, <<1>>)
     ELSE Go(w, "create", <<>>)
  /\ UNCHANGED frontVars

Listen(w, port) ==
  /\ listeners' = [listeners EXCEPT ![exec[w].cluster] = @ \cup {port}]
  /\ UNCHANGED <<certs, record, lbs, rules, default, tgs>>

(* Refused without an issued certificate and when the port is taken.  (A   *)
(* look that failed leads here as well, and is refused for the latter.)    *)
ListenerCreate(w) ==
  /\ At(w, "listener", "create")
  /\ IF 443 \in listeners[exec[w].cluster] \/ certs[Arg(w, "cert")] # "issued"
     THEN Refused(w) /\ UNCHANGED frontVars
     ELSE Listen(w, 443) /\ Go(w, "redirect", <<>>)

(* Mutant: the redirection is left out. *)
ListenerRedirectNot(w) ==
  /\ At(w, "listener", "redirect")
  /\ Finish(w, <<1>>)
  /\ UNCHANGED frontVars

ListenerRedirect(w) ==
  /\ At(w, "listener", "redirect")
  /\ Listen(w, 80)
  /\ Finish(w, <<1>>)

-----------------------------------------------------------------------------
(* tg and rule go through the services one by one: got has an entry for    *)
(* each that is done, in the end of a rule the priority looked up for it.  *)

Service(w) == Config(w).services[Len(exec[w].got) + 1]

(* On to the next service, or the end. *)
After(w, done) ==
  IF Len(done) = Len(Config(w).services) THEN Finish(w, <<1>>)
  ELSE Go(w, "start", done)

NextService(w) == After(w, Append(exec[w].got, 1))

SetPath(w) ==
  /\ tgs' = [tgs EXCEPT ![exec[w].cluster][Service(w)] = Config(w).path]
  /\ UNCHANGED <<certs, record, lbs, listeners, rules, default>>

(* Mutant: a group that exists is taken as it is. *)
TargetGroupLookOnce(w) ==
  /\ At(w, "tg", "start")
  /\ IF tgs[exec[w].cluster][Service(w)] = None THEN Go(w, "create", exec[w].got)
     ELSE NextService(w)
  /\ UNCHANGED frontVars

TargetGroupLook(w) ==
  /\ At(w, "tg", "start")
  /\ LET path == tgs[exec[w].cluster][Service(w)]
     IN  CASE path = None -> Go(w, "create", exec[w].got)
           [] path = Config(w).path -> NextService(w)
           [] OTHER -> Go(w, "update", exec[w].got)
  /\ UNCHANGED frontVars

(* Refused when the name is taken by a group with another path. *)
TargetGroupCreate(w) ==
  /\ At(w, "tg", "create")
  /\ IF tgs[exec[w].cluster][Service(w)] \in {None, Config(w).path}
     THEN SetPath(w) /\ NextService(w)
     ELSE Refused(w) /\ UNCHANGED frontVars

TargetGroupUpdate(w) ==
  /\ At(w, "tg", "update")
  /\ SetPath(w)
  /\ NextService(w)

(* The error of Update is not looked at. *)
TargetGroupUpdateFails(w) ==
  /\ At(w, "tg", "update")
  /\ NextService(w)
  /\ UNCHANGED frontVars

-----------------------------------------------------------------------------
(* rule.  All rules of a listener have the same condition: the cluster's   *)
(* host name, or with path routing the path of a rule not filled in yet.   *)

RuleDefault(w) ==
  /\ At(w, "rule", "start")
  /\ Config(w).frontend
  /\ default' = [default EXCEPT ![exec[w].cluster] = Service(w)]
  /\ NextService(w)
  /\ UNCHANGED <<certs, record, lbs, listeners, rules, tgs>>

(* The highest priority is read, the next one requested. *)
RuleLook(w) ==
  /\ At(w, "rule", "start")
  /\ ~Config(w).frontend
  /\ Go(w, "create", Append(exec[w].got, Len(rules[exec[w].cluster]) + 1))
  /\ UNCHANGED frontVars

Requested(w) == Config(w).services[Len(exec[w].got)]
Priority(w)  == exec[w].got[Len(exec[w].got)]

(* Mutant: a priority that is taken is no error. *)
RuleCreateAnyhow(w) ==
  LET c == exec[w].cluster
  IN  /\ At(w, "rule", "create")
      /\ rules' = IF Priority(w) \in DOMAIN rules[c] THEN rules
                  ELSE [rules EXCEPT ![c] = Append(@, Requested(w))]
      /\ After(w, exec[w].got)
      /\ UNCHANGED <<certs, record, lbs, listeners, default, tgs>>

(* Refused when another rule took the priority since. *)
RuleCreate(w) ==
  LET c == exec[w].cluster
  IN  /\ At(w, "rule", "create")
      /\ IF Priority(w) \in DOMAIN rules[c] THEN Refused(w) /\ UNCHANGED rules
         ELSE /\ rules' = [rules EXCEPT ![c] = Append(@, Requested(w))]
              /\ After(w, exec[w].got)
      /\ UNCHANGED <<certs, record, lbs, listeners, default, tgs>>

-----------------------------------------------------------------------------
InitFrontend ==
  LET made(p) == p \in slice.done
  IN  /\ certs = IF made("cert") THEN <<"issued">> ELSE <<>>
      /\ record = made("cert")
      /\ lbs = [c \in Clusters |-> IF made("lb") THEN 1 ELSE 0]
      /\ listeners = [c \in Clusters |-> IF made("listener") THEN {80, 443} ELSE {}]
      /\ rules = [c \in Clusters |-> <<>>]
      /\ default = [c \in Clusters |-> "404"]
      /\ tgs \in [Clusters -> [Services ->
                   IF made("tg") THEN Paths
                   ELSE IF "tg" \in slice.parts THEN Paths \cup {None} ELSE {None}]]

FrontendStep(w) ==
  \/ CertLook(w) \/ CertLookAgain(w) \/ CertRequest(w) \/ CertValidation(w)
  \/ CertRecord(w) \/ CertWait(w) \/ CertRead(w)
  \/ LoadbalancerCreate(w)
  \/ ListenerLook(w) \/ ListenerCreate(w) \/ ListenerRedirect(w)
  \/ TargetGroupLook(w) \/ TargetGroupCreate(w) \/ TargetGroupUpdate(w)
  \/ RuleDefault(w) \/ RuleLook(w) \/ RuleCreate(w)
=============================================================================
