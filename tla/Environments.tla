---------------------------- MODULE Environments ----------------------------
(***************************************************************************)
(* The environments of the server (main.go, execute.go): each is stored in *)
(* a map that is kept as events on disk, has a timer, and is checked out   *)
(* of its repository and executed, system by system, by that timer or by a *)
(* request.  Provision hands a system to the repeatable stories.           *)
(*                                                                         *)
(* All executions of an environment share one directory, and all of them   *)
(* one process: a clone that fails for a request (main.go:194) and a       *)
(* directory that is gone (parse.go:71) end it.                            *)
(*                                                                         *)
(* External: the map, whose event for a name it has already may be of      *)
(* either type; git; and the timers, which fire some time after they are   *)
(* set.  Parsing is Features' subject.                                     *)
(***************************************************************************)
EXTENDS Naturals, FiniteSets, SequencesExt

CONSTANTS
  Env,          \* names of environments
  BootEnv,      \* boot_env
  Act,          \* handlers of requests and functions of timers
  Revisions,    \* the revisions of a repository, see Revision
  MaxRequests,  \* bound on the requests
  MaxFaults     \* how often each fault strikes

(* The directories of a revision, in the order a walk finds them, and the  *)
(* .cue files its systems share.                                           *)
Revision == [dirs : Seq([name : STRING, kind : STRING]), files : SUBSET STRING]

FaultKind == {"clone", "crash"}

ASSUME EnvironmentsAssumption ==
  /\ Revisions \in Seq(Revision) /\ Revisions # <<>>
  /\ MaxFaults \in [FaultKind -> Nat]

VARIABLES
  repo,    \* newest revision of each repository
  events,  \* the events of each environment in the map
  latest,  \* the timer of the map's value: "nil", "armed" or "fired"
  older,   \* timers that are armed and that no value refers to
  dir,     \* the revision that is checked out, 0 for none
  act,     \* what is going on
  up,      \* whether the process runs
  last,    \* history: the revision each system was last provisioned with
  newest,  \* history: the newest one it was ever provisioned with
  wanted,  \* history: the newest revision when the execution was asked for
  requests, faults

maps == <<events, latest, older>>
hist == <<last, newest, wanted>>
vars == <<repo, maps, dir, act, up, hist, requests, faults>>

Spend(k)  == faults[k] > 0 /\ faults' = [faults EXCEPT ![k] = @ - 1]

SystemNames ==
  UNION {{d.name : d \in {x \in ToSet(Revisions[r].dirs) : x.kind = "system"}} :
           r \in DOMAIN Revisions}

Idle == [env |-> "", by |-> "", pc |-> "idle", dirs |-> <<>>, todo |-> {},
         files |-> {}, rev |-> 0, shared |-> FALSE]

Busy(e)  == {a \in Act : act[a].env = e}
Unused   == {a \in Act : act[a].pc = "idle"}
At(a, p) == up /\ act[a].pc = p
EnvOf(a) == act[a].env
Dir(a)   == Revisions[dir[EnvOf(a)]]
Goto(a, p) == act' = [act EXCEPT ![a].pc = p]
End(a)     == act' = [act EXCEPT ![a] = Idle]

(* Whoever is unused is like any other, so one of them begins. *)
Free == IF Unused = {} THEN {} ELSE {CHOOSE a \in Unused : TRUE}

(* FindFilesAndSystems: what is a system, by the name of its directory.    *)
(* (The name is in lower case when it is compared: the case for            *)
(* "packageManagers" applies to none, parse.go:33.)                        *)
Skipped == {"hidden", "packages", "features", "services", "files"}
IsSystem(d) == d.kind \notin Skipped

(* The name of the system whose turn it is, the first of those to do.      *)
First(a) == {i \in act[a].todo : \A j \in act[a].todo : i <= j}
Now(a)   == {act[a].dirs[i].name : i \in First(a)}

(* The process ends, and with it all that goes on. *)
Down ==
  /\ up' = FALSE
  /\ act' = [a \in Act |-> Idle]
  /\ latest' = [e \in Env |-> "nil"]
  /\ older' = [e \in Env |-> 0]
  /\ UNCHANGED events

(* An execution begins; those of the environment that go on share its      *)
(* directory.                                                              *)
Begin(a, e, by) ==
  act' = [b \in Act |->
            IF b = a THEN [Idle EXCEPT !.env = e, !.by = by, !.pc = "clone",
                                       !.shared = Busy(e) # {}]
            ELSE IF b \in Busy(e) THEN [act[b] EXCEPT !.shared = TRUE]
            ELSE act[b]]

Want(e) == wanted' = [wanted EXCEPT ![e] = repo[e]]

-----------------------------------------------------------------------------
(* The map.  The function it is given arms a timer for an environment that *)
(* is created; an update leaves a value without one (140, 183).            *)

Created(e) ==
  /\ events' = [events EXCEPT ![e] = Append(@, "created")]
  /\ latest' = [latest EXCEPT ![e] = "armed"]
  /\ older' = [older EXCEPT ![e] = IF latest[e] = "armed" THEN @ + 1 ELSE @]

Updated(e) ==
  /\ events[e] # <<>>
  /\ events' = [events EXCEPT ![e] = Append(@, "updated")]
  /\ latest' = [latest EXCEPT ![e] = "nil"]
  /\ older' = [older EXCEPT ![e] = IF latest[e] = "armed" THEN @ + 1 ELSE @]

(* PUT /env stores the environment and goes on as /config does. *)
PutEnv(a, e) ==
  /\ up /\ a \in Free /\ requests > 0
  /\ requests' = requests - 1
  /\ Created(e) \/ Updated(e)
  /\ Begin(a, e, "request")
  /\ Want(e)
  /\ UNCHANGED <<repo, dir, up, last, newest, faults>>

(* /config: an environment that is not stored is not found. *)
Config(a, e) ==
  /\ up /\ a \in Free /\ requests > 0 /\ events[e] # <<>>
  /\ requests' = requests - 1
  /\ Begin(a, e, "request")
  /\ Want(e)
  /\ UNCHANGED <<repo, maps, dir, up, last, newest, faults>>

TimerFires(a, e) ==
  /\ up /\ a \in Free
  /\ \/ latest[e] = "armed" /\ latest' = [latest EXCEPT ![e] = "fired"]
        /\ UNCHANGED older
     \/ older[e] > 0 /\ older' = [older EXCEPT ![e] = @ - 1]
        /\ UNCHANGED latest
  /\ Begin(a, e, "timer")
  /\ UNCHANGED <<repo, events, dir, up, hist, requests, faults>>

-----------------------------------------------------------------------------
(* An execution.                                                           *)

(* Mutants: a directory that is there is reset to what it held first; it   *)
(* is not pulled.                                                          *)
CloneFirst(a) ==
  /\ At(a, "clone")
  /\ dir' = [dir EXCEPT ![EnvOf(a)] = IF @ = 0 THEN repo[EnvOf(a)] ELSE 1]
  /\ Goto(a, IF act[a].by = "request" THEN "reset" ELSE "list")
  /\ UNCHANGED <<repo, maps, up, hist, requests, faults>>

CloneOnce(a) ==
  /\ At(a, "clone")
  /\ dir' = [dir EXCEPT ![EnvOf(a)] = IF @ = 0 THEN repo[EnvOf(a)] ELSE @]
  /\ Goto(a, IF act[a].by = "request" THEN "reset" ELSE "list")
  /\ UNCHANGED <<repo, maps, up, hist, requests, faults>>

(* GitCloneEnvironment: cloned, or pulled when the directory is there. *)
Clone(a) ==
  /\ At(a, "clone")
  /\ dir' = [dir EXCEPT ![EnvOf(a)] = repo[EnvOf(a)]]
  /\ Goto(a, IF act[a].by = "request" THEN "reset" ELSE "list")
  /\ UNCHANGED <<repo, maps, up, hist, requests, faults>>

(* Mutant: whoever cannot clone, the process ends.                         *)
CloneFatal(a) ==
  /\ At(a, "clone") /\ Spend("clone")
  /\ Down
  /\ UNCHANGED <<repo, dir, hist, requests>>

(* The function of a timer returns (143), and is not called again; a       *)
(* request ends the process (194).                                         *)
CloneFails(a) ==
  /\ At(a, "clone") /\ Spend("clone")
  /\ IF act[a].by = "timer" THEN End(a) /\ UNCHANGED <<maps, up>> ELSE Down
  /\ UNCHANGED <<repo, dir, hist, requests>>

(* Reset of a timer that is nil panics, which ends the request. *)
Reset(a) ==
  /\ At(a, "reset")
  /\ IF latest[EnvOf(a)] = "nil" THEN End(a) /\ UNCHANGED latest
     ELSE /\ latest' = [latest EXCEPT ![EnvOf(a)] = "armed"]
          /\ Goto(a, "list")
  /\ UNCHANGED <<repo, events, older, dir, up, hist, requests, faults>>

Find(a) ==
  /\ At(a, "list")
  /\ act' = [act EXCEPT ![a].pc = "parse", ![a].files = Dir(a).files,
                        ![a].dirs = Dir(a).dirs,
                        ![a].todo = {i \in DOMAIN Dir(a).dirs : IsSystem(Dir(a).dirs[i])}]
  /\ UNCHANGED <<repo, maps, dir, up, hist, requests, faults>>

(* ParseSystem reads the directory as it is by now.  Its walk panics when  *)
(* the system is gone; the configuration does not load when a file is gone *)
(* or the directory holds no system, which ends the execution.             *)
Gone(a) == \E s \in Now(a) : s \notin {d.name : d \in ToSet(Dir(a).dirs)}

Loads(a) ==
  /\ act[a].files \subseteq Dir(a).files
  /\ \E d \in ToSet(Dir(a).dirs) : d.name \in Now(a) /\ d.kind = "system"

Parse(a) ==
  /\ At(a, "parse") /\ act[a].todo # {} /\ ~Gone(a)
  /\ IF Loads(a)
     THEN act' = [act EXCEPT ![a].pc = "provision", ![a].rev = dir[EnvOf(a)]]
     ELSE End(a)
  /\ UNCHANGED <<repo, maps, dir, up, hist, requests, faults>>

ParsePanics(a) ==
  /\ At(a, "parse") /\ Gone(a)
  /\ Down
  /\ UNCHANGED <<repo, dir, hist, requests, faults>>

Provision(a) ==
  /\ At(a, "provision")
  /\ \E s \in Now(a) :
       LET e == EnvOf(a) IN
       /\ last' = [last EXCEPT ![e][s] = act[a].rev]
       /\ newest' = [newest EXCEPT ![e][s] = IF @ < act[a].rev THEN act[a].rev ELSE @]
  /\ act' = [act EXCEPT ![a].pc = "parse", ![a].todo = @ \ First(a)]
  /\ UNCHANGED <<repo, maps, dir, up, wanted, requests, faults>>

Return(a) ==
  /\ At(a, "parse") /\ act[a].todo = {}
  /\ End(a)
  /\ UNCHANGED <<repo, maps, dir, up, hist, requests, faults>>

ExecuteEnv(a) == Find(a) \/ Parse(a) \/ ParsePanics(a) \/ Provision(a) \/ Return(a)

-----------------------------------------------------------------------------

(* Somebody pushes to the repository. *)
Push(e) ==
  /\ repo[e] < Len(Revisions)
  /\ repo' = [repo EXCEPT ![e] = @ + 1]
  /\ UNCHANGED <<maps, dir, act, up, hist, requests, faults>>

Crash ==
  /\ up /\ Spend("crash")
  /\ Down
  /\ UNCHANGED <<repo, dir, hist, requests>>

(* The map reads its events, the function arms a timer for each that       *)
(* created; with none the environment to boot with is stored (168).        *)
Boot ==
  /\ ~up /\ up' = TRUE
  /\ events' = IF \A e \in Env : events[e] = <<>>
               THEN [events EXCEPT ![BootEnv] = <<"created">>] ELSE events
  /\ LET Timers(e) == {i \in DOMAIN events'[e] : events'[e][i] = "created"}
         Holds(e)  == events'[e] # <<>> /\ Last(events'[e]) = "created"
     IN  /\ latest' = [e \in Env |-> IF Holds(e) THEN "armed" ELSE "nil"]
         /\ older' = [e \in Env |-> Cardinality(Timers(e)) - IF Holds(e) THEN 1 ELSE 0]
  /\ wanted' = [e \in Env |-> IF events'[e] # <<>> THEN repo[e] ELSE 0]
  /\ UNCHANGED <<repo, dir, act, last, newest, requests, faults>>

Init ==
  /\ repo = [e \in Env |-> 1] /\ events = [e \in Env |-> <<>>]
  /\ latest = [e \in Env |-> "nil"] /\ older = [e \in Env |-> 0]
  /\ dir = [e \in Env |-> 0] /\ act = [a \in Act |-> Idle] /\ up = FALSE
  /\ last = [e \in Env |-> [s \in SystemNames |-> 0]] /\ newest = last
  /\ wanted = [e \in Env |-> 0]
  /\ requests = MaxRequests /\ faults = MaxFaults

Next ==
  \/ \E e \in Env :
       \/ Push(e)
       \/ \E a \in Act : PutEnv(a, e) \/ Config(a, e) \/ TimerFires(a, e)
  \/ \E a \in Act : Clone(a) \/ CloneFails(a) \/ Reset(a) \/ ExecuteEnv(a)
  \/ Crash \/ Boot

Fairness ==
  /\ \A a \in Act : WF_vars(Clone(a) \/ Reset(a) \/ ExecuteEnv(a))
  /\ \A e \in Env : WF_vars(\E a \in Act : TimerFires(a, e))
  /\ WF_vars(Boot)

Spec == Init /\ [][Next]_vars /\ Fairness

-----------------------------------------------------------------------------
(* Properties.                                                             *)

(* A system that was provisioned with a revision is not provisioned with   *)
(* an older one, unless two executions of its environment went on at the   *)
(* same time: each goes on with what it has read (execute.go:29-35).       *)
NoGoingBack ==
  [][\A e \in Env : \A s \in SystemNames :
       last'[e][s] < last[e][s] =>
         \E a \in Act : act[a].pc = "provision" /\ act[a].env = e /\ act[a].shared]_vars

(* The process ends only when it is stopped, when a request cannot clone,  *)
(* or when the revision that was pulled during an execution has one system *)
(* less.  One environment's failure ends the executions of all others, but *)
(* what a timer does never does.                                           *)
EndExplained ==
  [][up /\ ~up' =>
       \/ faults'["crash"] < faults["crash"]
       \/ \E a \in Act :
            \/ /\ faults'["clone"] < faults["clone"]
               /\ act[a].pc = "clone" /\ act[a].by = "request"
            \/ act[a].pc = "parse" /\ act[a].shared]_vars

(* What was asked for, by a request or by starting the server, is done:    *)
(* the systems of the revision there was at the time, or a newer one, are  *)
(* provisioned.  (Later requests ask for newer ones, so this may be said   *)
(* of the last of each environment, and of all at once.)  Not so when a clone    *)
(* failed, when a request found a timer that is nil, or when a directory   *)
(* before the system has none (execute.go:31), as the one of package       *)
(* managers (parse.go:33).                                                 *)
Before(r, s) ==
  LET ds == SelectSeq(Revisions[r].dirs, IsSystem)
  IN  {ds[i] : i \in {j \in DOMAIN ds :
        \E k \in DOMAIN ds : ds[k].name = s /\ j <= k}}

Reached(e, r, s) ==
  \/ newest[e][s] >= r
  \/ \E q \in r .. repo[e] :
       \/ \A d \in ToSet(Revisions[q].dirs) : d.name # s
       \/ \E d \in Before(q, s) : d.kind # "system"

Executed ==
  []<>(\A e \in Env :
         \/ \A s \in SystemNames : Reached(e, wanted[e], s)
         \/ faults["clone"] < MaxFaults["clone"]
         \/ "updated" \in ToSet(events[e]))
=============================================================================
