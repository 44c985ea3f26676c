---------------------------- MODULE Provisioning ----------------------------
(***************************************************************************)
(* The workers of a deployment over one AWS account: Network, Frontend and *)
(* Servers driven by the executions of Executions.  Nothing in the account *)
(* is owned by a worker, every part looks for what it is to make and makes *)
(* it when it is not found.                                                *)
(***************************************************************************)
EXTENDS Network, Frontend, Servers

(* What can be configured, and the slices of a deployment: what is done    *)
(* before has been done with all it requires, and is nothing whose state   *)
(* InitNetwork, InitFrontend and InitServers leave out.                    *)
Configs == [services : Seq(Services) \ {<<>>}, path : Paths,
            frontend : BOOLEAN, size : Sizes]

SliceOk(s) ==
  /\ s.done \subseteq Parts \ {"ig", "rule", "node", "cleanup", "target"}
  /\ \A p \in s.done : Needs[p] \subseteq s.done
  /\ s.parts \subseteq Parts /\ s.parts \cap s.done = {}
  /\ s.configs \subseteq Configs
  /\ s.zones \in Nat

ASSUME ProvisioningAssumption ==
  /\ IsFiniteSet(Workers) /\ Workers # {}
  /\ \A s \in Slices : SliceOk(s)
  /\ Occupied \subseteq SUBSET (Access \cup {Foreign})
  /\ None \notin Paths /\ "404" \notin Services
  /\ Nodes \in Nat \ {0}

account == <<networkVars, frontVars, serverVars>>
vars == <<engine, results, exec, account>>

Init == InitEngine /\ InitNetwork /\ InitFrontend /\ InitServers

Step(w) ==
  /\ \/ NetworkStep(w) /\ UNCHANGED <<frontVars, serverVars>>
     \/ FrontendStep(w) /\ UNCHANGED <<networkVars, serverVars>>
     \/ ServerStep(w) /\ UNCHANGED <<networkVars, frontVars>>
  /\ UNCHANGED engine

(* The one error a part passes over and that leaves something undone. *)
UpdateIgnored(w) ==
  /\ faults < MaxFaults
  /\ faults' = faults + 1
  /\ TargetGroupUpdateFails(w)
  /\ UNCHANGED <<slice, runs, executed, networkVars, serverVars>>

(* What AWS does by itself. *)
Aws ==
  /\ \/ \E i \in DOMAIN certs : Validated(i) /\ UNCHANGED <<networkVars, serverVars>>
     \/ \E s \in DOMAIN servers : Proceeds(s) /\ UNCHANGED <<networkVars, frontVars>>
  /\ UNCHANGED <<engine, results, exec>>

Next ==
  \/ \E c \in Clusters : Provision(c) /\ UNCHANGED account
  \/ \E w \in Workers, c \in Clusters, p \in Parts :
       Begin(w, c, p) /\ UNCHANGED account
  \/ \E w \in Workers : Stop(w) /\ UNCHANGED account
  \/ \E w \in Workers : Step(w) \/ UpdateIgnored(w)
  \/ Aws

Spec == Init /\ [][Next]_vars

-----------------------------------------------------------------------------
(* The state of a worker, the engine and the account have their types:     *)
(* deployment.go, vpc.go, ig.go, server.go, acm.go.                        *)
TypeOK ==
  /\ slice \in Slices
  /\ runs \in [Clusters -> Seq(slice.configs)]
  /\ \A c \in Clusters : DOMAIN results[c] = Parts
  /\ \A w \in Workers : exec[w] = Idle \/
       /\ exec[w].part \in slice.parts /\ exec[w].cluster \in Clusters
       /\ exec[w].run \in 1 .. Len(runs[exec[w].cluster])
       /\ DOMAIN exec[w].args = Needs[exec[w].part]
  /\ vpcs \in Nat /\ named \subseteq 1 .. vpcs
  /\ subnets \subseteq (1 .. vpcs) \X Zones
  /\ igs \in Seq(0 .. vpcs)
  /\ routes \subseteq (1 .. vpcs) \X {Dests[1], Dests[2]} \X DOMAIN igs
  /\ groups \subseteq 1 .. vpcs
  /\ open \subseteq groups \X (Access \cup {Foreign})
  /\ certs \in Seq({"pending", "issued", "timed out"}) /\ record \in BOOLEAN
  /\ lbs \in [Clusters -> 0 .. vpcs]
  /\ listeners \in [Clusters -> SUBSET {80, 443}]
  /\ rules \in [Clusters -> Seq(Services)]
  /\ default \in [Clusters -> Services \cup {"404"}]
  /\ tgs \in [Clusters -> [Services -> Paths \cup {None}]]
  /\ servers \in Seq([cluster : Clusters, node : 1 .. Nodes, size : Sizes,
                      state : States])
  /\ targets \subseteq Services \X DOMAIN servers

Returned(c, p) == IF p \in slice.parts THEN Result(c, p) ELSE {}

Current(c) == runs[c][Len(runs[c])]
ServicesOf(c) == {Current(c).services[i] : i \in DOMAIN Current(c).services}

(* What a part reports as made is there, and stays there whatever the      *)
(* other executions do: a subnet in each zone, routes to a gateway that is *)
(* attached, the loadbalancer's group open, a listener, for each service a *)
(* target group and a way to it, every server registered.  Subnets and     *)
(* routes are those of vpc/subnet.go:73 and vpc/ig.go:44, the rules those  *)
(* of loadbalancer/rule.go:61, the targets those of target.go:19.          *)
ResultsHold ==
  \A c \in Clusters :
    /\ \A v \in Returned(c, "vpc") : v \in 1 .. vpcs
    /\ \A v \in Returned(c, "sn") : SubnetsOf(v) = Zones
    /\ \A i \in Returned(c, "ig") : \A d \in {Dests[1], Dests[2]} :
         <<igs[i], d, i>> \in routes
    /\ \A v \in Returned(c, "lbsg") : OpenIn(v) = Access
    /\ Returned(c, "listener") # {} => 443 \in listeners[c]
    /\ Returned(c, "tg") # {} => \A s \in ServicesOf(c) : tgs[c][s] # None
    /\ Returned(c, "rule") # {} =>
         IF Current(c).frontend THEN default[c] # "404"
         ELSE \A s \in ServicesOf(c) : \E i \in DOMAIN rules[c] : rules[c][i] = s
    /\ "target" \in slice.parts =>
         \A ids \in results[c]["target"] : \A i \in DOMAIN ids :
           ServicesOf(c) \X {ids[i]} \subseteq targets

(* Executing a part again does not make another resource: as many VPCs,    *)
(* and certificates, as executions that looked for one at the same time;   *)
(* as many gateways for a VPC, and one for each that was stopped before it *)
(* attached its own.  The order of looking and creating in vpc.go:89,      *)
(* acm.go:86 and ig.go:45.                                                 *)
NoSurplus ==
  /\ vpcs <= Cardinality(Workers)
  /\ Len(certs) <= Cardinality(Workers)
  /\ Len(igs) <= vpcs * Cardinality(Workers) + faults

(* Every route leads to a gateway attached to the route's VPC, also when   *)
(* several executions create gateways and one is refused to attach its own *)
(* (vpc/ig.go:70, routetable.go:87).                                       *)
RoutesAttached == \A r \in routes : igs[r[3]] = r[1]

OnePath(c) == \A i, j \in DOMAIN runs[c] : runs[c][i].path = runs[c][j].path

(* What is made in two steps is made completely, unless an execution was   *)
(* stopped in between or is at it still: an execution that finds the first *)
(* step done does not look whether the second is.  DNS names of a VPC      *)
(* (vpc.go:131), the redirection of port 80 (listener.go:87), the path of  *)
(* a target group (tg/execute.go:49), a certificate that is issued while   *)
(* it is the only one (cert/execute.go:65).                                *)
CompleteUnlessStopped ==
  \A c \in Clusters :
    /\ \A v \in Returned(c, "vpc") :
         \/ v \in named \/ faults > 0
         \/ \E w \in Workers : At(w, "vpc", "modify") /\ exec[w].got = <<v>>
    /\ Returned(c, "listener") # {} =>
         \/ 80 \in listeners[c] \/ faults > 0
         \/ \E w \in Workers : At(w, "listener", "redirect") /\ exec[w].cluster = c
    /\ Returned(c, "tg") # {} =>
         \/ ~OnePath(c) \/ faults > 0
         \/ \A s \in ServicesOf(c) : tgs[c][s] = Current(c).path
    /\ \A i \in Returned(c, "cert") : certs[i] = "issued" \/ Len(certs) > 1

OneSize(c) == \A i, j \in DOMAIN runs[c] : runs[c][i].size = runs[c][j].size

(* A node that is served stays served: cleanup does not terminate its last *)
(* running server, as long as the runs of the cluster want the same size   *)
(* (cleanup/execute.go:31).                                                *)
StaysServed ==
  [][\A c \in Clusters, n \in 1 .. Nodes :
       OneSize(c) /\ Running(Seen(c, n)) # {} => (Running(Seen(c, n)) # {})']_vars
=============================================================================
