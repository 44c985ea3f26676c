------------------------- MODULE ProvisioningProofs -------------------------
(***************************************************************************)
(* Routes lead to attached gateways; what the parts of a deployment report *)
(* as made is there, stays there, is made completely and not more often    *)
(* than it was looked for at a time; and nodes stay served: for any number *)
(* of workers, clusters and executions, every slice of the deployment and  *)
(* any number of faults.                                                   *)
(***************************************************************************)
EXTENDS Provisioning, FiniteSetTheorems, TLAPS

-----------------------------------------------------------------------------
(* The inductive invariant.                                                *)

Forms ==
  /\ exec = [w \in Workers |-> exec[w]]
  /\ results = [c \in Clusters |-> [p \in Parts |-> results[c][p]]]
  /\ \A w \in Workers :
       LET e == exec[w]
       IN  \/ e = Idle
           \/ /\ e.at # "idle"
              /\ e = [at |-> e.at, part |-> e.part, cluster |-> e.cluster,
                      run |-> e.run, args |-> e.args, got |-> e.got]

(* The part vpc returns VPCs, whose ids are not 0. *)
VpcsReal ==
  /\ vpcs \in Nat
  /\ \A c \in Clusters : \A r \in results[c]["vpc"] : r[1] \in Nat \ {0}

Busy(w) == exec[w].at # "idle" /\ exec[w].part = "ig"

(* What a worker at ig knows of the gateway it has: one it created is      *)
(* attached to no VPC yet, the one it makes routes to is to its VPC.       *)
GatewaysHeld ==
  \A w \in Workers : Busy(w) =>
    /\ Arg(w, "vpc") \in Nat \ {0}
    /\ exec[w].at = "attach" =>
         exec[w].got[1] \in 1 .. Len(igs) /\ igs[exec[w].got[1]] = 0
    /\ exec[w].at \in {"table", "route"} =>
         exec[w].got[1] \in 1 .. Len(igs) /\ igs[exec[w].got[1]] = Arg(w, "vpc")

(* Nobody attaches a gateway somebody else created. *)
GatewaysApart ==
  \A u, w \in Workers :
    /\ Busy(u) /\ exec[u].at = "attach"
    /\ Busy(w) /\ exec[w].at = "attach"
    /\ exec[u].got[1] = exec[w].got[1]
    => u = w

RoutesReal ==
  /\ igs \in Seq(Nat)
  /\ \A r \in routes :
       r[3] \in 1 .. Len(igs) /\ igs[r[3]] = r[1] /\ r[1] \in Nat \ {0}

IInv == Forms /\ VpcsReal /\ GatewaysHeld /\ GatewaysApart /\ RoutesReal

LEMMA Roots == "vpc" \in Parts /\ Needs["ig"] = {"vpc"}
  BY DEF Parts, Needs

-----------------------------------------------------------------------------
(* What the step of a worker does to the engine.                           *)

Works(w) ==
  /\ Forms' /\ VpcsReal'
  /\ \A u \in Workers \ {w} : exec'[u] = exec[u]
  /\ \A c \in Clusters, p \in Parts :
       c # exec[w].cluster \/ p # exec[w].part => results'[c][p] = results[c][p]
  /\ \/ exec'[w] = Idle
     \/ /\ exec'[w].at # "idle" /\ exec'[w].part = exec[w].part
        /\ exec'[w].cluster = exec[w].cluster /\ exec'[w].run = exec[w].run
        /\ exec'[w].args = exec[w].args

(* An execution that ends with ids returns them to its run.                *)
Returns(w, ids) ==
  \A c \in Clusters, p \in Parts :
    \/ results'[c][p] = results[c][p]
    \/ /\ c = exec[w].cluster /\ p = exec[w].part /\ exec[w].run = Len(runs[c])
       /\ results'[c][p] = results[c][p] \cup {ids}

(* The three ways a step ends keep what is known of workers and results.   *)
LEMMA GoWorks ==
  ASSUME IInv, NEW w \in Workers, exec[w].at # "idle", vpcs' \in Nat,
         NEW at, at # "idle", NEW got, Go(w, at, got)
  PROVE  /\ Works(w) /\ exec'[w].at = at /\ exec'[w].got = got
         /\ exec'[w].part = exec[w].part /\ exec'[w].args = exec[w].args
<1> DEFINE part == exec[w].part
           cluster == exec[w].cluster
           run == exec[w].run
           args == exec[w].args
           e == [at |-> at, part |-> part, cluster |-> cluster,
                 run |-> run, args |-> args, got |-> got]
<1>1. exec[w] # Idle
  BY DEF Idle
<1>2. \E a, g : exec[w] = [at |-> a, part |-> part, cluster |-> cluster,
                          run |-> run, args |-> args, got |-> g]
  BY <1>1 DEF IInv, Forms
<1>3. exec' = [exec EXCEPT ![w] = e] /\ results' = results
  <2> HIDE DEF part, cluster, run, args
  <2>0. PICK a, g : exec[w] = [at |-> a, part |-> part, cluster |-> cluster,
                              run |-> run, args |-> args, got |-> g]
    BY <1>2
  <2> DEFINE old == exec[w]
             d == [at |-> at, part |-> part, cluster |-> cluster,
                   run |-> run, args |-> args, got |-> g]
  <2> HIDE DEF old
  <2>a. [old EXCEPT !.at = at, !.got = got] = [[old EXCEPT !.at = at] EXCEPT !.got = got]
    BY <2>0 DEF old
  <2>b. [old EXCEPT !.at = at] = d
    BY <2>0 DEF old
  <2>c. [d EXCEPT !.got = got] = e
    OBVIOUS
  <2>1. [exec[w] EXCEPT !.at = at, !.got = got] = e
    BY <2>a, <2>b, <2>c DEF old
  <2>2. exec' = [exec EXCEPT ![w] = [exec[w] EXCEPT !.at = at, !.got = got]]
    BY DEF Go
  <2>3. QED
    BY <2>1, <2>2 DEF Go
<1>4. exec' = [u \in Workers |-> IF u = w THEN e ELSE exec[u]]
  BY <1>3 DEF IInv, Forms
<1>5. exec'[w] = e /\ \A u \in Workers \ {w} : exec'[u] = exec[u]
  BY <1>4
<1>6. /\ e.at = at /\ e.got = got /\ e.part = exec[w].part /\ e.args = exec[w].args
      /\ e.cluster = exec[w].cluster /\ e.run = exec[w].run
  OBVIOUS
<1>7. exec' = [u \in Workers |-> exec'[u]]
  BY <1>4
<1>8. Forms'
  BY <1>3, <1>5, <1>7 DEF IInv, Forms
<1>9. VpcsReal'
  BY <1>3 DEF IInv, VpcsReal
<1>10. QED
  BY <1>3, <1>5, <1>6, <1>8, <1>9 DEF Works

LEMMA IdleForms ==
  ASSUME IInv, NEW w \in Workers, exec' = [exec EXCEPT ![w] = Idle],
         results' = [c \in Clusters |-> [p \in Parts |-> results'[c][p]]]
  PROVE  /\ Forms' /\ exec'[w] = Idle
         /\ \A u \in Workers \ {w} : exec'[u] = exec[u]
<1>1. exec' = [u \in Workers |-> IF u = w THEN Idle ELSE exec[u]]
  BY DEF IInv, Forms
<1>2. exec'[w] = Idle /\ \A u \in Workers \ {w} : exec'[u] = exec[u]
  BY <1>1
<1>3. exec' = [u \in Workers |-> exec'[u]]
  BY <1>1
<1>4. QED
  BY <1>2, <1>3 DEF IInv, Forms

LEMMA RefusedWorks ==
  ASSUME IInv, NEW w \in Workers, vpcs' = vpcs, Refused(w)
  PROVE  Works(w) /\ exec'[w] = Idle
<1>1. exec' = [exec EXCEPT ![w] = Idle] /\ results' = results
  BY DEF Refused
<1>2. results' = [c \in Clusters |-> [p \in Parts |-> results'[c][p]]]
  BY <1>1 DEF IInv, Forms
<1>3. QED
  BY <1>1, <1>2, IdleForms DEF Works, IInv, VpcsReal

LEMMA FinishWorks ==
  ASSUME IInv, NEW w \in Workers, vpcs' = vpcs, NEW ids,
         exec[w].part = "vpc" => ids[1] \in Nat \ {0}, Finish(w, ids)
  PROVE  Works(w) /\ exec'[w] = Idle /\ Returns(w, ids)
<1> DEFINE c == exec[w].cluster
           p == exec[w].part
<1>1. exec' = [exec EXCEPT ![w] = Idle]
  BY DEF Finish
<1>2. /\ results = [d \in Clusters |-> [q \in Parts |-> results[d][q]]]
      /\ \A d \in Clusters : results[d] = [q \in Parts |-> results[d][q]]
  BY DEF IInv, Forms
<1>3. \/ results' = results
      \/ /\ exec[w].run = Len(runs[c])
         /\ results' = [results EXCEPT ![c][p] = @ \cup {ids}]
  BY DEF Finish
<1>4. Returns(w, ids)
  <2>1. CASE results' = results
    BY <2>1 DEF Returns
  <2>2. CASE /\ exec[w].run = Len(runs[c])
             /\ results' = [results EXCEPT ![c][p] = @ \cup {ids}]
    <3>1. \A d \in Clusters : d # c => results'[d] = results[d]
      BY <1>2, <2>2
    <3>2. c \in Clusters => results'[c] = [results[c] EXCEPT ![p] = @ \cup {ids}]
      BY <1>2, <2>2
    <3>3. c \in Clusters => \A q \in Parts :
            results'[c][q] = IF q = p THEN results[c][q] \cup {ids} ELSE results[c][q]
      BY <1>2, <3>2
    <3>4. QED
      BY <2>2, <3>1, <3>3 DEF Returns
  <2>3. QED
    BY <1>3, <2>1, <2>2
<1>5. results' = [d \in Clusters |-> [q \in Parts |-> results'[d][q]]]
  BY <1>2, <1>3
<1>6. VpcsReal'
  BY <1>4, Roots DEF IInv, VpcsReal, Returns
<1>7. QED
  BY <1>1, <1>4, <1>5, <1>6, IdleForms DEF Works, Returns

-----------------------------------------------------------------------------
(* A step at any other part, and none of a worker, keeps the gateways.     *)

Elsewhere(w) ==
  exec[w].at # "idle" /\ exec[w].part # "ig" /\ UNCHANGED <<igs, routes>>

LEMMA ElsewhereKeeps ==
  ASSUME IInv, NEW w \in Workers, Works(w), Elsewhere(w)
  PROVE  IInv'
<1> USE DEF Elsewhere
<1>1. /\ ~Busy(w)'
      /\ \A u \in Workers \ {w} : exec'[u] = exec[u]
  BY DEF Works, Busy, Idle
<1>2. GatewaysHeld'
  BY <1>1 DEF IInv, GatewaysHeld, Busy, Arg
<1>3. GatewaysApart'
  BY <1>1 DEF IInv, GatewaysApart, Busy
<1>4. RoutesReal'
  BY DEF IInv, RoutesReal
<1>5. QED
  BY <1>2, <1>3, <1>4 DEF IInv, Works

(* The steps of the parts of Frontend and Servers.                         *)
LEMMA FrontendWorks ==
  ASSUME IInv, NEW w \in Workers, FrontendStep(w), UNCHANGED <<networkVars, serverVars>>
  PROVE  Works(w) /\ Elsewhere(w)
<1> USE GoWorks, RefusedWorks, FinishWorks DEF At, networkVars, Elsewhere
<1>0. vpcs \in Nat
  BY DEF IInv, VpcsReal
<1>1. CASE CertLook(w)
  BY <1>0, <1>1 DEF CertLook
<1>2. CASE CertLookAgain(w)
  BY <1>0, <1>2 DEF CertLookAgain
<1>3. CASE CertRequest(w)
  BY <1>0, <1>3 DEF CertRequest
<1>4. CASE CertValidation(w)
  BY <1>0, <1>4 DEF CertValidation
<1>5. CASE CertRecord(w)
  BY <1>0, <1>5 DEF CertRecord
<1>6. CASE CertWait(w)
  BY <1>0, <1>6 DEF CertWait
<1>7. CASE CertRead(w)
  BY <1>0, <1>7 DEF CertRead
<1>8. CASE LoadbalancerCreate(w)
  BY <1>0, <1>8 DEF LoadbalancerCreate
<1>9. CASE ListenerLook(w)
  BY <1>0, <1>9 DEF ListenerLook
<1>10. CASE ListenerCreate(w)
  BY <1>0, <1>10 DEF ListenerCreate, Listen
<1>11. CASE ListenerRedirect(w)
  BY <1>0, <1>11 DEF ListenerRedirect, Listen
<1>12. CASE TargetGroupLook(w)
  BY <1>0, <1>12 DEF TargetGroupLook, NextService, After
<1>13. CASE TargetGroupCreate(w)
  BY <1>0, <1>13 DEF TargetGroupCreate, SetPath, NextService, After
<1>14. CASE TargetGroupUpdate(w)
  BY <1>0, <1>14 DEF TargetGroupUpdate, SetPath, NextService, After
<1>15. CASE RuleDefault(w)
  BY <1>0, <1>15 DEF RuleDefault, NextService, After
<1>16. CASE RuleLook(w)
  BY <1>0, <1>16 DEF RuleLook
<1>17. CASE RuleCreate(w)
  BY <1>0, <1>17 DEF RuleCreate, After
<1>18. QED
  BY <1>1, <1>2, <1>3, <1>4, <1>5, <1>6, <1>7, <1>8, <1>9, <1>10, <1>11, <1>12, <1>13, <1>14, <1>15, <1>16, <1>17 DEF FrontendStep

LEMMA ServersWork ==
  ASSUME IInv, NEW w \in Workers, ServerStep(w), UNCHANGED <<networkVars, frontVars>>
  PROVE  Works(w) /\ Elsewhere(w)
<1> USE GoWorks, RefusedWorks, FinishWorks DEF At, networkVars, Elsewhere
<1>0. vpcs \in Nat
  BY DEF IInv, VpcsReal
<1>1. CASE NodeLook(w)
  BY <1>0, <1>1 DEF NodeLook, NextNode
<1>2. CASE NodeCreate(w)
  BY <1>0, <1>2 DEF NodeCreate, NextNode
<1>3. CASE CleanupLook(w)
  BY <1>0, <1>3 DEF CleanupLook, CleanupWith, AfterCleaning
<1>4. CASE CleanupDelete(w)
  BY SMTT(30), <1>0, <1>4 DEF CleanupDelete, AfterCleaning
<1>5. CASE TargetRegister(w)
  BY <1>0, <1>5 DEF TargetRegister
<1>6. QED
  BY <1>1, <1>2, <1>3, <1>4, <1>5 DEF ServerStep

-----------------------------------------------------------------------------
(* The parts of Network other than ig, likewise.                           *)

LEMMA VpcWorks ==
  ASSUME IInv, NEW w \in Workers,
         VpcLook(w) \/ VpcCreate(w) \/ VpcModify(w) \/ VpcRead(w)
  PROVE  Works(w) /\ Elsewhere(w)
<1> USE GoWorks, RefusedWorks, FinishWorks DEF At, networkVars, Elsewhere
<1>0. vpcs \in Nat /\ \A v \in 1 .. vpcs : <<v>>[1] \in Nat \ {0}
  BY DEF IInv, VpcsReal
<1>1. CASE VpcLook(w)
  BY <1>0, <1>1 DEF VpcLook
<1>2. CASE VpcCreate(w)
  BY <1>0, <1>2 DEF VpcCreate
<1>3. CASE VpcModify(w)
  BY <1>0, <1>3 DEF VpcModify
<1>4. CASE VpcRead(w)
  BY <1>0, <1>4 DEF VpcRead
<1>5. QED
  BY <1>1, <1>2, <1>3, <1>4

LEMMA OthersWork ==
  ASSUME IInv, NEW w \in Workers,
         \/ SubnetLook(w) \/ SubnetCreate(w) \/ SubnetRead(w)
         \/ GroupLook(w) \/ GroupCreate(w) \/ GroupRules(w) \/ GroupOpen(w)
         \/ UniqueLook(w) \/ UniqueCreate(w)
  PROVE  Works(w) /\ Elsewhere(w)
<1> USE GoWorks, RefusedWorks, FinishWorks DEF At, networkVars, Elsewhere
<1>0. vpcs \in Nat
  BY DEF IInv, VpcsReal
<1>1. CASE SubnetLook(w)
  BY <1>0, <1>1 DEF SubnetLook
<1>2. CASE SubnetCreate(w)
  BY <1>0, <1>2 DEF SubnetCreate
<1>3. CASE SubnetRead(w)
  BY <1>0, <1>3 DEF SubnetRead
<1>4. CASE GroupLook(w)
  BY <1>0, <1>4 DEF GroupLook
<1>5. CASE GroupCreate(w)
  BY <1>0, <1>5 DEF GroupCreate
<1>6. CASE GroupRules(w)
  BY <1>0, <1>6 DEF GroupRules
<1>7. CASE GroupOpen(w)
  BY <1>0, <1>7 DEF GroupOpen
<1>8. CASE UniqueLook(w)
  BY <1>0, <1>8 DEF UniqueLook
<1>9. CASE UniqueCreate(w)
  BY <1>0, <1>9 DEF UniqueCreate
<1>10. QED
  BY <1>1, <1>2, <1>3, <1>4, <1>5, <1>6, <1>7, <1>8, <1>9

-----------------------------------------------------------------------------
(* ig.                                                                     *)

(* A worker at ig that changes neither gateways nor routes and ends with   *)
(* nothing, or a gateway attached to its VPC.                              *)
LEMMA HolderKeeps ==
  ASSUME IInv, NEW w \in Workers, Works(w), Busy(w), UNCHANGED <<igs, routes>>,
         \/ exec'[w] = Idle \/ exec'[w].at = "create"
         \/ /\ exec'[w].at \in {"table", "route"}
            /\ exec'[w].got[1] \in 1 .. Len(igs)
            /\ igs[exec'[w].got[1]] = Arg(w, "vpc")
  PROVE  IInv'
<1>1. /\ \A u \in Workers \ {w} : exec'[u] = exec[u]
      /\ Busy(w)' => exec'[w].at # "attach" /\ exec'[w].args = exec[w].args
      /\ Arg(w, "vpc") \in Nat \ {0}
  BY DEF Works, Busy, Idle, IInv, GatewaysHeld
<1>2. GatewaysHeld'
  BY <1>1 DEF IInv, GatewaysHeld, Busy, Arg, Idle
<1>3. GatewaysApart'
  BY <1>1 DEF IInv, GatewaysApart, Busy
<1>4. RoutesReal'
  BY DEF IInv, RoutesReal
<1>5. QED
  BY <1>2, <1>3, <1>4 DEF IInv, Works

LEMMA GatewayLookKeeps ==
  ASSUME IInv, NEW w \in Workers, GatewayLook(w)
  PROVE  IInv'
<1>1. Busy(w) /\ vpcs' \in Nat /\ vpcs' = vpcs /\ UNCHANGED <<igs, routes>>
  BY DEF GatewayLook, At, Busy, networkVars, IInv, VpcsReal
<1>2. CASE Go(w, "create", <<>>)
  BY <1>1, <1>2, GoWorks, HolderKeeps DEF Busy
<1>3. ASSUME NEW i \in Attached(Arg(w, "vpc")), Go(w, "table", <<i>>)
      PROVE  IInv'
  <2>1. i \in 1 .. Len(igs) /\ igs[i] = Arg(w, "vpc") /\ <<i>>[1] = i
    BY DEF Attached, IInv, RoutesReal
  <2>2. QED
    BY <1>1, <1>3, <2>1, GoWorks, HolderKeeps DEF Busy
<1>4. QED
  BY <1>2, <1>3 DEF GatewayLook

LEMMA GatewayCreateKeeps ==
  ASSUME IInv, NEW w \in Workers, GatewayCreate(w)
  PROVE  IInv'
<1>1. /\ Busy(w) /\ vpcs' \in Nat /\ routes' = routes
      /\ igs' = Append(igs, 0) /\ Go(w, "attach", <<Len(igs) + 1>>)
  BY DEF GatewayCreate, At, Busy, IInv, VpcsReal
<1>2. /\ Works(w) /\ exec'[w].at = "attach" /\ exec'[w].got = <<Len(igs) + 1>>
      /\ exec'[w].args = exec[w].args
  BY <1>1, GoWorks DEF Busy
<1>3. /\ igs' \in Seq(Nat) /\ Len(igs') = Len(igs) + 1 /\ Len(igs) \in Nat
      /\ igs'[Len(igs) + 1] = 0
      /\ \A i \in 1 .. Len(igs) : i \in 1 .. Len(igs') /\ igs'[i] = igs[i]
  BY <1>1 DEF IInv, RoutesReal
<1>4. \A u \in Workers \ {w} : exec'[u] = exec[u]
  BY <1>2 DEF Works
<1>5. exec'[w].got[1] = Len(igs) + 1 /\ Len(igs) + 1 \in 1 .. Len(igs')
  BY <1>2, <1>3
<1>6. GatewaysHeld'
  <2>1. ASSUME NEW u \in Workers \ {w}, Busy(u)'
        PROVE  /\ (Arg(u, "vpc") \in Nat \ {0})'
               /\ exec'[u].at = "attach" =>
                    exec'[u].got[1] \in 1 .. Len(igs') /\ igs'[exec'[u].got[1]] = 0
               /\ exec'[u].at \in {"table", "route"} =>
                    /\ exec'[u].got[1] \in 1 .. Len(igs')
                    /\ igs'[exec'[u].got[1]] = Arg(u, "vpc")'
    BY SMTT(30), <1>3, <1>4, <2>1 DEF IInv, GatewaysHeld, Busy, Arg
  <2>2. (Arg(w, "vpc") \in Nat \ {0})'
    BY <1>1, <1>2 DEF IInv, GatewaysHeld, Busy, Arg
  <2>3. exec'[w].at # "table" /\ exec'[w].at # "route"
    BY <1>2
  <2>. QED BY <1>3, <1>5, <2>1, <2>2, <2>3 DEF GatewaysHeld
<1>7. GatewaysApart'
  <2>1. \A u \in Workers \ {w} : Busy(u)' /\ exec'[u].at = "attach" =>
          exec'[u].got[1] # Len(igs) + 1
    BY <1>3, <1>4 DEF IInv, GatewaysHeld, Busy
  <2>2. QED
    BY <1>4, <1>5, <2>1 DEF IInv, GatewaysApart, Busy
<1>8. RoutesReal'
  BY <1>1, <1>3 DEF IInv, RoutesReal
<1>9. QED
  BY <1>2, <1>6, <1>7, <1>8 DEF IInv, Works

LEMMA GatewayAttachKeeps ==
  ASSUME IInv, NEW w \in Workers, GatewayAttach(w)
  PROVE  IInv'
<1> DEFINE v == Arg(w, "vpc")
           g == exec[w].got[1]
<1>1. /\ Busy(w) /\ exec[w].at = "attach" /\ vpcs' = vpcs /\ vpcs' \in Nat
      /\ routes' = routes
  BY DEF GatewayAttach, At, Busy, IInv, VpcsReal
<1>2. CASE Refused(w) /\ UNCHANGED igs
  BY <1>1, <1>2, RefusedWorks, HolderKeeps
<1>3. CASE igs' = [igs EXCEPT ![g] = v] /\ Go(w, "table", exec[w].got)
  <2>1. v \in Nat \ {0} /\ g \in 1 .. Len(igs) /\ igs[g] = 0
    BY <1>1 DEF IInv, GatewaysHeld
  <2>2. /\ Works(w) /\ exec'[w].at = "table" /\ exec'[w].got = exec[w].got
        /\ exec'[w].args = exec[w].args
    BY <1>1, <1>3, GoWorks DEF Busy
  <2>3. \A u \in Workers \ {w} : exec'[u] = exec[u]
    BY <2>2 DEF Works
  <2>4. /\ igs' \in Seq(Nat) /\ Len(igs') = Len(igs) /\ igs'[g] = v
        /\ \A i \in 1 .. Len(igs) : i # g => igs'[i] = igs[i]
    BY <1>3, <2>1 DEF IInv, RoutesReal
  <2>5. GatewaysHeld'
    <3>1. ASSUME NEW u \in Workers \ {w}, Busy(u)
          PROVE  /\ exec[u].at = "attach" => exec[u].got[1] # g
                 /\ exec[u].at \in {"table", "route"} => exec[u].got[1] # g
      BY <1>1, <2>1, <3>1 DEF IInv, GatewaysHeld, GatewaysApart
    <3>2. \A u \in Workers \ {w} : Busy(u)' =>
            /\ Busy(u) /\ Arg(u, "vpc")' = Arg(u, "vpc")
            /\ exec'[u].at = exec[u].at /\ exec'[u].got = exec[u].got
      BY <2>3 DEF Busy, Arg
    <3>3. Arg(w, "vpc")' = v /\ exec'[w].at = "table" /\ exec'[w].got[1] = g
      BY <2>2 DEF Arg
    <3>4. ASSUME NEW u \in Workers \ {w}, Busy(u)'
          PROVE  /\ Arg(u, "vpc")' \in Nat \ {0}
                 /\ exec'[u].at = "attach" =>
                      exec'[u].got[1] \in 1 .. Len(igs') /\ igs'[exec'[u].got[1]] = 0
                 /\ exec'[u].at \in {"table", "route"} =>
                      /\ exec'[u].got[1] \in 1 .. Len(igs')
                      /\ igs'[exec'[u].got[1]] = Arg(u, "vpc")'
      BY SMTT(30), <2>4, <3>1, <3>2, <3>4 DEF IInv, GatewaysHeld
    <3>5. QED
      BY <2>1, <2>4, <3>3, <3>4 DEF GatewaysHeld
  <2>6. GatewaysApart'
    BY <2>2, <2>3 DEF IInv, GatewaysApart, Busy
  <2>7. RoutesReal'
    BY <1>1, <2>1, <2>4 DEF IInv, RoutesReal
  <2>8. QED
    BY <2>2, <2>5, <2>6, <2>7 DEF IInv, Works
<1>4. QED
  BY <1>2, <1>3 DEF GatewayAttach

LEMMA TableReadKeeps ==
  ASSUME IInv, NEW w \in Workers, TableRead(w)
  PROVE  IInv'
<1> DEFINE g == exec[w].got[1]
<1>1. /\ Busy(w) /\ exec[w].at = "table" /\ vpcs' = vpcs /\ vpcs' \in Nat
      /\ UNCHANGED <<igs, routes>>
  BY DEF TableRead, At, Busy, networkVars, IInv, VpcsReal
<1>2. g \in 1 .. Len(igs) /\ igs[g] = Arg(w, "vpc")
  BY <1>1 DEF IInv, GatewaysHeld
<1>3. CASE Finish(w, exec[w].got)
  BY <1>1, <1>3, FinishWorks, HolderKeeps DEF Busy
<1>4. ASSUME NEW missing, Go(w, "route", <<g, missing>>)
      PROVE  IInv'
  <2>1. <<g, missing>>[1] = g
    OBVIOUS
  <2>2. QED
    BY <1>1, <1>2, <1>4, <2>1, GoWorks, HolderKeeps DEF Busy
<1>5. QED
  BY <1>3, <1>4 DEF TableRead

LEMMA RouteCreateKeeps ==
  ASSUME IInv, NEW w \in Workers, RouteCreate(w)
  PROVE  IInv'
<1> DEFINE v == Arg(w, "vpc")
           g == exec[w].got[1]
<1>1. /\ Busy(w) /\ exec[w].at = "route" /\ vpcs' = vpcs /\ vpcs' \in Nat
      /\ igs' = igs
  BY DEF RouteCreate, At, Busy, IInv, VpcsReal
<1>2. v \in Nat \ {0} /\ g \in 1 .. Len(igs) /\ igs[g] = v
  BY <1>1 DEF IInv, GatewaysHeld
<1>3. CASE Refused(w) /\ UNCHANGED routes
  BY <1>1, <1>3, RefusedWorks, HolderKeeps
<1>4. ASSUME NEW d, routes' = routes \cup {<<v, d, g>>},
             NEW rest, Finish(w, <<g>>) \/ Go(w, "route", <<g, rest>>)
      PROVE  IInv'
  <2>1. /\ Works(w)
        /\ \/ exec'[w] = Idle
           \/ /\ exec'[w].at = "route" /\ exec'[w].got[1] = g
              /\ exec'[w].args = exec[w].args
    <3>1. <<g, rest>>[1] = g
      OBVIOUS
    <3>2. QED
      BY <1>1, <1>4, <3>1, GoWorks, FinishWorks DEF Busy
  <2>2. \A u \in Workers \ {w} : exec'[u] = exec[u]
    BY <2>1 DEF Works
  <2>3. GatewaysHeld'
    BY SMTT(30), <1>1, <1>2, <2>1, <2>2 DEF IInv, GatewaysHeld, Busy, Arg, Idle
  <2>4. GatewaysApart'
    BY <2>1, <2>2 DEF IInv, GatewaysApart, Busy, Idle
  <2>5. RoutesReal'
    BY <1>1, <1>2, <1>4 DEF IInv, RoutesReal
  <2>6. QED
    BY <2>1, <2>3, <2>4, <2>5 DEF IInv, Works
<1>5. QED
  BY <1>3, <1>4 DEF RouteCreate

LEMMA GatewaysWork ==
  ASSUME IInv, NEW w \in Workers,
         \/ GatewayLook(w) \/ GatewayCreate(w) \/ GatewayAttach(w)
         \/ TableRead(w) \/ RouteCreate(w)
  PROVE  Works(w) /\ exec[w].at # "idle"
<1> USE GoWorks, RefusedWorks, FinishWorks DEF At, networkVars
<1>0. vpcs \in Nat
  BY DEF IInv, VpcsReal
<1>1. CASE GatewayLook(w)
  BY <1>0, <1>1 DEF GatewayLook
<1>2. CASE GatewayCreate(w)
  BY <1>0, <1>2 DEF GatewayCreate
<1>3. CASE GatewayAttach(w)
  BY <1>0, <1>3 DEF GatewayAttach
<1>4. CASE TableRead(w)
  BY <1>0, <1>4 DEF TableRead
<1>5. CASE RouteCreate(w)
  BY <1>0, <1>5 DEF RouteCreate
<1>6. QED
  BY <1>1, <1>2, <1>3, <1>4, <1>5

LEMMA UpdateIgnoredWorks ==
  ASSUME IInv, NEW w \in Workers, UpdateIgnored(w)
  PROVE  Works(w) /\ Elsewhere(w)
<1>1. vpcs \in Nat
  BY DEF IInv, VpcsReal
<1>2. QED
  BY <1>1, GoWorks, FinishWorks
  DEF UpdateIgnored, TargetGroupUpdateFails, NextService, After, At, networkVars, Elsewhere

(* Every step of a worker works.                                           *)
LEMMA StepWorks ==
  ASSUME IInv, NEW w \in Workers, Step(w) \/ UpdateIgnored(w)
  PROVE  Works(w) /\ exec[w].at # "idle"
  BY VpcWorks, OthersWork, GatewaysWork, FrontendWorks, ServersWork, UpdateIgnoredWorks
  DEF Step, NetworkStep, Elsewhere

LEMMA StepKeeps ==
  ASSUME IInv, NEW w \in Workers, Step(w) \/ UpdateIgnored(w)
  PROVE  IInv'
<1>1. CASE NetworkStep(w)
  BY <1>1, VpcWorks, OthersWork, ElsewhereKeeps, GatewayLookKeeps, GatewayCreateKeeps,
     GatewayAttachKeeps, TableReadKeeps, RouteCreateKeeps DEF NetworkStep
<1>2. QED
  BY <1>1, FrontendWorks, ServersWork, UpdateIgnoredWorks, ElsewhereKeeps DEF Step

-----------------------------------------------------------------------------
(* The engine and AWS.                                                     *)

LEMMA ProvisionKeeps ==
  ASSUME IInv, NEW c \in Clusters, Provision(c), UNCHANGED account
  PROVE  IInv'
<1>1. /\ exec' = exec /\ results' = [results EXCEPT ![c] = Before]
      /\ vpcs' = vpcs /\ UNCHANGED <<igs, routes>>
  BY DEF Provision, account, networkVars
<1>2. /\ Before = [p \in Parts |-> Before[p]]
      /\ \A r \in Before["vpc"] : r[1] = 1
  BY Roots DEF Before
<1>3. /\ results = [d \in Clusters |-> [p \in Parts |-> results[d][p]]]
      /\ \A d \in Clusters : results[d] = [p \in Parts |-> results[d][p]]
  BY DEF IInv, Forms
<1>4. /\ results'[c] = Before
      /\ \A d \in Clusters \ {c} : results'[d] = results[d]
  BY <1>1, <1>3
<1>5. results' = [d \in Clusters |-> [p \in Parts |-> results'[d][p]]]
  BY <1>1, <1>2, <1>3, <1>4
<1>6. VpcsReal'
  BY <1>1, <1>2, <1>4 DEF IInv, VpcsReal
<1>7. Forms'
  BY <1>1, <1>5 DEF IInv, Forms
<1>8. QED
  BY <1>1, <1>6, <1>7 DEF IInv, GatewaysHeld, GatewaysApart, RoutesReal, Busy, Arg

LEMMA BeginKeeps ==
  ASSUME IInv, NEW w \in Workers, NEW c \in Clusters, NEW p \in Parts,
         Begin(w, c, p), UNCHANGED account
  PROVE  IInv'
<1>1. PICK args \in [Needs[p] -> UNION {results[c][q] : q \in Needs[p]}] :
        /\ \A q \in Needs[p] : args[q] \in results[c][q]
        /\ exec' = [exec EXCEPT ![w] =
                     [at |-> "start", part |-> p, cluster |-> c,
                      run |-> Len(runs[c]), args |-> args, got |-> <<>>]]
  BY DEF Begin
<1>2. results' = results /\ vpcs' = vpcs /\ UNCHANGED <<igs, routes>>
  BY DEF Begin, account, networkVars
<1> DEFINE n == Len(runs[c])
           e == [at |-> "start", part |-> p, cluster |-> c,
                 run |-> n, args |-> args, got |-> <<>>]
<1> HIDE DEF n
<1>3. exec' = [u \in Workers |-> IF u = w THEN e ELSE exec[u]]
  BY <1>1 DEF IInv, Forms, n
<1>4. exec'[w] = e /\ \A u \in Workers \ {w} : exec'[u] = exec[u]
  BY <1>3
<1>5. /\ e.at = "start" /\ e.part = p /\ e.args = args
      /\ e = [at |-> e.at, part |-> e.part, cluster |-> e.cluster,
              run |-> e.run, args |-> e.args, got |-> e.got]
  OBVIOUS
<1> HIDE DEF e
<1>6. exec' = [u \in Workers |-> exec'[u]]
  BY <1>3
<1>7. Forms'
  BY <1>2, <1>4, <1>5, <1>6 DEF IInv, Forms
<1>8. p = "ig" => args["vpc"][1] \in Nat \ {0}
  BY <1>1, Roots DEF IInv, VpcsReal
<1>9. GatewaysHeld'
  BY <1>2, <1>4, <1>5, <1>8 DEF IInv, GatewaysHeld, Busy, Arg
<1>10. GatewaysApart'
  BY <1>4, <1>5 DEF IInv, GatewaysApart, Busy
<1>11. QED
  BY <1>2, <1>7, <1>9, <1>10 DEF IInv, VpcsReal, RoutesReal

LEMMA StopKeeps ==
  ASSUME IInv, NEW w \in Workers, Stop(w), UNCHANGED account
  PROVE  IInv'
<1>1. Refused(w) /\ vpcs' = vpcs /\ UNCHANGED <<igs, routes>> /\ exec[w].at # "idle"
  BY DEF Stop, Refused, account, networkVars, IInv, Forms
<1>2. QED
  BY <1>1, RefusedWorks, ElsewhereKeeps, HolderKeeps DEF Busy, Elsewhere

LEMMA SameKeeps ==
  ASSUME IInv, UNCHANGED <<exec, results, vpcs, igs, routes>>
  PROVE  IInv'
  BY DEF IInv, Forms, VpcsReal, GatewaysHeld, GatewaysApart, RoutesReal, Busy, Arg

LEMMA AwsKeeps ==
  ASSUME IInv, Aws
  PROVE  IInv'
  BY SameKeeps DEF Aws, Proceeds, networkVars

-----------------------------------------------------------------------------
LEMMA InitIInv == Init => IInv
<1> SUFFICES ASSUME Init PROVE IInv
  OBVIOUS
<1>1. /\ results = [c \in Clusters |-> Before]
      /\ exec = [w \in Workers |-> Idle]
      /\ vpcs \in Nat /\ igs = <<>> /\ routes = {}
  BY DEF Init, InitEngine, InitNetwork
<1>2. /\ Before = [p \in Parts |-> Before[p]]
      /\ \A r \in Before["vpc"] : r[1] = 1
  BY Roots DEF Before
<1>3. \A c \in Clusters : results[c] = Before
  BY <1>1
<1>4. results = [c \in Clusters |-> [p \in Parts |-> results[c][p]]]
  BY <1>1, <1>2, <1>3
<1>5. Forms /\ VpcsReal
  BY <1>1, <1>2, <1>3, <1>4 DEF Forms, VpcsReal
<1>6. \A w \in Workers : ~Busy(w)
  BY <1>1 DEF Busy, Idle
<1>7. QED
  BY <1>1, <1>5, <1>6 DEF IInv, GatewaysHeld, GatewaysApart, RoutesReal

(* The invariant is inductive, one step for each disjunct of Next.         *)
LEMMA NextIInv == IInv /\ [Next]_vars => IInv'
<1> SUFFICES ASSUME IInv, [Next]_vars PROVE IInv'
  OBVIOUS
<1>1. ASSUME NEW c \in Clusters, Provision(c), UNCHANGED account PROVE IInv'
  BY <1>1, ProvisionKeeps
<1>2. ASSUME NEW w \in Workers, NEW c \in Clusters, NEW p \in Parts,
             Begin(w, c, p), UNCHANGED account
      PROVE  IInv'
  BY <1>2, BeginKeeps
<1>3. ASSUME NEW w \in Workers, Stop(w), UNCHANGED account PROVE IInv'
  BY <1>3, StopKeeps
<1>4. ASSUME NEW w \in Workers, Step(w) \/ UpdateIgnored(w) PROVE IInv'
  BY <1>4, StepKeeps
<1>5. CASE Aws
  BY <1>5, AwsKeeps
<1>6. CASE UNCHANGED vars
  BY <1>6, SameKeeps DEF vars, account, networkVars
<1>7. QED
  BY <1>1, <1>2, <1>3, <1>4, <1>5, <1>6 DEF Next

(* Every route of ig.go and routetable.go leads to a gateway attached to   *)
(* its VPC, however many executions create gateways at the same time,      *)
(* stop, or are refused.                                                   *)
THEOREM RoutesLeadOut == Spec => []RoutesAttached
<1>1. IInv => RoutesAttached
  BY DEF IInv, RoutesReal, RoutesAttached
<1>2. QED
  BY <1>1, InitIInv, NextIInv, PTL DEF Spec

-----------------------------------------------------------------------------
(* What is known of a result, in every run from the one that returned it.  *)

Routed(i, ds) == \A d \in ds : <<igs[i], d, i>> \in routes
AllDests == {Dests[1], Dests[2]}

Promise(p, r) ==
  /\ p \in {"vpc", "sn", "lbsg"} => r[1] \in 1 .. vpcs
  /\ p = "sn" => SubnetsOf(r[1]) = Zones
  /\ p = "lbsg" => r[1] \in groups /\ OpenIn(r[1]) = Access
  /\ p = "ig" => r[1] \in DOMAIN igs /\ igs[r[1]] # 0 /\ Routed(r[1], AllDests)
  /\ p = "cert" => r[1] \in DOMAIN certs
  /\ p = "node" => r \in Seq(DOMAIN servers) /\ Len(r) = Nodes

(* What is known of one of a run configured as g.                          *)
HasGroup(c, s) == tgs[c][s] # None
HasRule(c, s)  == \E i \in DOMAIN rules[c] : rules[c][i] = s

RunPromise(c, p, r, g) ==
  /\ p = "listener" => 443 \in listeners[c]
  /\ p = "tg" => \A i \in DOMAIN g.services : HasGroup(c, g.services[i])
  /\ p = "rule" =>
       IF g.frontend THEN default[c] # "404"
       ELSE \A i \in DOMAIN g.services : HasRule(c, g.services[i])
  /\ p = "target" =>
       \A i \in DOMAIN r, j \in DOMAIN g.services : <<g.services[j], r[i]>> \in targets

-----------------------------------------------------------------------------
(* What a worker knows where it is.                                        *)

AtNetwork(w) ==
  /\ At(w, "vpc", "modify") => exec[w].got[1] \in 1 .. vpcs
  /\ At(w, "sn", "create") =>
       /\ exec[w].got \subseteq Zones
       /\ Zones \ exec[w].got \subseteq SubnetsOf(Arg(w, "vpc"))
  /\ At(w, "sn", "read") => SubnetsOf(Arg(w, "vpc")) = Zones
  /\ At(w, "ig", "route") =>
       /\ exec[w].got[2] \subseteq AllDests /\ exec[w].got[2] # {}
       /\ Routed(exec[w].got[1], AllDests \ exec[w].got[2])
  /\ exec[w].part = "lbsg" /\ exec[w].at \in {"rules", "open"} =>
       Arg(w, "vpc") \in groups
  /\ At(w, "lbsg", "open") =>
       /\ exec[w].got \subseteq Access
       /\ Access \ exec[w].got \subseteq OpenIn(Arg(w, "vpc"))
       /\ Foreign \notin OpenIn(Arg(w, "vpc"))

Done(w) == Len(exec[w].got)
ServiceAt(w, i) == Config(w).services[i]

AtFrontend(w) ==
  LET c == exec[w].cluster
  IN
  /\ exec[w].part = "cert" /\ exec[w].at \in {"validation", "record", "wait"} =>
       exec[w].got[1] \in DOMAIN certs
  /\ At(w, "listener", "redirect") => 443 \in listeners[c]
  /\ exec[w].part = "tg" =>
       /\ exec[w].got \in Seq(Nat) /\ Done(w) < Len(Config(w).services)
       /\ \A i \in 1 .. Done(w) : HasGroup(c, ServiceAt(w, i))
  /\ At(w, "tg", "update") => HasGroup(c, ServiceAt(w, Done(w) + 1))
  /\ At(w, "rule", "start") =>
       /\ exec[w].got \in Seq(Nat) /\ Done(w) < Len(Config(w).services)
       /\ Done(w) > 0 /\ Config(w).frontend => default[c] # "404"
       /\ ~Config(w).frontend => \A i \in 1 .. Done(w) : HasRule(c, ServiceAt(w, i))
  /\ At(w, "rule", "create") =>
       /\ exec[w].got \in Seq(Nat) /\ Done(w) \in 1 .. Len(Config(w).services)
       /\ ~Config(w).frontend
       /\ \A i \in 1 .. Done(w) - 1 : HasRule(c, ServiceAt(w, i))

(* The pairs of a server and a service are gone through server by server.  *)
Nth(w, i, j) == (j - 1) * Nodes + i
NodesOf(w) == exec[w].args["node"]

AtServers(w) ==
  /\ exec[w].part = "node" => exec[w].got \in Seq(DOMAIN servers) /\ Done(w) < Nodes
  /\ At(w, "cleanup", "start") =>
       exec[w].got \in Seq(SUBSET DOMAIN servers) /\ Done(w) < Nodes
  /\ At(w, "cleanup", "delete") =>
       exec[w].got \in Seq(SUBSET DOMAIN servers) /\ Done(w) \in 1 .. Nodes
  /\ exec[w].part = "target" =>
       /\ exec[w].got \in Seq(Nat)
       /\ Done(w) < Nodes * Len(Config(w).services)
       /\ \A i \in 1 .. Nodes, j \in DOMAIN Config(w).services :
            Nth(w, i, j) <= Done(w) => <<ServiceAt(w, j), NodesOf(w)[i]>> \in targets

Working(w) ==
  LET e == exec[w]
  IN  /\ e.part \in slice.parts /\ e.cluster \in Clusters
      /\ e.run \in 1 .. Len(runs[e.cluster])
      /\ DOMAIN e.args = Needs[e.part]
      /\ \A p \in Needs[e.part] : Promise(p, e.args[p])

-----------------------------------------------------------------------------
(* The types of the account, and the invariant.                            *)

NetworkTypes ==
  /\ vpcs \in Nat /\ named \subseteq 1 .. vpcs
  /\ subnets \subseteq (1 .. vpcs) \X Zones
  /\ igs \in Seq(0 .. vpcs)
  /\ routes \subseteq (1 .. vpcs) \X AllDests \X DOMAIN igs
  /\ \A i, j \in DOMAIN igs : igs[i] = igs[j] /\ igs[i] # 0 => i = j
  /\ groups \subseteq 1 .. vpcs
  /\ open \subseteq groups \X (Access \cup {Foreign})

FrontendTypes ==
  /\ certs \in Seq({"pending", "issued", "timed out"}) /\ record \in BOOLEAN
  /\ lbs \in [Clusters -> 0 .. vpcs]
  /\ listeners \in [Clusters -> SUBSET {80, 443}]
  /\ rules \in [Clusters -> Seq(Services)]
  /\ default \in [Clusters -> Services \cup {"404"}]
  /\ tgs \in [Clusters -> [Services -> Paths \cup {None}]]

Server == [cluster : Clusters, node : 1 .. Nodes, size : Sizes, state : States]

ServerTypes ==
  servers \in Seq(Server) /\ targets \subseteq Services \X DOMAIN servers

EngineTypes ==
  slice \in Slices /\ runs \in [Clusters -> Seq(slice.configs)] /\ faults \in Nat

Reported ==
  \A c \in Clusters, p \in Parts : \A r \in results[c][p] :
    /\ Promise(p, r)
    /\ p \in slice.parts => runs[c] # <<>> /\ RunPromise(c, p, r, Current(c))

Made == \A p \in slice.done : Promise(p, << 1 >>)

Place(w) == AtNetwork(w) /\ AtFrontend(w) /\ AtServers(w)

Known == \A w \in Workers : exec[w] # Idle => Working(w) /\ Place(w)

Types == EngineTypes /\ NetworkTypes /\ FrontendTypes /\ ServerTypes

JInv == Types /\ Reported /\ Made /\ Known

-----------------------------------------------------------------------------
(* Nothing that was made goes again, as far as the results tell: whoever   *)
(* else works, what is known stays known.                                  *)

NetworkGrows ==
  /\ vpcs <= vpcs' /\ subnets \subseteq subnets' /\ routes \subseteq routes'
  /\ Len(igs) <= Len(igs')
  /\ \A i \in DOMAIN igs : igs[i] # 0 => igs'[i] = igs[i]
  /\ groups \subseteq groups' /\ open \subseteq open'
  /\ \A v : <<v, Foreign>> \in open' => <<v, Foreign>> \in open

FrontendGrows ==
  /\ Len(certs) <= Len(certs')
  /\ \A c \in Clusters :
       /\ listeners[c] \subseteq listeners'[c]
       /\ default[c] # "404" => default'[c] # "404"
       /\ \A s \in Services :
            (HasGroup(c, s) => HasGroup(c, s)') /\ (HasRule(c, s) => HasRule(c, s)')

ServersGrow == Len(servers) <= Len(servers') /\ targets \subseteq targets'

RunsGrow ==
  /\ slice' = slice
  /\ \A c \in Clusters :
       /\ Len(runs[c]) <= Len(runs'[c])
       /\ \A i \in 1 .. Len(runs[c]) : runs'[c][i] = runs[c][i]

Grows == NetworkGrows /\ FrontendGrows /\ ServersGrow /\ slice' = slice

LEMMA SubnetsKept ==
  ASSUME Grows, NEW v
  PROVE  Zones' = Zones /\ SubnetsOf(v) \subseteq SubnetsOf(v)' /\ SubnetsOf(v)' \subseteq Zones
  BY DEF Grows, NetworkGrows, Zones, SubnetsOf

LEMMA OpenKept ==
  ASSUME Grows, NEW v
  PROVE  /\ OpenIn(v) \subseteq OpenIn(v)'
         /\ Foreign \in OpenIn(v)' => Foreign \in OpenIn(v)
         /\ Foreign \notin Access
         /\ OpenIn(v)' \subseteq Access \cup {Foreign}
  BY SMTT(30) DEF Grows, NetworkGrows, OpenIn, Access, Foreign

LEMMA SeqDomain ==
  ASSUME NEW S, NEW s \in Seq(S)
  PROVE  DOMAIN s = 1 .. Len(s) /\ Len(s) \in Nat /\ \A i \in 1 .. Len(s) : s[i] \in S
  OBVIOUS

LEMMA Longer ==
  ASSUME NEW S, NEW s \in Seq(S), NEW e \in S
  PROVE  /\ Append(s, e) \in Seq(S) /\ Len(Append(s, e)) = Len(s) + 1
         /\ \A i \in 1 .. Len(s) : Append(s, e)[i] = s[i]
         /\ Append(s, e)[Len(s) + 1] = e
  OBVIOUS

LEMMA Replaced ==
  ASSUME NEW S, NEW s \in Seq(S), NEW j \in DOMAIN s, NEW e \in S
  PROVE  [s EXCEPT ![j] = e] \in Seq(S) /\ Len([s EXCEPT ![j] = e]) = Len(s)
<1>1. DOMAIN s = 1 .. Len(s) /\ Len(s) \in Nat
  OBVIOUS
<1>2. [s EXCEPT ![j] = e] \in [1 .. Len(s) -> S]
  OBVIOUS
<1>. QED BY <1>1, <1>2

LEMMA Domains ==
  ASSUME Types, Types', Grows
  PROVE  /\ DOMAIN igs = 1 .. Len(igs) /\ Len(igs) \in Nat
         /\ DOMAIN certs = 1 .. Len(certs) /\ Len(certs) \in Nat
         /\ DOMAIN servers = 1 .. Len(servers) /\ Len(servers) \in Nat
         /\ DOMAIN igs \subseteq DOMAIN igs' /\ DOMAIN certs \subseteq DOMAIN certs'
         /\ DOMAIN servers \subseteq DOMAIN servers'
         /\ 1 .. vpcs \subseteq 1 .. vpcs'
<1>1. /\ DOMAIN igs = 1 .. Len(igs) /\ Len(igs) \in Nat
      /\ DOMAIN certs = 1 .. Len(certs) /\ Len(certs) \in Nat
      /\ DOMAIN servers = 1 .. Len(servers) /\ Len(servers) \in Nat
  BY SeqDomain, ZenonT(30) DEF Types, NetworkTypes, FrontendTypes, ServerTypes
<1>2. /\ DOMAIN igs' = 1 .. Len(igs') /\ Len(igs') \in Nat
      /\ DOMAIN certs' = 1 .. Len(certs') /\ Len(certs') \in Nat
      /\ DOMAIN servers' = 1 .. Len(servers') /\ Len(servers') \in Nat
  BY SeqDomain, ZenonT(30) DEF Types, NetworkTypes, FrontendTypes, ServerTypes
<1>3. vpcs \in Nat /\ vpcs' \in Nat
  BY DEF Types, NetworkTypes
<1>. QED
  BY <1>1, <1>2, <1>3 DEF Grows, NetworkGrows, FrontendGrows, ServersGrow

LEMMA PromiseKept ==
  ASSUME Types, Types', Grows, NEW p, NEW r, Promise(p, r)
  PROVE  Promise(p, r)'
<1>1. p \in {"vpc", "sn", "lbsg"} => r[1] \in 1 .. vpcs'
  BY Domains DEF Promise
<1>2. p = "sn" => SubnetsOf(r[1])' = Zones'
  BY SubnetsKept DEF Promise
<1>3. p = "lbsg" => r[1] \in groups' /\ OpenIn(r[1])' = Access
  <2>1. p = "lbsg" => r[1] \in groups'
    BY DEF Promise, Grows, NetworkGrows
  <2>2. p = "lbsg" => OpenIn(r[1])' = Access
    BY OpenKept DEF Promise
  <2>. QED BY <2>1, <2>2
<1>4. p = "ig" => r[1] \in DOMAIN igs' /\ igs'[r[1]] # 0 /\ Routed(r[1], AllDests)'
  BY Domains DEF Promise, Grows, NetworkGrows, Routed, AllDests
<1>5. p = "cert" => r[1] \in DOMAIN certs'
  BY Domains DEF Promise
<1>6. p = "node" => r \in Seq(DOMAIN servers') /\ Len(r) = Nodes
  BY SMTT(30), Domains DEF Promise
<1>. QED
  BY <1>1, <1>2, <1>3, <1>4, <1>5, <1>6 DEF Promise, Access

(* What the runs are configured to be. *)
LEMMA ConfigFacts ==
  ASSUME Types, NEW c \in Clusters, NEW i \in 1 .. Len(runs[c])
  PROVE  /\ runs[c][i] \in Configs
         /\ runs[c][i].services \in Seq(Services) /\ Len(runs[c][i].services) \in Nat \ {0}
         /\ runs[c][i].size \in Sizes /\ runs[c][i].path \in Paths
  BY ProvisioningAssumption DEF Types, EngineTypes, SliceOk, Configs

LEMMA RunPromiseKept ==
  ASSUME Types, Grows, NEW c \in Clusters, NEW p, NEW r, NEW g \in Configs,
         RunPromise(c, p, r, g)
  PROVE  RunPromise(c, p, r, g)'
<1>1. \A i \in DOMAIN g.services : g.services[i] \in Services
  BY DEF Configs
<1>. QED
  BY SMTT(30), <1>1 DEF RunPromise, Grows, FrontendGrows, ServersGrow, HasGroup, HasRule

LEMMA ConfigKept ==
  ASSUME Types, RunsGrow, NEW w \in Workers, Working(w),
         exec'[w].cluster = exec[w].cluster, exec'[w].run = exec[w].run
  PROVE  /\ Config(w)' = Config(w) /\ Config(w) \in Configs
         /\ Config(w).services \in Seq(Services) /\ Len(Config(w).services) \in Nat \ {0}
         /\ Config(w).size \in Sizes /\ Config(w).path \in Paths
         /\ exec[w].run \in 1 .. Len(runs'[exec[w].cluster])
<1>1. exec[w].cluster \in Clusters /\ exec[w].run \in 1 .. Len(runs[exec[w].cluster])
  BY DEF Working
<1>2. Len(runs[exec[w].cluster]) \in Nat /\ Len(runs[exec[w].cluster]) <= Len(runs'[exec[w].cluster])
  BY <1>1 DEF RunsGrow, Types, EngineTypes
<1>3. exec[w].run \in 1 .. Len(runs'[exec[w].cluster])
  BY <1>1, <1>2
<1>4. Config(w) = runs[exec[w].cluster][exec[w].run]
  BY DEF Config
<1>5. Config(w)' = Config(w)
  BY <1>1 DEF Config, RunsGrow
<1>6. /\ Config(w) \in Configs
      /\ Config(w).services \in Seq(Services) /\ Len(Config(w).services) \in Nat \ {0}
      /\ Config(w).size \in Sizes /\ Config(w).path \in Paths
  BY <1>1, <1>4, ConfigFacts
<1>. QED
  BY <1>3, <1>5, <1>6

LEMMA WorkingKept ==
  ASSUME Types, Types', Grows, RunsGrow, NEW w \in Workers, Working(w),
         exec'[w].cluster = exec[w].cluster, exec'[w].run = exec[w].run,
         exec'[w].part = exec[w].part, exec'[w].args = exec[w].args
  PROVE  Working(w)'
<1>1. exec[w].run \in 1 .. Len(runs'[exec[w].cluster])
  BY ConfigKept
<1>2. \A p \in Needs[exec[w].part] : Promise(p, exec[w].args[p])'
  BY PromiseKept DEF Working
<1>. QED
  BY <1>1, <1>2 DEF Working, RunsGrow

LEMMA AtNetworkKept ==
  ASSUME IInv, Types, Types', Grows, NEW w \in Workers, exec'[w] = exec[w], AtNetwork(w)
  PROVE  AtNetwork(w)'
<1>. PICK e : e = exec[w]
  OBVIOUS
<1>. PICK v : v = e.args["vpc"][1]
  OBVIOUS
<1>0. exec[w] = e /\ exec'[w] = e /\ Arg(w, "vpc") = v /\ Arg(w, "vpc")' = v
  BY DEF Arg
<1> USE <1>0 DEF At
<1>1. e.part = "vpc" /\ e.at = "modify" => e.got[1] \in 1 .. vpcs'
  BY Domains DEF AtNetwork
<1>2. e.part = "sn" /\ e.at = "create" =>
        e.got \subseteq Zones' /\ Zones' \ e.got \subseteq SubnetsOf(v)'
  BY SubnetsKept DEF AtNetwork
<1>3. e.part = "sn" /\ e.at = "read" => SubnetsOf(v)' = Zones'
  BY SubnetsKept DEF AtNetwork
<1>4. e.part = "ig" /\ e.at = "route" =>
        /\ e.got[2] \subseteq AllDests /\ e.got[2] # {}
        /\ Routed(e.got[1], AllDests \ e.got[2])'
  <2>1. e.part = "ig" /\ e.at = "route" => igs'[e.got[1]] = igs[e.got[1]]
    BY SMTT(30) DEF IInv, GatewaysHeld, Busy, Types, NetworkTypes, Grows, NetworkGrows
  <2>. QED
    BY <2>1 DEF AtNetwork, Routed, Grows, NetworkGrows, AllDests
<1>5. e.part = "lbsg" /\ e.at \in {"rules", "open"} => v \in groups'
  BY DEF AtNetwork, Grows, NetworkGrows
<1>6. e.part = "lbsg" /\ e.at = "open" =>
        /\ e.got \subseteq Access /\ Access \ e.got \subseteq OpenIn(v)'
        /\ Foreign \notin OpenIn(v)'
  BY OpenKept DEF AtNetwork
<1>. QED
  BY <1>1, <1>2, <1>3, <1>4, <1>5, <1>6 DEF AtNetwork, Access, AllDests, SubnetsOf, OpenIn

LEMMA AtFrontendKept ==
  ASSUME Types, Types', Grows, RunsGrow, NEW w \in Workers, exec'[w] = exec[w],
         Working(w), AtFrontend(w)
  PROVE  AtFrontend(w)'
<1> DEFINE c == exec[w].cluster
<1>0. Config(w)' = Config(w) /\ Config(w).services \in Seq(Services) /\ c \in Clusters
  BY ConfigKept DEF Working
<1>1. Done(w)' = Done(w) /\ \A i : ServiceAt(w, i)' = ServiceAt(w, i)
  BY <1>0 DEF Done, ServiceAt
<1>2. \A s \in Services :
        (HasGroup(c, s) => HasGroup(c, s)') /\ (HasRule(c, s) => HasRule(c, s)')
  BY <1>0 DEF Grows, FrontendGrows
<1>3. \A i \in 1 .. Len(Config(w).services) : ServiceAt(w, i) \in Services
  BY <1>0 DEF ServiceAt
<1>4. exec[w].part = "cert" /\ exec[w].at \in {"validation", "record", "wait"} =>
        exec[w].got[1] \in DOMAIN certs'
  BY Domains DEF AtFrontend
<1>5. exec[w].part = "listener" /\ exec[w].at = "redirect" => 443 \in listeners'[c]
  BY <1>0 DEF AtFrontend, At, Grows, FrontendGrows
<1>6. /\ exec[w].got \in Seq(Nat) => Done(w) \in Nat
      /\ Len(Config(w).services) \in Nat
  BY <1>0 DEF Done
<1> USE DEF HasGroup, HasRule
<1>7. exec[w].part = "tg" => \A i \in 1 .. Done(w) : HasGroup(c, ServiceAt(w, i))'
  <2>1. exec[w].part = "tg" => \A i \in 1 .. Done(w) : ServiceAt(w, i) \in Services
    BY <1>3, <1>6 DEF AtFrontend
  <2>. QED BY <1>0, <1>1, <1>2, <2>1 DEF AtFrontend
<1>10. exec[w].part = "tg" /\ exec[w].at = "update" => HasGroup(c, ServiceAt(w, Done(w) + 1))'
  <2>1. exec[w].part = "tg" => ServiceAt(w, Done(w) + 1) \in Services
    BY <1>3, <1>6 DEF AtFrontend
  <2>. QED BY <1>0, <1>1, <1>2, <2>1 DEF AtFrontend, At
<1>8. exec[w].part = "rule" /\ exec[w].at = "start" =>
        /\ Done(w) > 0 /\ Config(w).frontend => default'[c] # "404"
        /\ ~Config(w).frontend => \A i \in 1 .. Done(w) : HasRule(c, ServiceAt(w, i))'
  <2>1. At(w, "rule", "start") => \A i \in 1 .. Done(w) : ServiceAt(w, i) \in Services
    BY <1>3, <1>6 DEF AtFrontend
  <2>. QED BY <1>0, <1>1, <1>2, <2>1 DEF AtFrontend, At, Grows, FrontendGrows
<1>9. exec[w].part = "rule" /\ exec[w].at = "create" =>
        \A i \in 1 .. Done(w) - 1 : HasRule(c, ServiceAt(w, i))'
  <2>1. At(w, "rule", "create") =>
          \A i \in 1 .. Done(w) - 1 : ServiceAt(w, i) \in Services
    BY <1>3, <1>6 DEF AtFrontend
  <2>. QED BY <1>0, <1>1, <1>2, <2>1 DEF AtFrontend, At
<1>. QED
  BY <1>0, <1>1, <1>4, <1>5, <1>7, <1>8, <1>9, <1>10 DEF AtFrontend, At

LEMMA AtServersKept ==
  ASSUME Types, Types', Grows, RunsGrow, NEW w \in Workers, exec'[w] = exec[w],
         Working(w), AtServers(w)
  PROVE  AtServers(w)'
<1>0. Config(w)' = Config(w)
  BY ConfigKept
<1>1. Done(w)' = Done(w) /\ NodesOf(w)' = NodesOf(w)
      /\ \A i, j : Nth(w, i, j)' = Nth(w, i, j) /\ ServiceAt(w, j)' = ServiceAt(w, j)
  BY <1>0 DEF Done, NodesOf, Nth, ServiceAt
<1>2. DOMAIN servers \subseteq DOMAIN servers' /\ targets \subseteq targets'
  BY Domains DEF Grows, ServersGrow
<1>3. \A s \in Seq(DOMAIN servers) : s \in Seq(DOMAIN servers')
  BY <1>2
<1>4. \A s \in Seq(SUBSET DOMAIN servers) : s \in Seq(SUBSET DOMAIN servers')
  BY <1>2
<1>. QED
  BY <1>0, <1>1, <1>2, <1>3, <1>4 DEF AtServers, At

-----------------------------------------------------------------------------
(* A step of a worker keeps the invariant when what it does to the account *)
(* is of the types and grows, the worker knows what it should where it     *)
(* goes, and what it returns is promised.                                  *)

Promised(c, p, g, ids) == Promise(p, ids) /\ RunPromise(c, p, ids, g)

LEMMA SameRuns ==
  ASSUME Types, UNCHANGED <<runs, slice>>
  PROVE  RunsGrow
<1>1. \A c \in Clusters : Len(runs[c]) \in Nat
  BY DEF Types, EngineTypes
<1>. QED BY <1>1 DEF RunsGrow

LEMMA OthersKnown ==
  ASSUME IInv, JInv, Types', Grows, RunsGrow, NEW w \in Workers, exec'[w] = exec[w]
  PROVE  exec'[w] # Idle => Working(w)' /\ Place(w)'
  BY WorkingKept, AtNetworkKept, AtFrontendKept, AtServersKept DEF JInv, Known, Place

LEMMA MadeKept ==
  ASSUME JInv, Types', Grows
  PROVE  Made'
  BY PromiseKept DEF JInv, Made, Grows

LEMMA ReportedKept ==
  ASSUME JInv, Types', Grows, NEW c \in Clusters, runs'[c] = runs[c],
         NEW p \in Parts, NEW r \in results[c][p]
  PROVE  /\ Promise(p, r)'
         /\ p \in slice.parts => runs[c] # <<>> /\ RunPromise(c, p, r, Current(c))'
<1>1. Promise(p, r) /\ Types
  BY DEF JInv, Reported
<1>2. Promise(p, r)'
  BY <1>1, PromiseKept
<1>3. ASSUME p \in slice.parts
      PROVE  runs[c] # <<>> /\ RunPromise(c, p, r, Current(c))'
  <2>1. runs[c] # <<>> /\ RunPromise(c, p, r, Current(c))
    BY <1>3 DEF JInv, Reported
  <2>2. Len(runs[c]) \in 1 .. Len(runs[c])
    BY <2>1 DEF JInv, Types, EngineTypes
  <2>3. PICK g : g = Current(c)
    OBVIOUS
  <2>4. g \in Configs /\ Current(c)' = g
    BY <1>1, <2>2, <2>3, ConfigFacts DEF Current
  <2>5. RunPromise(c, p, r, g)'
    BY <1>1, <2>1, <2>3, <2>4, RunPromiseKept
  <2>. QED
    BY <2>1, <2>4, <2>5 DEF RunPromise
<1>. QED BY <1>2, <1>3

LEMMA Carry ==
  ASSUME IInv, JInv, Types', Grows, runs' = runs,
         NEW w \in Workers, exec[w] # Idle, Works(w),
         NEW c, NEW p, NEW g,
         c = exec[w].cluster, p = exec[w].part, g = Config(w),
         exec'[w] = Idle \/ Place(w)',
         results' = results \/ \E ids : Returns(w, ids) /\ Promised(c, p, g, ids)'
  PROVE  JInv'
<1>1. RunsGrow
  BY SameRuns DEF JInv, Grows
<1>2. Working(w)
  BY DEF JInv, Known
<1>3. Known'
  <2>1. ASSUME NEW u \in Workers, exec'[u] # Idle
        PROVE  Working(u)' /\ Place(u)'
    <3>1. CASE u # w
      BY <1>1, <2>1, <3>1, OthersKnown DEF Works
    <3>2. CASE u = w
      <4>1. Working(w)'
        BY <1>1, <1>2, <2>1, <3>2, WorkingKept DEF Works, JInv
      <4>. QED BY <2>1, <3>2, <4>1
    <3>. QED BY <3>1, <3>2
  <2>. QED BY <2>1 DEF Known
<1>4. Reported'
  <2>1. ASSUME NEW d \in Clusters, NEW q \in Parts, NEW r \in results'[d][q]
        PROVE  /\ Promise(q, r)'
               /\ q \in slice'.parts =>
                    runs'[d] # <<>> /\ RunPromise(d, q, r, Current(d))'
    <3>1. CASE r \in results[d][q]
      BY <3>1, ReportedKept DEF Grows
    <3>2. ASSUME NEW ids, Returns(w, ids), Promised(c, p, g, ids)', r \notin results[d][q]
          PROVE  /\ Promise(q, r)'
                 /\ runs'[d] # <<>> /\ RunPromise(d, q, r, Current(d))'
      <4>1. r = ids /\ d = c /\ q = p /\ exec[w].run = Len(runs[d])
        BY <2>1, <3>2 DEF Returns
      <4>2. Current(d)' = g
        BY <4>1 DEF Current, Config
      <4>3. runs[d] # <<>>
        BY <1>2, <4>1 DEF Working, JInv, Types, EngineTypes
      <4>. QED BY <3>2, <4>1, <4>2, <4>3 DEF Promised, Promise, RunPromise
    <3>. QED BY <2>1, <3>1, <3>2
  <2>. QED BY <2>1 DEF Reported
<1>. QED BY <1>3, <1>4, MadeKept DEF JInv

-----------------------------------------------------------------------------
(* The engine.                                                             *)

LEMMA SameGrows ==
  ASSUME Types, UNCHANGED <<account, slice>>
  PROVE  Grows
<1>1. vpcs \in Nat /\ Len(igs) \in Nat
  BY DEF Types, NetworkTypes
<1>2. Len(certs) \in Nat
  BY SeqDomain, Zenon DEF Types, FrontendTypes
<1>3. Len(servers) \in Nat
  BY DEF Types, ServerTypes
<1>. QED
  BY <1>1, <1>2, <1>3 DEF account, networkVars, frontVars, serverVars, Grows, NetworkGrows,
     FrontendGrows, ServersGrow, HasGroup, HasRule

LEMMA SameTypes ==
  ASSUME Types, UNCHANGED account, EngineTypes', slice' = slice
  PROVE  Types'
  BY DEF Types, account, networkVars, frontVars, serverVars, NetworkTypes, FrontendTypes,
     ServerTypes, Zones

LEMMA SliceFacts ==
  ASSUME Types
  PROVE  SliceOk(slice)
  BY ProvisioningAssumption DEF Types, EngineTypes

LEMMA ProvisionRuns ==
  ASSUME JInv, NEW c \in Clusters, Provision(c)
  PROVE  RunsGrow
<1>1. PICK g : runs' = [runs EXCEPT ![c] = Append(@, g)]
  BY DEF Provision
<1>2. slice' = slice /\ runs \in [Clusters -> Seq(slice.configs)]
  BY DEF Provision, JInv, Types, EngineTypes
<1>3. /\ \A d \in Clusters \ {c} : runs'[d] = runs[d]
      /\ runs'[c] = Append(runs[c], g)
  BY <1>1, <1>2
<1>4. /\ Len(Append(runs[c], g)) = Len(runs[c]) + 1 /\ Len(runs[c]) \in Nat
      /\ \A i \in 1 .. Len(runs[c]) : Append(runs[c], g)[i] = runs[c][i]
  BY <1>2
<1>5. \A d \in Clusters \ {c} : Len(runs[d]) <= Len(runs'[d])
  BY <1>2, <1>3
<1>6. Len(runs[c]) <= Len(runs'[c])
  BY <1>3, <1>4
<1>. QED BY <1>2, <1>3, <1>4, <1>5, <1>6 DEF RunsGrow

LEMMA ProvisionKeepsJ ==
  ASSUME IInv, JInv, NEW c \in Clusters, Provision(c), UNCHANGED account
  PROVE  JInv'
<1>1. PICK g \in slice.configs : runs' = [runs EXCEPT ![c] = Append(@, g)]
  BY DEF Provision
<1>2. /\ slice' = slice /\ exec' = exec /\ faults' = faults
      /\ results' = [results EXCEPT ![c] = Before]
  BY DEF Provision
<1>3. runs \in [Clusters -> Seq(slice.configs)] /\ Types
  BY DEF JInv, Types, EngineTypes
<1>4. /\ runs' \in [Clusters -> Seq(slice.configs)]
      /\ \A d \in Clusters \ {c} : runs'[d] = runs[d]
      /\ runs'[c] = Append(runs[c], g)
  BY <1>1, <1>3
<1>5. Types' /\ Grows
  BY <1>2, <1>3, <1>4, SameTypes, SameGrows DEF Types, EngineTypes
<1>6. RunsGrow
  BY ProvisionRuns
<1>7. Known'
  BY <1>2, <1>5, <1>6, OthersKnown DEF Known
<1>8. Made'
  BY <1>5, MadeKept
<1>9. Reported'
  <2>1. ASSUME NEW d \in Clusters, NEW p \in Parts, NEW r \in results'[d][p]
        PROVE  /\ Promise(p, r)'
               /\ p \in slice'.parts =>
                    runs'[d] # <<>> /\ RunPromise(d, p, r, Current(d))'
    <3>1. CASE d # c
      <4>1. r \in results[d][p] /\ runs'[d] = runs[d]
        BY <1>2, <1>4, <2>1, <3>1 DEF IInv, Forms
      <4>. QED BY <1>2, <1>5, <4>1, ReportedKept
    <3>2. CASE d = c
      <4>1. r \in Before[p]
        BY <1>2, <2>1, <3>2 DEF IInv, Forms
      <4>2. p \in slice.done /\ r = << 1 >>
        BY <4>1 DEF Before
      <4>3. p \notin slice.parts
        BY <1>3, <4>2, SliceFacts DEF SliceOk
      <4>. QED BY <1>2, <1>8, <4>2, <4>3 DEF Made
    <3>. QED BY <3>1, <3>2
  <2>. QED BY <2>1 DEF Reported
<1>. QED BY <1>5, <1>7, <1>8, <1>9 DEF JInv

LEMMA Product ==
  /\ \A a, b \in Nat : a * b \in Nat
  /\ \A a, b \in Nat \ {0} : a * b > 0
  OBVIOUS

LEMMA BeginKeepsJ ==
  ASSUME IInv, JInv, NEW w \in Workers, NEW c \in Clusters, NEW p \in Parts,
         Begin(w, c, p), UNCHANGED account
  PROVE  JInv'
<1>1. PICK args \in [Needs[p] -> UNION {results[c][q] : q \in Needs[p]}] :
        /\ \A q \in Needs[p] : args[q] \in results[c][q]
        /\ exec' = [exec EXCEPT ![w] =
                     [at |-> "start", part |-> p, cluster |-> c,
                      run |-> Len(runs[c]), args |-> args, got |-> <<>>]]
  BY DEF Begin
<1>2. /\ runs[c] # <<>> /\ p \in slice.parts
      /\ slice' = slice /\ runs' = runs /\ results' = results /\ faults' = faults
  BY DEF Begin
<1> DEFINE n == Len(runs[c])
           e == [at |-> "start", part |-> p, cluster |-> c,
                 run |-> n, args |-> args, got |-> <<>>]
<1> HIDE DEF n
<1>3. exec'[w] = e /\ \A u \in Workers \ {w} : exec'[u] = exec[u]
  BY <1>1 DEF IInv, Forms, n
<1>4. /\ e.at = "start" /\ e.part = p /\ e.args = args /\ e.cluster = c
      /\ e.run = n /\ e.got = <<>>
  OBVIOUS
<1> HIDE DEF e
<1>5. Types' /\ Grows
  BY <1>2, SameTypes, SameGrows DEF JInv, Types, EngineTypes
<1>6. RunsGrow
  BY <1>2, SameRuns DEF JInv
<1>7. n \in 1 .. Len(runs'[c]) /\ Config(w)' \in Configs
      /\ Len(Config(w)'.services) \in Nat \ {0}
  <2>1. n \in 1 .. Len(runs[c])
    BY <1>2 DEF JInv, Types, EngineTypes, n
  <2>2. Config(w)' = runs[c][n]
    BY <1>2, <1>3, <1>4 DEF Config
  <2>. QED BY <1>2, <2>1, <2>2, ConfigFacts DEF JInv
<1>8. Working(w)'
  <2>1. \A q \in Needs[p] : q \in Parts
    BY DEF Needs, Parts
  <2>2. \A q \in Needs[p] : Promise(q, args[q])'
    BY <1>1, <1>2, <1>5, <2>1, ReportedKept
  <2>. QED BY <1>1, <1>2, <1>3, <1>4, <1>7, <2>2 DEF Working
<1>9. Place(w)'
  <2>1. AtNetwork(w)'
    BY <1>3, <1>4 DEF AtNetwork, At
  <2>2. <<>> \in Seq(Nat) /\ <<>> \in Seq(SUBSET DOMAIN servers') /\ <<>> \in Seq(DOMAIN servers')
        /\ Len(<<>>) = 0
    OBVIOUS
  <2>3. AtFrontend(w)'
    BY <1>3, <1>4, <1>7, <2>2 DEF AtFrontend, At, Done
  <2>4. Nodes \in Nat \ {0} /\ Nodes * Len(Config(w)'.services) > 0
    BY <1>7, Product, ProvisioningAssumption
  <2>5. ASSUME NEW i \in 1 .. Nodes, NEW j \in Nat \ {0}
        PROVE  ~(Nth(w, i, j)' <= 0)
    <3>1. (j - 1) * Nodes \in Nat
      BY <2>4, Product
    <3>. QED BY <3>1, <2>4 DEF Nth
  <2>6. DOMAIN Config(w)'.services \subseteq Nat \ {0}
    BY <1>7 DEF Configs
  <2>7. AtServers(w)'
    BY <1>3, <1>4, <2>2, <2>4, <2>5, <2>6 DEF AtServers, At, Done
  <2>. QED BY <2>1, <2>3, <2>7 DEF Place
<1>10. Known'
  BY <1>3, <1>5, <1>6, <1>8, <1>9, OthersKnown DEF Known
<1>11. Reported'
  BY <1>2, <1>5, ReportedKept DEF Reported
<1>. QED BY <1>5, <1>10, <1>11, MadeKept DEF JInv

(* What AWS does by itself, and any step that no worker takes.             *)
LEMMA Alone ==
  ASSUME IInv, JInv, Types', Grows, UNCHANGED <<runs, exec, results>>
  PROVE  JInv'
<1>1. RunsGrow
  BY SameRuns DEF JInv, Grows
<1>2. Known'
  BY <1>1, OthersKnown DEF Known
<1>3. Reported'
  BY ReportedKept DEF Reported, Grows
<1>. QED BY <1>2, <1>3, MadeKept DEF JInv

LEMMA Quiet ==
  ASSUME JInv, UNCHANGED <<account, engine>>
  PROVE  Types' /\ Grows /\ runs' = runs /\ vpcs' = vpcs /\ vpcs \in Nat
<1>1. EngineTypes'
  BY DEF JInv, Types, EngineTypes, engine
<1>2. vpcs \in Nat /\ vpcs' = vpcs
  BY DEF JInv, Types, NetworkTypes, account, networkVars
<1>. QED
  BY <1>1, <1>2, SameTypes, SameGrows DEF JInv, engine

LEMMA StopKeepsJ ==
  ASSUME IInv, JInv, NEW w \in Workers, Stop(w), UNCHANGED account
  PROVE  JInv'
<1>1. EngineTypes' /\ UNCHANGED <<slice, runs>> /\ exec[w] # Idle
  BY DEF Stop, JInv, Types, EngineTypes
<1>2. Types' /\ Grows
  BY <1>1, SameTypes, SameGrows DEF JInv
<1>3. Refused(w) /\ vpcs' = vpcs
  BY DEF Stop, Refused, account, networkVars
<1>. QED
  BY <1>1, <1>2, <1>3, RefusedWorks, Carry DEF Refused

(* The three ways a step ends.                                             *)
LEMMA GoKeeps ==
  ASSUME IInv, JInv, Types', Grows, runs' = runs,
         NEW w \in Workers, exec[w].at # "idle",
         NEW at, at # "idle", NEW got, Go(w, at, got), Place(w)'
  PROVE  JInv'
<1>1. vpcs' \in Nat
  BY DEF Types, NetworkTypes
<1>2. Works(w) /\ exec[w] # Idle
  BY <1>1, GoWorks DEF Idle
<1>. QED BY <1>2, Carry DEF Go

LEMMA RefusedKeeps ==
  ASSUME IInv, JInv, Types', Grows, runs' = runs, vpcs' = vpcs,
         NEW w \in Workers, exec[w].at # "idle", Refused(w)
  PROVE  JInv'
<1>1. Works(w) /\ exec[w] # Idle /\ exec'[w] = Idle
  BY RefusedWorks DEF Idle
<1>. QED BY <1>1, Carry DEF Refused

LEMMA FinishKeeps ==
  ASSUME IInv, JInv, Types', Grows, runs' = runs, vpcs' = vpcs,
         NEW w \in Workers, exec[w].at # "idle", NEW ids, Finish(w, ids),
         NEW c, NEW p, NEW g,
         c = exec[w].cluster, p = exec[w].part, g = Config(w), Promised(c, p, g, ids)'
  PROVE  JInv'
<1>1. p = "vpc" => ids[1] \in Nat \ {0}
  BY DEF Promised, Promise, Types, NetworkTypes
<1>2. Works(w) /\ exec[w] # Idle /\ exec'[w] = Idle /\ Returns(w, ids)
  BY <1>1, FinishWorks DEF Idle
<1>. QED BY <1>2, Carry

(* Where a worker is concerns its part only.                               *)
LEMMA Elsewhere3 ==
  ASSUME NEW w \in Workers
  PROVE  /\ exec'[w].part \in {"vpc", "sn", "ig", "lbsg", "key", "sg"} =>
              AtFrontend(w)' /\ AtServers(w)'
         /\ exec'[w].part \in {"cert", "lb", "listener", "tg", "rule"} =>
              AtNetwork(w)' /\ AtServers(w)'
         /\ exec'[w].part \in {"node", "cleanup", "target"} =>
              AtNetwork(w)' /\ AtFrontend(w)'
  BY DEF AtNetwork, AtFrontend, AtServers, At

(* What a worker is that goes on.                                          *)
LEMMA GoFacts ==
  ASSUME IInv, NEW w \in Workers, exec[w].at # "idle", vpcs' \in Nat,
         NEW at, at # "idle", NEW got, Go(w, at, got)
  PROVE  /\ exec'[w].at = at /\ exec'[w].got = got
         /\ exec'[w].part = exec[w].part /\ exec'[w].args = exec[w].args
         /\ exec'[w].cluster = exec[w].cluster /\ exec'[w].run = exec[w].run
<1>1. /\ exec'[w].at = at /\ exec'[w].got = got /\ Works(w)
      /\ exec'[w].part = exec[w].part /\ exec'[w].args = exec[w].args
  BY GoWorks
<1>2. exec'[w] # Idle
  BY <1>1 DEF Idle
<1>. QED BY <1>1, <1>2 DEF Works

LEMMA KnownFacts ==
  ASSUME JInv, NEW w \in Workers, exec[w].at # "idle"
  PROVE  Types /\ Working(w) /\ AtNetwork(w) /\ AtFrontend(w) /\ AtServers(w)
  BY DEF JInv, Known, Place, Idle

(* A step that concerns one of the three parts of the account.             *)
LEMMA ByNetwork ==
  ASSUME Types, UNCHANGED <<engine, frontVars, serverVars>>, NetworkTypes', NetworkGrows
  PROVE  Types' /\ Grows /\ runs' = runs
<1>1. EngineTypes' /\ ServerTypes'
  BY DEF Types, EngineTypes, ServerTypes, engine, serverVars
<1>2. FrontendTypes'
  <2>1. 0 .. vpcs \subseteq 0 .. vpcs'
    BY DEF Types, NetworkTypes, NetworkGrows
  <2>. QED BY <2>1 DEF Types, FrontendTypes, frontVars
<1>3. FrontendGrows
  <2>1. Len(certs) \in Nat
    BY SeqDomain, Zenon DEF Types, FrontendTypes
  <2>. QED BY <2>1 DEF FrontendGrows, frontVars, HasGroup, HasRule
<1>4. ServersGrow
  BY DEF Types, ServerTypes, ServersGrow, serverVars
<1>. QED BY <1>1, <1>2, <1>3, <1>4 DEF Types, Grows, engine

LEMMA ByFrontend ==
  ASSUME Types, UNCHANGED <<engine, networkVars, serverVars>>, FrontendTypes', FrontendGrows
  PROVE  Types' /\ Grows /\ runs' = runs /\ vpcs' = vpcs /\ vpcs \in Nat
<1>1. EngineTypes' /\ ServerTypes'
  BY DEF Types, EngineTypes, ServerTypes, engine, serverVars
<1>2. NetworkTypes' /\ vpcs' = vpcs /\ vpcs \in Nat
  BY DEF Types, NetworkTypes, networkVars, Zones, engine
<1>3. NetworkGrows
  BY DEF Types, NetworkTypes, NetworkGrows, networkVars
<1>4. ServersGrow
  BY DEF Types, ServerTypes, ServersGrow, serverVars
<1>. QED BY <1>1, <1>2, <1>3, <1>4 DEF Types, Grows, engine

LEMMA ByServers ==
  ASSUME Types, UNCHANGED <<engine, networkVars, frontVars>>, ServerTypes', ServersGrow
  PROVE  Types' /\ Grows /\ runs' = runs /\ vpcs' = vpcs /\ vpcs \in Nat
<1>1. EngineTypes'
  BY DEF Types, EngineTypes, engine
<1>2. NetworkTypes' /\ NetworkGrows /\ vpcs' = vpcs /\ vpcs \in Nat
  BY DEF Types, NetworkTypes, NetworkGrows, networkVars, Zones, engine
<1>3. FrontendTypes'
  BY <1>2 DEF Types, FrontendTypes, frontVars
<1>4. FrontendGrows
  <2>1. Len(certs) \in Nat
    BY SeqDomain, Zenon DEF Types, FrontendTypes
  <2>. QED BY <2>1 DEF FrontendGrows, frontVars, HasGroup, HasRule
<1>. QED BY <1>1, <1>2, <1>3, <1>4 DEF Types, Grows, engine

-----------------------------------------------------------------------------
(* The parts of Network.                                                   *)

LEMMA VpcKeepsJ ==
  ASSUME IInv, JInv, NEW w \in Workers, UNCHANGED <<engine, frontVars, serverVars>>,
         VpcLook(w) \/ VpcCreate(w) \/ VpcModify(w) \/ VpcRead(w)
  PROVE  JInv'
<1>0. /\ exec[w].at # "idle" /\ exec[w].part = "vpc" /\ Types /\ vpcs \in Nat
      /\ EngineTypes' /\ UNCHANGED <<slice, runs>>
  BY DEF VpcLook, VpcCreate, VpcModify, VpcRead, At, JInv, Types, NetworkTypes,
     EngineTypes, engine
<1>1. CASE VpcLook(w)
  <2>1. PICK at \in {"read", "create"} : Go(w, at, <<>>)
    BY <1>1 DEF VpcLook
  <2>2. UNCHANGED <<account, engine>>
    BY <1>1 DEF VpcLook, account
  <2>3. AtNetwork(w)'
    BY <1>0, <2>1, <2>2, Quiet, GoFacts DEF AtNetwork, At
  <2>. QED
    BY <1>0, <2>1, <2>2, <2>3, Quiet, GoFacts, GoKeeps, Elsewhere3 DEF Place
<1>2. CASE VpcCreate(w)
  <2>1. /\ vpcs' = vpcs + 1 /\ Go(w, "modify", <<vpcs + 1>>)
        /\ UNCHANGED <<named, subnets, igs, routes, groups, open>>
    BY <1>2 DEF VpcCreate
  <2>2. 1 .. vpcs \subseteq 1 .. vpcs' /\ 0 .. vpcs \subseteq 0 .. vpcs' /\ vpcs' \in Nat
        /\ Zones' = Zones /\ <<vpcs + 1>>[1] \in 1 .. vpcs'
    BY <1>0, <2>1 DEF Zones
  <2>3. NetworkTypes'
    BY <1>0, <2>1, <2>2 DEF Types, NetworkTypes
  <2>4. NetworkGrows
    BY <1>0, <2>1 DEF NetworkGrows, Types, NetworkTypes
  <2>5. AtNetwork(w)'
    BY <1>0, <2>1, <2>2, GoFacts DEF AtNetwork, At
  <2>. QED
    BY <1>0, <2>1, <2>2, <2>3, <2>4, <2>5, ByNetwork, GoFacts, GoKeeps, Elsewhere3
    DEF Place
<1>3. CASE VpcModify(w)
  <2>1. /\ named' = named \cup {exec[w].got[1]} /\ Go(w, "read", <<>>)
        /\ UNCHANGED <<vpcs, subnets, igs, routes, groups, open>>
    BY <1>3 DEF VpcModify
  <2>2. exec[w].got[1] \in 1 .. vpcs
    BY <1>0, <1>3, KnownFacts DEF VpcModify, AtNetwork
  <2>3. NetworkTypes'
    BY <1>0, <2>1, <2>2 DEF Types, NetworkTypes, Zones
  <2>4. NetworkGrows
    BY <1>0, <2>1 DEF NetworkGrows, Types, NetworkTypes
  <2>5. AtNetwork(w)'
    BY <1>0, <2>1, GoFacts DEF AtNetwork, At
  <2>. QED
    BY <1>0, <2>1, <2>3, <2>4, <2>5, ByNetwork, GoFacts, GoKeeps, Elsewhere3
    DEF Place
<1>4. CASE VpcRead(w)
  <2>1. PICK v \in 1 .. vpcs : Finish(w, <<v>>)
    BY <1>4 DEF VpcRead
  <2>2. UNCHANGED <<account, engine>>
    BY <1>4 DEF VpcRead, account
  <2>3. PICK c, g : c = exec[w].cluster /\ g = Config(w)
    OBVIOUS
  <2>4. Promised(c, "vpc", g, <<v>>)'
    BY <2>1, <2>2, Quiet DEF Promised, Promise, RunPromise
  <2>. QED
    BY <1>0, <2>1, <2>2, <2>3, <2>4, Quiet, FinishKeeps
<1>. QED BY <1>1, <1>2, <1>3, <1>4

LEMMA VpcArg ==
  ASSUME JInv, NEW w \in Workers, exec[w].at # "idle",
         exec[w].part \in {"sn", "ig", "lbsg", "tg", "sg"}
  PROVE  Arg(w, "vpc") \in 1 .. vpcs
<1>1. "vpc" \in Needs[exec[w].part]
  BY DEF Needs
<1>. QED BY <1>1, KnownFacts DEF Working, Promise, Arg

LEMMA SubnetKeepsJ ==
  ASSUME IInv, JInv, NEW w \in Workers, UNCHANGED <<engine, frontVars, serverVars>>,
         SubnetLook(w) \/ SubnetCreate(w) \/ SubnetRead(w)
  PROVE  JInv'
<1>. PICK v : v = Arg(w, "vpc")
  OBVIOUS
<1>0. /\ exec[w].at # "idle" /\ exec[w].part = "sn" /\ Types /\ vpcs \in Nat
      /\ UNCHANGED <<slice, runs>> /\ Zones' = Zones /\ SubnetsOf(v) \subseteq Zones
  BY DEF SubnetLook, SubnetCreate, SubnetRead, At, JInv, Types, NetworkTypes, engine, Zones,
     SubnetsOf
<1>1. v \in 1 .. vpcs
  BY <1>0, VpcArg
<1>2. ASSUME NEW at, NEW got, at # "idle", vpcs' \in Nat, Go(w, at, got),
             \/ at = "read" /\ SubnetsOf(v)' = Zones
             \/ at = "create" /\ got \subseteq Zones /\ Zones \ got \subseteq SubnetsOf(v)'
      PROVE  Place(w)'
  <2>1. Arg(w, "vpc")' = v /\ exec'[w].at = at /\ exec'[w].got = got /\ exec'[w].part = "sn"
    BY <1>0, <1>2, GoFacts DEF Arg
  <2>2. AtNetwork(w)'
    BY <1>0, <1>2, <2>1 DEF AtNetwork, At, SubnetsOf
  <2>. QED BY <2>1, <2>2, Elsewhere3 DEF Place
<1>3. CASE SubnetLook(w)
  <2>1. UNCHANGED <<account, engine>> /\ SubnetsOf(v)' = SubnetsOf(v)
    BY <1>0, <1>3 DEF SubnetLook, account, networkVars, SubnetsOf
  <2>2. \/ Zones \ SubnetsOf(v) = {} /\ Go(w, "read", <<>>)
        \/ Go(w, "create", Zones \ SubnetsOf(v))
    BY <1>3 DEF SubnetLook
  <2>3. CASE Zones \ SubnetsOf(v) = {} /\ Go(w, "read", <<>>)
    <3>1. SubnetsOf(v)' = Zones
      BY <1>0, <2>1, <2>3
    <3>. QED BY <1>0, <1>2, <2>1, <2>3, <3>1, Quiet, GoKeeps
  <2>4. CASE Go(w, "create", Zones \ SubnetsOf(v))
    <3>1. Zones \ SubnetsOf(v) \subseteq Zones
          /\ Zones \ (Zones \ SubnetsOf(v)) \subseteq SubnetsOf(v)'
      BY <2>1
    <3>. QED BY <1>0, <1>2, <2>1, <2>4, <3>1, Quiet, GoKeeps
  <2>. QED BY <2>2, <2>3, <2>4
<1>4. CASE SubnetCreate(w)
  <2>1. /\ exec[w].got \subseteq Zones /\ Zones \ exec[w].got \subseteq SubnetsOf(v)
    BY <1>0, <1>4, KnownFacts DEF SubnetCreate, AtNetwork
  <2>2. UNCHANGED <<vpcs, named, igs, routes, groups, open>>
    BY <1>4 DEF SubnetCreate
  <2>3. CASE Refused(w) /\ UNCHANGED subnets
    <3>1. UNCHANGED <<account, engine>>
      BY <1>4, <2>3 DEF SubnetCreate, account, networkVars
    <3>. QED BY <1>0, <2>3, <3>1, Quiet, RefusedKeeps
  <2>4. ASSUME NEW z \in exec[w].got, subnets' = subnets \cup {<<v, z>>},
               IF exec[w].got \ {z} = {} THEN Go(w, "read", <<>>)
               ELSE Go(w, "create", exec[w].got \ {z})
        PROVE  JInv'
    <3>1. NetworkTypes'
      BY <1>0, <1>1, <2>1, <2>2, <2>4 DEF Types, NetworkTypes
    <3>2. NetworkGrows
      BY <1>0, <2>2, <2>4 DEF Types, NetworkTypes, NetworkGrows
    <3>3. SubnetsOf(v)' = SubnetsOf(v) \cup {z}
      BY <1>0, <2>1, <2>4 DEF SubnetsOf
    <3>4. Place(w)'
      BY <1>0, <1>2, <2>1, <2>2, <2>4, <3>3
    <3>. QED
      BY <1>0, <2>4, <3>1, <3>2, <3>4, ByNetwork, GoKeeps
  <2>. QED BY <1>4, <2>3, <2>4 DEF SubnetCreate, FirstZone
<1>5. CASE SubnetRead(w)
  <2>1. UNCHANGED <<account, engine>> /\ Finish(w, <<v>>) /\ <<v>>[1] = v
    BY <1>5 DEF SubnetRead, account
  <2>2. SubnetsOf(v) = Zones /\ SubnetsOf(v)' = SubnetsOf(v)
    BY <1>0, <1>5, <2>1, KnownFacts DEF SubnetRead, AtNetwork, account, networkVars, SubnetsOf
  <2>3. PICK c, g : c = exec[w].cluster /\ g = Config(w)
    OBVIOUS
  <2>4. Promised(c, "sn", g, <<v>>)'
    BY <1>0, <1>1, <2>1, <2>2, Quiet DEF Promised, Promise, RunPromise, SubnetsOf
  <2>. QED
    BY <1>0, <2>1, <2>3, <2>4, Quiet, FinishKeeps
<1>. QED BY <1>3, <1>4, <1>5

LEMMA GroupKeepsJ ==
  ASSUME IInv, JInv, NEW w \in Workers, UNCHANGED <<engine, frontVars, serverVars>>,
         GroupLook(w) \/ GroupCreate(w) \/ GroupRules(w) \/ GroupOpen(w)
  PROVE  JInv'
<1>. PICK v : v = Arg(w, "vpc")
  OBVIOUS
<1>. PICK c, g : c = exec[w].cluster /\ g = Config(w)
  OBVIOUS
<1>0. /\ exec[w].at # "idle" /\ exec[w].part = "lbsg" /\ Types /\ vpcs \in Nat
      /\ UNCHANGED <<slice, runs>> /\ Zones' = Zones /\ <<v>>[1] = v
      /\ OpenIn(v) \subseteq Access \cup {Foreign}
  BY DEF GroupLook, GroupCreate, GroupRules, GroupOpen, At, JInv, Types, NetworkTypes,
     engine, Zones, OpenIn
<1>1. v \in 1 .. vpcs
  BY <1>0, VpcArg
<1>2. ASSUME NEW at, NEW got, at # "idle", vpcs' \in Nat, Go(w, at, got),
             at \in {"rules", "open"} => v \in groups',
             at = "open" => /\ got \subseteq Access /\ Access \ got \subseteq OpenIn(v)'
                            /\ Foreign \notin OpenIn(v)'
      PROVE  Place(w)'
  <2>1. Arg(w, "vpc")' = v /\ exec'[w].at = at /\ exec'[w].got = got /\ exec'[w].part = "lbsg"
    BY <1>0, <1>2, GoFacts DEF Arg
  <2>2. AtNetwork(w)'
    BY <1>0, <1>2, <2>1 DEF AtNetwork, At, OpenIn, Access
  <2>. QED BY <2>1, <2>2, Elsewhere3 DEF Place
<1>3. CASE GroupLook(w)
  <2>1. UNCHANGED <<account, engine>> /\ groups' = groups
    BY <1>3 DEF GroupLook, account, networkVars
  <2>2. \/ v \in groups /\ Go(w, "rules", <<>>)
        \/ Go(w, "create", <<>>)
    BY <1>3 DEF GroupLook
  <2>. QED BY <1>0, <1>2, <2>1, <2>2, Quiet, GoKeeps
<1>4. CASE GroupCreate(w)
  <2>1. UNCHANGED <<vpcs, named, subnets, igs, routes, open, unique>>
    BY <1>4 DEF GroupCreate
  <2>2. CASE Refused(w) /\ UNCHANGED groups
    <3>1. UNCHANGED <<account, engine>>
      BY <2>1, <2>2 DEF account, networkVars
    <3>. QED BY <1>0, <2>2, <3>1, Quiet, RefusedKeeps
  <2>3. CASE groups' = groups \cup {v} /\ Go(w, "rules", <<>>)
    <3>1. NetworkTypes'
      BY <1>0, <1>1, <2>1, <2>3 DEF Types, NetworkTypes
    <3>2. NetworkGrows
      BY <1>0, <2>1, <2>3 DEF Types, NetworkTypes, NetworkGrows
    <3>. QED
      BY <1>0, <1>2, <2>1, <2>3, <3>1, <3>2, ByNetwork, GoKeeps
  <2>. QED BY <1>4, <2>2, <2>3 DEF GroupCreate
<1>5. CASE GroupRules(w)
  <2>1. UNCHANGED <<account, engine>> /\ OpenIn(v)' = OpenIn(v) /\ groups' = groups
    BY <1>5 DEF GroupRules, account, networkVars, OpenIn, Access, Foreign
  <2>2. v \in groups
    BY <1>0, <1>5, KnownFacts DEF GroupRules, AtNetwork, At
  <2>3. \/ Refused(w)
        \/ Foreign \notin OpenIn(v) /\ Access \ OpenIn(v) = {} /\ Finish(w, <<v>>)
        \/ Foreign \notin OpenIn(v) /\ Go(w, "open", Access \ OpenIn(v))
    BY <1>5 DEF GroupRules
  <2>4. CASE Refused(w)
    BY <1>0, <2>1, <2>4, Quiet, RefusedKeeps
  <2>5. CASE Foreign \notin OpenIn(v) /\ Access \ OpenIn(v) = {} /\ Finish(w, <<v>>)
    <3>1. OpenIn(v)' = Access
      BY <1>0, <2>1, <2>5
    <3>2. Promised(c, "lbsg", g, <<v>>)'
      BY <1>0, <1>1, <2>1, <2>2, <3>1, Quiet
      DEF Promised, Promise, RunPromise, OpenIn, Access
    <3>. QED BY <1>0, <2>1, <2>5, <3>2, Quiet, FinishKeeps
  <2>6. CASE Foreign \notin OpenIn(v) /\ Go(w, "open", Access \ OpenIn(v))
    BY <1>0, <1>2, <2>1, <2>2, <2>6, Quiet, GoKeeps
  <2>. QED BY <2>3, <2>4, <2>5, <2>6
<1>6. CASE GroupOpen(w)
  <2>1. /\ v \in groups /\ exec[w].got \subseteq Access
        /\ Access \ exec[w].got \subseteq OpenIn(v) /\ Foreign \notin OpenIn(v)
    BY <1>0, <1>6, KnownFacts DEF GroupOpen, AtNetwork, At
  <2>2. UNCHANGED <<vpcs, named, subnets, igs, routes, groups, unique>>
    BY <1>6 DEF GroupOpen
  <2>3. CASE Refused(w) /\ UNCHANGED open
    <3>1. UNCHANGED <<account, engine>>
      BY <2>2, <2>3 DEF account, networkVars
    <3>. QED BY <1>0, <2>3, <3>1, Quiet, RefusedKeeps
  <2>4. CASE open' = open \cup ({v} \X exec[w].got) /\ Finish(w, <<v>>)
    <3>0. Foreign \notin Access
      BY DEF Foreign, Access
    <3>1. NetworkTypes'
      BY <1>0, <2>1, <2>2, <2>4 DEF Types, NetworkTypes
    <3>2. NetworkGrows
      BY <1>0, <2>1, <2>2, <2>4, <3>0 DEF Types, NetworkTypes, NetworkGrows
    <3>3. OpenIn(v)' = Access
      <4>1. OpenIn(v)' = {p \in Access \cup {Foreign} : <<v, p>> \in open'}
        BY DEF OpenIn, Access, Foreign
      <4>. QED BY <2>1, <2>4, <3>0, <4>1 DEF OpenIn
    <3>4. Promised(c, "lbsg", g, <<v>>)'
      BY <1>0, <1>1, <2>1, <2>2, <3>3 DEF Promised, Promise, RunPromise, OpenIn, Access
    <3>. QED BY <1>0, <2>2, <2>4, <3>1, <3>2, <3>4, ByNetwork, FinishKeeps
  <2>. QED BY <1>6, <2>3, <2>4 DEF GroupOpen
<1>. QED BY <1>3, <1>4, <1>5, <1>6

LEMMA UniqueKeepsJ ==
  ASSUME IInv, JInv, NEW w \in Workers, UNCHANGED <<engine, frontVars, serverVars>>,
         UniqueLook(w) \/ UniqueCreate(w)
  PROVE  JInv'
<1>. PICK c, p, g : c = exec[w].cluster /\ p = exec[w].part /\ g = Config(w)
  OBVIOUS
<1>0. /\ exec[w].at # "idle" /\ p \in {"key", "sg"} /\ Types /\ vpcs \in Nat
      /\ UNCHANGED <<slice, runs, vpcs, named, subnets, igs, routes, groups, open>>
  BY DEF UniqueLook, UniqueCreate, At, JInv, Types, NetworkTypes, engine, networkVars
<1>1. NetworkTypes' /\ NetworkGrows
  BY <1>0 DEF Types, NetworkTypes, NetworkGrows, Zones
<1>2. ASSUME Go(w, "create", <<>>) PROVE JInv'
  <2>1. exec'[w].at = "create" /\ exec'[w].part = p
    BY <1>0, <1>2, GoFacts
  <2>2. AtNetwork(w)'
    BY <1>0, <2>1 DEF AtNetwork, At
  <2>. QED
    BY <1>0, <1>1, <1>2, <2>1, <2>2, ByNetwork, GoKeeps, Elsewhere3 DEF Place
<1>3. ASSUME Finish(w, << 1 >>) PROVE JInv'
  <2>1. Promised(c, p, g, << 1 >>)'
    BY <1>0 DEF Promised, Promise, RunPromise
  <2>. QED BY <1>0, <1>1, <1>3, <2>1, ByNetwork, FinishKeeps
<1>4. ASSUME Refused(w) PROVE JInv'
  BY <1>0, <1>1, <1>4, ByNetwork, RefusedKeeps
<1>. QED
  BY <1>2, <1>3, <1>4 DEF UniqueLook, UniqueCreate

(* What a worker at ig knows beyond what RoutesLeadOut rests on: which     *)
(* destinations of its VPC have their route.                               *)
LEMMA GatewayKeepsJ ==
  ASSUME IInv, JInv, NEW w \in Workers, UNCHANGED <<engine, frontVars, serverVars>>,
         \/ GatewayLook(w) \/ GatewayCreate(w) \/ GatewayAttach(w)
         \/ TableRead(w) \/ RouteCreate(w)
  PROVE  JInv'
<1>. PICK v : v = Arg(w, "vpc")
  OBVIOUS
<1>. PICK i : i = exec[w].got[1]
  OBVIOUS
<1>. PICK c, g : c = exec[w].cluster /\ g = Config(w)
  OBVIOUS
<1>0. /\ exec[w].at # "idle" /\ exec[w].part = "ig" /\ Types /\ vpcs \in Nat /\ vpcs' = vpcs
      /\ UNCHANGED <<slice, runs, named, subnets, groups, open>> /\ Zones' = Zones
      /\ Busy(w) /\ Types
  BY DEF GatewayLook, GatewayCreate, GatewayAttach, TableRead, RouteCreate, At, JInv, Types,
     NetworkTypes, engine, Zones, networkVars, Busy
<1>1. v \in 1 .. vpcs /\ igs \in Seq(0 .. vpcs) /\ routes \subseteq (1 .. vpcs) \X AllDests \X DOMAIN igs
      /\ \A j, k \in DOMAIN igs : igs[j] = igs[k] /\ igs[j] # 0 => j = k
  BY <1>0, VpcArg DEF Types, NetworkTypes
<1>2. ASSUME NEW at, NEW got, at # "idle", Go(w, at, got),
             at = "route" => /\ got[2] \subseteq AllDests /\ got[2] # {}
                             /\ Routed(got[1], AllDests \ got[2])'
      PROVE  Place(w)'
  <2>1. exec'[w].at = at /\ exec'[w].got = got /\ exec'[w].part = "ig"
    BY <1>0, <1>2, GoFacts
  <2>2. AtNetwork(w)'
    BY <1>2, <2>1 DEF AtNetwork, At, Routed, AllDests
  <2>. QED BY <2>1, <2>2, Elsewhere3 DEF Place
<1>3. CASE GatewayLook(w)
  <2>1. UNCHANGED <<account, engine>>
    BY <1>3 DEF GatewayLook, account
  <2>2. \/ Go(w, "create", <<>>)
        \/ \E j : Go(w, "table", <<j>>)
    BY <1>3 DEF GatewayLook
  <2>. QED BY <1>0, <1>2, <2>1, <2>2, Quiet, GoKeeps
<1>4. CASE GatewayCreate(w)
  <2>1. igs' = Append(igs, 0) /\ routes' = routes /\ Go(w, "attach", <<Len(igs) + 1>>)
    BY <1>4 DEF GatewayCreate
  <2>2. /\ igs' \in Seq(0 .. vpcs) /\ Len(igs') = Len(igs) + 1 /\ Len(igs) \in Nat
        /\ DOMAIN igs' = 1 .. Len(igs) + 1 /\ DOMAIN igs = 1 .. Len(igs)
        /\ \A j \in DOMAIN igs : igs'[j] = igs[j]
        /\ igs'[Len(igs) + 1] = 0
    BY <1>0, <1>1, <2>1
  <2>3. NetworkTypes'
    <3>1. \A j, k \in DOMAIN igs' : igs'[j] = igs'[k] /\ igs'[j] # 0 => j = k
      BY <1>1, <2>2
    <3>2. routes' \subseteq (1 .. vpcs') \X AllDests \X DOMAIN igs'
      BY <1>0, <1>1, <2>1, <2>2
    <3>. QED BY <1>0, <2>2, <3>1, <3>2 DEF Types, NetworkTypes, AllDests
  <2>4. NetworkGrows
    BY <1>0, <2>1, <2>2 DEF NetworkGrows
  <2>. QED
    BY <1>0, <1>2, <2>1, <2>3, <2>4, ByNetwork, GoKeeps
<1>5. CASE GatewayAttach(w)
  <2>1. /\ exec[w].at = "attach" /\ routes' = routes
        /\ UNCHANGED <<vpcs, named, subnets, routes, groups, open, unique>>
    BY <1>5 DEF GatewayAttach, At
  <2>2. CASE Refused(w) /\ UNCHANGED igs
    <3>1. UNCHANGED <<account, engine>>
      BY <2>1, <2>2 DEF account, networkVars
    <3>. QED BY <1>0, <2>2, <3>1, Quiet, RefusedKeeps
  <2>3. CASE Attached(v) = {} /\ igs' = [igs EXCEPT ![i] = v] /\ Go(w, "table", exec[w].got)
    <3>1. i \in 1 .. Len(igs) /\ igs[i] = 0
      BY <1>0, <2>1 DEF IInv, GatewaysHeld
    <3>2. /\ igs' \in Seq(0 .. vpcs) /\ Len(igs') = Len(igs) /\ DOMAIN igs' = DOMAIN igs
          /\ \A j \in DOMAIN igs : igs'[j] = IF j = i THEN v ELSE igs[j]
      BY <1>0, <1>1, <2>3, <3>1
    <3>3. \A j \in DOMAIN igs : igs[j] # v
      BY <2>3 DEF Attached
    <3>4. NetworkTypes'
      <4>1. \A j, k \in DOMAIN igs' : igs'[j] = igs'[k] /\ igs'[j] # 0 => j = k
        BY <1>1, <3>2, <3>3
      <4>. QED BY <1>0, <1>1, <2>1, <3>2, <4>1 DEF Types, NetworkTypes, AllDests
    <3>5. NetworkGrows
      BY <1>0, <1>1, <2>1, <3>1, <3>2 DEF NetworkGrows
    <3>. QED
      BY <1>0, <1>2, <2>3, <3>4, <3>5, ByNetwork, GoKeeps
  <2>. QED BY <1>5, <2>2, <2>3 DEF GatewayAttach
<1>6. CASE TableRead(w)
  <2>1. /\ exec[w].at = "table" /\ UNCHANGED <<account, engine, igs, routes>>
    BY <1>6 DEF TableRead, At, account, networkVars
  <2>2. i \in DOMAIN igs /\ igs[i] = v /\ v # 0
    BY <1>0, <1>1, <2>1 DEF IInv, GatewaysHeld
  <2>3. ASSUME NEW d \in AllDests, d \notin Unrouted(v)
        PROVE  <<v, d, i>> \in routes
    <3>1. PICK r \in routes : r[1] = v /\ r[2] = d
      BY <2>3 DEF Unrouted, RouteTo, AllDests
    <3>2. r = <<v, d, r[3]>> /\ r[3] \in DOMAIN igs
      BY <1>1, <3>1
    <3>3. igs[r[3]] = v
      BY <3>1 DEF IInv, RoutesReal
    <3>4. r[3] = i
      BY <1>1, <2>2, <3>2, <3>3
    <3>. QED BY <3>1, <3>2, <3>4
  <2>4. CASE Unrouted(v) = {} /\ Finish(w, exec[w].got)
    <3>. PICK got : got = exec[w].got
      OBVIOUS
    <3>1. Promised(c, "ig", g, got)'
      BY <2>1, <2>2, <2>3, <2>4 DEF Promised, Promise, RunPromise, Routed, AllDests
    <3>. QED BY <1>0, <2>1, <2>4, <3>1, Quiet, FinishKeeps
  <2>5. CASE Unrouted(v) # {} /\ Go(w, "route", <<i, Unrouted(v)>>)
    <3>. PICK ds : ds = Unrouted(v)
      OBVIOUS
    <3>1. <<i, ds>>[1] = i /\ <<i, ds>>[2] = ds /\ ds \subseteq AllDests
      BY DEF Unrouted, AllDests
    <3>2. Routed(i, AllDests \ ds)'
      BY <2>1, <2>2, <2>3 DEF Routed, AllDests
    <3>. QED BY <1>0, <1>2, <2>1, <2>5, <3>1, <3>2, Quiet, GoKeeps DEF Routed
  <2>. QED BY <1>6, <2>4, <2>5 DEF TableRead
<1>7. CASE RouteCreate(w)
  <2>. PICK ds : ds = exec[w].got[2]
    OBVIOUS
  <2>. PICK d : d = FirstDest(ds)
    OBVIOUS
  <2>1. /\ exec[w].at = "route" /\ igs' = igs
        /\ UNCHANGED <<vpcs, named, subnets, igs, groups, open, unique>>
    BY <1>7 DEF RouteCreate, At
  <2>2. i \in DOMAIN igs /\ igs[i] = v /\ v # 0
    BY <1>0, <1>1, <2>1 DEF IInv, GatewaysHeld
  <2>3. ds \subseteq AllDests /\ ds # {} /\ Routed(i, AllDests \ ds)
    BY <1>0, <2>1, KnownFacts DEF AtNetwork, At
  <2>4. d \in ds
    BY <2>3 DEF FirstDest, AllDests
  <2>5. CASE Refused(w) /\ UNCHANGED routes
    <3>1. UNCHANGED <<account, engine>>
      BY <2>1, <2>5 DEF account, networkVars
    <3>. QED BY <1>0, <2>5, <3>1, Quiet, RefusedKeeps
  <2>6. CASE /\ routes' = routes \cup {<<v, d, i>>}
             /\ IF ds \ {d} = {} THEN Finish(w, <<i>>) ELSE Go(w, "route", <<i, ds \ {d}>>)
    <3>1. NetworkTypes'
      BY <1>0, <1>1, <2>1, <2>2, <2>3, <2>4, <2>6 DEF Types, NetworkTypes
    <3>2. NetworkGrows
      BY <1>0, <1>1, <2>1, <2>6 DEF NetworkGrows
    <3>3. Routed(i, AllDests \ (ds \ {d}))'
      BY <2>1, <2>2, <2>3, <2>6 DEF Routed, AllDests
    <3>4. CASE ds \ {d} = {} /\ Finish(w, <<i>>)
      <4>1. Routed(i, AllDests)' /\ <<i>>[1] = i
        BY <3>3, <3>4 DEF Routed, AllDests
      <4>2. Promised(c, "ig", g, <<i>>)'
        BY <2>1, <2>2, <4>1 DEF Promised, Promise, RunPromise, Routed, AllDests
      <4>. QED BY <1>0, <3>1, <3>2, <3>4, <4>2, ByNetwork, FinishKeeps
    <3>5. CASE ds \ {d} # {} /\ Go(w, "route", <<i, ds \ {d}>>)
      <4>1. <<i, ds \ {d}>>[1] = i /\ <<i, ds \ {d}>>[2] = ds \ {d} /\ ds \ {d} \subseteq AllDests
        BY <2>3
      <4>. QED BY <1>0, <1>2, <3>1, <3>2, <3>3, <3>5, <4>1, ByNetwork, GoKeeps DEF Routed
    <3>. QED BY <2>6, <3>4, <3>5
  <2>. QED BY <1>7, <2>5, <2>6 DEF RouteCreate
<1>. QED BY <1>3, <1>4, <1>5, <1>6, <1>7

-----------------------------------------------------------------------------
(* The parts of Frontend.                                                  *)

(* What a step of Frontend may leave as it is.                             *)
LEMMA FrontendSame ==
  ASSUME Types
  PROVE  /\ UNCHANGED <<rules, tgs>> =>
              \A c, s : (HasGroup(c, s) => HasGroup(c, s)') /\ (HasRule(c, s) => HasRule(c, s)')
         /\ certs' = certs =>
              /\ Len(certs) <= Len(certs')
              /\ certs' \in Seq({"pending", "issued", "timed out"})
         /\ lbs' = lbs /\ vpcs' = vpcs => lbs' \in [Clusters -> 0 .. vpcs']
<1>1. Len(certs) \in Nat
  BY SeqDomain, Zenon DEF Types, FrontendTypes
<1>2. UNCHANGED <<rules, tgs>> =>
        \A c, s : (HasGroup(c, s) => HasGroup(c, s)') /\ (HasRule(c, s) => HasRule(c, s)')
  BY DEF HasGroup, HasRule
<1>3. certs' = certs =>
        /\ Len(certs) <= Len(certs')
        /\ certs' \in Seq({"pending", "issued", "timed out"})
  <2>1. certs \in Seq({"pending", "issued", "timed out"})
    BY DEF Types, FrontendTypes
  <2>2. Len(certs) <= Len(certs)
    BY <1>1
  <2>. QED BY <2>1, <2>2, Zenon
<1>4. lbs' = lbs /\ vpcs' = vpcs => lbs' \in [Clusters -> 0 .. vpcs']
  BY DEF Types, FrontendTypes
<1>. QED BY <1>2, <1>3, <1>4

LEMMA CertKeepsJ ==
  ASSUME IInv, JInv, NEW w \in Workers, UNCHANGED <<engine, networkVars, serverVars>>,
         \/ CertLook(w) \/ CertLookAgain(w) \/ CertRequest(w) \/ CertValidation(w)
         \/ CertRecord(w) \/ CertWait(w) \/ CertRead(w)
  PROVE  JInv'
<1>. PICK c, g, got : c = exec[w].cluster /\ g = Config(w) /\ got = exec[w].got
  OBVIOUS
<1>0. /\ exec[w].at # "idle" /\ exec[w].part = "cert" /\ Types
      /\ UNCHANGED <<lbs, listeners, rules, default, tgs>> /\ vpcs' = vpcs /\ runs' = runs
  BY DEF CertLook, CertLookAgain, CertRequest, CertValidation, CertRecord, CertWait,
     CertRead, At, JInv, engine, networkVars, frontVars
<1>1. vpcs \in Nat /\ vpcs' \in Nat
  BY <1>0 DEF Types, NetworkTypes
<1>2. /\ DOMAIN certs = 1 .. Len(certs) /\ Len(certs) \in Nat
  BY <1>0, SeqDomain, Zenon DEF Types, FrontendTypes
<1>3. ASSUME certs' = certs, record' \in BOOLEAN
      PROVE  Types' /\ Grows
  <2>1. FrontendTypes'
    BY <1>0, <1>3, FrontendSame, Zenon DEF Types, FrontendTypes
  <2>2. FrontendGrows
    BY <1>0, <1>3, FrontendSame DEF FrontendGrows
  <2>. QED BY <1>0, <2>1, <2>2, ByFrontend
<1>4. ASSUME Types', Grows, NEW at, at # "idle", NEW to, Go(w, at, to),
             at \in {"validation", "record", "wait"} => to[1] \in DOMAIN certs'
      PROVE  JInv'
  <2>1. exec'[w].at = at /\ exec'[w].got = to /\ exec'[w].part = "cert"
    BY <1>0, <1>1, <1>4, GoFacts
  <2>2. AtFrontend(w)'
    BY <1>4, <2>1 DEF AtFrontend, At
  <2>. QED BY <1>0, <1>4, <2>1, <2>2, Elsewhere3, GoKeeps DEF Place
<1>5. ASSUME Types', Grows, NEW i \in DOMAIN certs', Finish(w, <<i>>)
      PROVE  JInv'
  <2>1. Promised(c, "cert", g, <<i>>)'
    BY DEF Promised, Promise, RunPromise
  <2>. QED BY <1>0, <1>5, <2>1, FinishKeeps
<1>6. ASSUME Types', Grows, Refused(w)
      PROVE  JInv'
  BY <1>0, <1>6, RefusedKeeps
<1>7. exec[w].at \in {"validation", "record", "wait"} => got[1] \in DOMAIN certs
  BY <1>0, KnownFacts DEF AtFrontend
<1>8. certs' = certs /\ record' \in BOOLEAN => Types' /\ Grows /\ DOMAIN certs' = DOMAIN certs
  BY <1>3
<1>9. CASE CertLook(w)
  <2>1. certs' = certs /\ record' \in BOOLEAN
    BY <1>0, <1>9 DEF CertLook, frontVars, Types, FrontendTypes
  <2>2. \/ Go(w, "request", <<>>)
        \/ \E i \in DOMAIN certs : Finish(w, <<i>>)
    BY <1>9 DEF CertLook
  <2>. QED BY <1>4, <1>5, <1>8, <2>1, <2>2
<1>10. CASE CertLookAgain(w)
  <2>1. certs' = certs /\ record' \in BOOLEAN
    BY <1>0, <1>10 DEF CertLookAgain, frontVars, Types, FrontendTypes
  <2>2. \/ Go(w, "new", <<>>)
        \/ \E i \in DOMAIN certs : Go(w, "validation", <<i>>)
    BY <1>10 DEF CertLookAgain
  <2>3. \A i : <<i>>[1] = i
    OBVIOUS
  <2>. QED BY <1>4, <1>8, <2>1, <2>2, <2>3
<1>11. CASE CertRequest(w)
  <2>1. /\ certs' = Append(certs, "pending") /\ record' = record
        /\ Go(w, "validation", <<Len(certs) + 1>>)
    BY <1>11 DEF CertRequest
  <2>2. certs \in Seq({"pending", "issued", "timed out"})
    BY <1>0 DEF Types, FrontendTypes
  <2>3. /\ certs' \in Seq({"pending", "issued", "timed out"}) /\ Len(certs') = Len(certs) + 1
        /\ Len(certs) + 1 \in DOMAIN certs' /\ Len(certs) <= Len(certs')
    <3>1. "pending" \in {"pending", "issued", "timed out"}
      OBVIOUS
    <3>2. certs' \in Seq({"pending", "issued", "timed out"}) /\ Len(certs') = Len(certs) + 1
      BY <2>1, <2>2, <3>1, Longer, Zenon
    <3>3. DOMAIN certs' = 1 .. Len(certs')
      BY <3>2, SeqDomain, Zenon
    <3>4. \A n \in Nat : n + 1 \in 1 .. n + 1 /\ n <= n + 1
      OBVIOUS
    <3>. QED BY <1>2, <3>2, <3>3, <3>4, Zenon
  <2>4. FrontendTypes' /\ FrontendGrows
    <3>1. FrontendTypes'
      BY <1>0, <2>1, <2>3, FrontendSame, Zenon DEF Types, FrontendTypes
    <3>2. FrontendGrows
      BY <1>0, <2>3, FrontendSame DEF FrontendGrows
    <3>. QED BY <3>1, <3>2
  <2>5. <<Len(certs) + 1>>[1] = Len(certs) + 1
    OBVIOUS
  <2>. QED BY <1>0, <1>4, <2>1, <2>3, <2>4, <2>5, ByFrontend
<1>12. CASE CertValidation(w)
  <2>1. certs' = certs /\ record' \in BOOLEAN
    BY <1>0, <1>12 DEF CertValidation, frontVars, Types, FrontendTypes
  <2>2. Go(w, "wait", got) \/ Go(w, "record", got) \/ Refused(w)
    BY <1>12 DEF CertValidation
  <2>3. got[1] \in DOMAIN certs
    BY <1>7, <1>12 DEF CertValidation, At
  <2>. QED BY <1>4, <1>6, <1>8, <2>1, <2>2, <2>3
<1>13. CASE CertRecord(w)
  <2>1. certs' = certs /\ record' \in BOOLEAN
    BY <1>13 DEF CertRecord
  <2>2. Go(w, "wait", got) \/ Refused(w)
    BY <1>13 DEF CertRecord
  <2>3. got[1] \in DOMAIN certs
    BY <1>7, <1>13 DEF CertRecord, At
  <2>. QED BY <1>4, <1>6, <1>8, <2>1, <2>2, <2>3
<1>14. CASE CertWait(w)
  <2>1. certs' = certs /\ record' \in BOOLEAN
    BY <1>0, <1>14 DEF CertWait, frontVars, Types, FrontendTypes
  <2>2. Go(w, "read", <<>>) \/ Refused(w)
    BY <1>14 DEF CertWait
  <2>. QED BY <1>4, <1>6, <1>8, <2>1, <2>2
<1>15. CASE CertRead(w)
  <2>1. certs' = certs /\ record' \in BOOLEAN
    BY <1>0, <1>15 DEF CertRead, frontVars, Types, FrontendTypes
  <2>2. \E i \in DOMAIN certs : Finish(w, <<i>>)
    BY <1>15 DEF CertRead
  <2>. QED BY <1>5, <1>8, <2>1, <2>2
<1>. QED
  BY <1>9, <1>10, <1>11, <1>12, <1>13, <1>14, <1>15

LEMMA LoadbalancerKeepsJ ==
  ASSUME IInv, JInv, NEW w \in Workers, UNCHANGED <<engine, networkVars, serverVars>>,
         LoadbalancerCreate(w)
  PROVE  JInv'
<1>. PICK c, g, v : c = exec[w].cluster /\ g = Config(w) /\ v = Arg(w, "sn")
  OBVIOUS
<1>0. /\ exec[w].at # "idle" /\ exec[w].part = "lb" /\ Types
      /\ UNCHANGED <<certs, record, listeners, rules, default, tgs>>
      /\ vpcs' = vpcs /\ runs' = runs
  BY DEF LoadbalancerCreate, At, JInv, engine, networkVars
<1>1. v \in 1 .. vpcs /\ c \in Clusters /\ Len(certs) \in Nat /\ vpcs \in Nat
  <2>1. "sn" \in Needs[exec[w].part]
    BY <1>0 DEF Needs
  <2>2. Len(certs) \in Nat
    BY <1>0, SeqDomain, Zenon DEF Types, FrontendTypes
  <2>. QED BY <1>0, <2>1, <2>2, KnownFacts DEF Working, Promise, Arg, Types, NetworkTypes
<1>2. lbs' = lbs \/ lbs' = [lbs EXCEPT ![c] = v]
  BY DEF LoadbalancerCreate
<1>3. FrontendTypes' /\ FrontendGrows
  <2>0. lbs \in [Clusters -> 0 .. vpcs] /\ v \in 0 .. vpcs
    <3>1. lbs \in [Clusters -> 0 .. vpcs]
      BY <1>0, Zenon DEF Types, FrontendTypes
    <3>2. v \in 0 .. vpcs
      BY <1>1
    <3>. QED BY <3>1, <3>2
  <2>1. lbs' \in [Clusters -> 0 .. vpcs']
    BY <1>0, <1>1, <1>2, <2>0
  <2>2. FrontendTypes'
    BY <1>0, <2>1, FrontendSame, Zenon DEF Types, FrontendTypes
  <2>3. FrontendGrows
    BY <1>0, FrontendSame DEF FrontendGrows
  <2>. QED BY <2>2, <2>3
<1>4. Types' /\ Grows
  BY <1>0, <1>3, ByFrontend
<1>5. Promised(c, "lb", g, <<v>>)'
  BY DEF Promised, Promise, RunPromise
<1>6. Finish(w, <<v>>) \/ Refused(w)
  BY DEF LoadbalancerCreate
<1>. QED BY <1>0, <1>4, <1>5, <1>6, FinishKeeps, RefusedKeeps

LEMMA ListenerKeepsJ ==
  ASSUME IInv, JInv, NEW w \in Workers, UNCHANGED <<engine, networkVars, serverVars>>,
         ListenerLook(w) \/ ListenerCreate(w) \/ ListenerRedirect(w)
  PROVE  JInv'
<1>. PICK c, g : c = exec[w].cluster /\ g = Config(w)
  OBVIOUS
<1>0. /\ exec[w].at # "idle" /\ exec[w].part = "listener" /\ Types /\ c \in Clusters
      /\ UNCHANGED <<certs, record, lbs, rules, default, tgs>>
      /\ vpcs' = vpcs /\ runs' = runs
  <2>1. exec[w].at # "idle"
    BY DEF ListenerLook, ListenerCreate, ListenerRedirect, At
  <2>2. c \in Clusters
    BY <2>1, KnownFacts DEF Working
  <2>. QED
    BY <2>1, <2>2 DEF ListenerLook, ListenerCreate, ListenerRedirect, At, JInv, engine,
       networkVars, frontVars, Listen
<1>1. vpcs \in Nat /\ vpcs' \in Nat /\ listeners \in [Clusters -> SUBSET {80, 443}]
      /\ Len(certs) \in Nat
  <2>1. Len(certs) \in Nat
    BY <1>0, SeqDomain, Zenon DEF Types, FrontendTypes
  <2>. QED BY <1>0, <2>1 DEF Types, NetworkTypes, FrontendTypes
<1>2. \/ listeners' = listeners
      \/ \E port \in {80, 443} : listeners' = [listeners EXCEPT ![c] = @ \cup {port}]
  BY DEF ListenerLook, ListenerCreate, ListenerRedirect, Listen, frontVars
<1>3. FrontendTypes' /\ FrontendGrows
  <2>1. /\ listeners' \in [Clusters -> SUBSET {80, 443}]
        /\ \A d \in Clusters : listeners[d] \subseteq listeners'[d]
    BY <1>0, <1>1, <1>2
  <2>2. FrontendTypes'
    BY <1>0, <2>1, FrontendSame, Zenon DEF Types, FrontendTypes
  <2>3. FrontendGrows
    BY <1>0, <2>1, FrontendSame DEF FrontendGrows
  <2>. QED BY <2>2, <2>3
<1>4. Types' /\ Grows
  BY <1>0, <1>3, ByFrontend
<1>5. ASSUME NEW at, at # "idle", Go(w, at, <<>>), at = "redirect" => 443 \in listeners'[c]
      PROVE  JInv'
  <2>1. /\ exec'[w].at = at /\ exec'[w].part = "listener" /\ exec'[w].cluster = c
    BY <1>0, <1>1, <1>5, GoFacts
  <2>2. AtFrontend(w)'
    BY <1>5, <2>1 DEF AtFrontend, At
  <2>. QED BY <1>0, <1>4, <1>5, <2>1, <2>2, Elsewhere3, GoKeeps DEF Place
<1>6. ASSUME Finish(w, << 1 >>), 443 \in listeners'[c]
      PROVE  JInv'
  <2>1. Promised(c, "listener", g, << 1 >>)'
    BY <1>6 DEF Promised, Promise, RunPromise
  <2>. QED BY <1>0, <1>4, <1>6, <2>1, FinishKeeps
<1>7. CASE ListenerLook(w)
  BY <1>5, <1>6, <1>7 DEF ListenerLook, frontVars
<1>8. CASE ListenerCreate(w)
  <2>1. CASE Refused(w)
    BY <1>0, <1>4, <2>1, RefusedKeeps
  <2>2. CASE Listen(w, 443) /\ Go(w, "redirect", <<>>)
    <3>1. 443 \in listeners'[c]
      BY <1>0, <1>1, <2>2 DEF Listen
    <3>. QED BY <1>5, <2>2, <3>1
  <2>. QED BY <1>8, <2>1, <2>2 DEF ListenerCreate
<1>9. CASE ListenerRedirect(w)
  <2>1. 443 \in listeners[c]
    BY <1>0, <1>9, KnownFacts DEF ListenerRedirect, AtFrontend
  <2>2. 443 \in listeners'[c]
    BY <1>0, <1>3, <2>1 DEF FrontendGrows
  <2>. QED BY <1>6, <1>9, <2>2 DEF ListenerRedirect
<1>. QED BY <1>7, <1>8, <1>9

(* The services of a configuration, one by one.                            *)
LEMMA ServiceFacts ==
  ASSUME JInv, NEW w \in Workers, exec[w].at # "idle"
  PROVE  /\ exec[w].cluster \in Clusters /\ Config(w) \in Configs
         /\ Config(w).services \in Seq(Services)
         /\ Len(Config(w).services) \in Nat \ {0}
         /\ DOMAIN Config(w).services = 1 .. Len(Config(w).services)
         /\ \A i \in 1 .. Len(Config(w).services) : Config(w).services[i] \in Services
         /\ Config(w).path \in Paths /\ Config(w).size \in Sizes
         /\ runs' = runs /\ exec'[w].cluster = exec[w].cluster /\ exec'[w].run = exec[w].run
              => Config(w)' = Config(w)
<1>1. exec[w].cluster \in Clusters /\ exec[w].run \in 1 .. Len(runs[exec[w].cluster])
  BY KnownFacts DEF Working
<1>2. Config(w) = runs[exec[w].cluster][exec[w].run] /\ Types
  BY DEF Config, JInv
<1>3. /\ Config(w) \in Configs
      /\ Config(w).services \in Seq(Services) /\ Len(Config(w).services) \in Nat \ {0}
      /\ Config(w).path \in Paths /\ Config(w).size \in Sizes
  BY <1>1, <1>2, ConfigFacts
<1>4. /\ DOMAIN Config(w).services = 1 .. Len(Config(w).services)
      /\ \A i \in 1 .. Len(Config(w).services) : Config(w).services[i] \in Services
  BY <1>3, SeqDomain, Zenon
<1>. QED BY <1>1, <1>3, <1>4 DEF Config

LEMMA GroupsGoOn ==
  ASSUME IInv, JInv, Types', Grows, runs' = runs, vpcs' = vpcs,
         NEW w \in Workers, exec[w].at # "idle", exec[w].part = "tg", NextService(w),
         NEW c, NEW s, c = exec[w].cluster, s = Service(w), HasGroup(c, s)'
  PROVE  JInv'
<1>. PICK g, got, done :
       g = Config(w) /\ got = exec[w].got /\ done = Append(got, 1)
  OBVIOUS
<1>1. /\ got \in Seq(Nat) /\ Len(got) < Len(g.services)
      /\ \A i \in 1 .. Len(got) : HasGroup(c, g.services[i])
  BY KnownFacts DEF AtFrontend, Done, ServiceAt
<1>2. done \in Seq(Nat) /\ Len(done) = Len(got) + 1 /\ Len(got) \in Nat
  BY <1>1
<1>3. \A i \in 1 .. Len(done) : HasGroup(c, g.services[i])'
  <2>1. \A i \in 1 .. Len(got) : g.services[i] \in Services /\ c \in Clusters
    BY <1>1, <1>2, ServiceFacts
  <2>2. \A i \in 1 .. Len(got) : HasGroup(c, g.services[i])'
    BY <1>1, <2>1 DEF Grows, FrontendGrows
  <2>3. HasGroup(c, g.services[Len(got) + 1])'
    BY DEF Service, HasGroup
  <2>4. \A i \in 1 .. Len(done) : i \in 1 .. Len(got) \/ i = Len(got) + 1
    BY <1>2
  <2>. QED BY <2>2, <2>3, <2>4 DEF HasGroup
<1>4. CASE Len(done) = Len(g.services) /\ Finish(w, << 1 >>)
  <2>1. DOMAIN g.services = 1 .. Len(done)
    BY <1>4, ServiceFacts
  <2>2. Promised(c, "tg", g, << 1 >>)'
    BY <1>3, <2>1 DEF Promised, Promise, RunPromise
  <2>. QED BY <1>4, <2>2, FinishKeeps
<1>5. CASE Len(done) # Len(g.services) /\ Go(w, "start", done)
  <2>0. vpcs' \in Nat
    BY DEF Types, NetworkTypes
  <2>1. /\ exec'[w].at = "start" /\ exec'[w].got = done /\ exec'[w].part = "tg"
        /\ exec'[w].cluster = c /\ Config(w)' = g
    BY <1>5, <2>0, GoFacts, ServiceFacts
  <2>2. Len(done) < Len(g.services) /\ Len(g.services) \in Nat
    BY <1>1, <1>2, <1>5, ServiceFacts
  <2>3. AtFrontend(w)'
    BY <1>2, <1>3, <2>1, <2>2 DEF AtFrontend, At, Done, ServiceAt, HasGroup
  <2>. QED BY <1>5, <2>1, <2>3, Elsewhere3, GoKeeps DEF Place
<1>. QED BY <1>4, <1>5 DEF NextService, After

LEMMA GroupsStay ==
  ASSUME IInv, JInv, Types', Grows, runs' = runs, vpcs' = vpcs,
         NEW w \in Workers, exec[w].at # "idle", exec[w].part = "tg",
         NEW at \in {"create", "update"}, Go(w, at, exec[w].got),
         at = "update" => HasGroup(exec[w].cluster, Service(w))
  PROVE  JInv'
<1>. PICK c, g, got : c = exec[w].cluster /\ g = Config(w) /\ got = exec[w].got
  OBVIOUS
<1>1. /\ got \in Seq(Nat) /\ Len(got) < Len(g.services) /\ Len(got) \in Nat
      /\ \A i \in 1 .. Len(got) : HasGroup(c, g.services[i])
  BY KnownFacts DEF AtFrontend, Done, ServiceAt
<1>2. /\ \A i \in 1 .. Len(got) + 1 : g.services[i] \in Services
      /\ c \in Clusters /\ Len(g.services) \in Nat
  BY <1>1, ServiceFacts
<1>3. \A i \in 1 .. Len(got) : HasGroup(c, g.services[i])'
  BY <1>1, <1>2 DEF Grows, FrontendGrows
<1>4. at = "update" => HasGroup(c, g.services[Len(got) + 1])'
  BY <1>1, <1>2 DEF Grows, FrontendGrows, Service
<1>5. vpcs' \in Nat
  BY DEF Types, NetworkTypes
<1>6. /\ exec'[w].at = at /\ exec'[w].got = got /\ exec'[w].part = "tg"
      /\ exec'[w].cluster = c /\ Config(w)' = g
  BY <1>5, GoFacts, ServiceFacts
<1>7. AtFrontend(w)'
  BY <1>1, <1>2, <1>3, <1>4, <1>6 DEF AtFrontend, At, Done, ServiceAt, HasGroup
<1>. QED BY <1>6, <1>7, Elsewhere3, GoKeeps DEF Place

LEMMA TargetGroupKeepsJ ==
  ASSUME IInv, JInv, NEW w \in Workers, UNCHANGED <<networkVars, serverVars, slice, runs>>,
         EngineTypes',
         \/ TargetGroupLook(w) \/ TargetGroupCreate(w) \/ TargetGroupUpdate(w)
         \/ TargetGroupUpdateFails(w)
  PROVE  JInv'
<1>. PICK c, g, s : c = exec[w].cluster /\ g = Config(w) /\ s = Service(w)
  OBVIOUS
<1>0. /\ exec[w].at # "idle" /\ exec[w].part = "tg" /\ Types /\ vpcs' = vpcs
      /\ UNCHANGED <<certs, record, lbs, listeners, rules, default>>
  BY DEF TargetGroupLook, TargetGroupCreate, TargetGroupUpdate, TargetGroupUpdateFails, At,
     JInv, networkVars, frontVars, SetPath
<1>1. c \in Clusters /\ s \in Services /\ g.path \in Paths /\ None \notin Paths
  <2>1. exec[w].got \in Seq(Nat) /\ Len(exec[w].got) < Len(g.services)
    BY <1>0, KnownFacts DEF AtFrontend, Done
  <2>2. Len(exec[w].got) + 1 \in 1 .. Len(g.services)
    BY <1>0, <2>1, ServiceFacts
  <2>3. s = g.services[Len(exec[w].got) + 1]
    BY DEF Service
  <2>. QED BY <1>0, <2>2, <2>3, ServiceFacts, ProvisioningAssumption
<1>2. tgs \in [Clusters -> [Services -> Paths \cup {None}]]
  BY <1>0 DEF Types, FrontendTypes
<1>3. tgs' = tgs \/ tgs' = [tgs EXCEPT ![c][s] = g.path]
  BY DEF TargetGroupLook, TargetGroupCreate, TargetGroupUpdate, TargetGroupUpdateFails,
     frontVars, SetPath
<1>4. /\ tgs' \in [Clusters -> [Services -> Paths \cup {None}]]
      /\ \A d \in Clusters, r \in Services : tgs[d][r] # None => tgs'[d][r] # None
  BY <1>1, <1>2, <1>3
<1>5. FrontendTypes'
  BY <1>0, <1>4, FrontendSame, Zenon DEF Types, FrontendTypes
<1>6. FrontendGrows
  <2>1. /\ \A d, r : HasRule(d, r) => HasRule(d, r)'
        /\ \A d \in Clusters, r \in Services : HasGroup(d, r) => HasGroup(d, r)'
    BY <1>0, <1>4 DEF HasRule, HasGroup
  <2>. QED BY <1>0, <2>1, FrontendSame DEF FrontendGrows
<1>7. Types' /\ Grows /\ runs' = runs
  <2>1. ServerTypes' /\ ServersGrow /\ NetworkTypes' /\ NetworkGrows
    BY <1>0 DEF Types, ServerTypes, ServersGrow, NetworkTypes, NetworkGrows, networkVars,
       serverVars, Zones
  <2>. QED BY <1>5, <1>6, <2>1 DEF Types, Grows
<1>8. CASE TargetGroupLook(w)
  <2>1. \/ tgs[c][s] # None /\ tgs' = tgs /\ NextService(w)
        \/ Go(w, "create", exec[w].got)
        \/ tgs[c][s] # None /\ Go(w, "update", exec[w].got)
    BY <1>1, <1>8 DEF TargetGroupLook, frontVars
  <2>. QED BY <1>0, <1>7, <2>1, GroupsGoOn, GroupsStay DEF HasGroup
<1>9. CASE TargetGroupCreate(w)
  <2>1. \/ tgs' = [tgs EXCEPT ![c][s] = g.path] /\ NextService(w)
        \/ Refused(w)
    BY <1>9 DEF TargetGroupCreate, SetPath
  <2>2. tgs' = [tgs EXCEPT ![c][s] = g.path] => HasGroup(c, s)'
    BY <1>1, <1>2 DEF HasGroup
  <2>. QED BY <1>0, <1>7, <2>1, <2>2, GroupsGoOn, RefusedKeeps
<1>10. CASE TargetGroupUpdate(w)
  <2>1. tgs' = [tgs EXCEPT ![c][s] = g.path] /\ NextService(w)
    BY <1>10 DEF TargetGroupUpdate, SetPath
  <2>2. HasGroup(c, s)'
    BY <1>1, <1>2, <2>1 DEF HasGroup
  <2>. QED BY <1>0, <1>7, <2>1, <2>2, GroupsGoOn
<1>11. CASE TargetGroupUpdateFails(w)
  <2>1. HasGroup(c, s)
    BY <1>0, <1>11, KnownFacts DEF AtFrontend, Done, ServiceAt, Service, TargetGroupUpdateFails
  <2>2. HasGroup(c, s)' /\ NextService(w)
    BY <1>11, <2>1 DEF TargetGroupUpdateFails, HasGroup, frontVars
  <2>. QED BY <1>0, <1>7, <2>2, GroupsGoOn
<1>. QED BY <1>8, <1>9, <1>10, <1>11

(* A rule goes on to the next service, or ends, with an entry for each     *)
(* service that has its rule.                                              *)
LEMMA RulesGoOn ==
  ASSUME IInv, JInv, Types', Grows, runs' = runs, vpcs' = vpcs,
         NEW w \in Workers, exec[w].at # "idle", exec[w].part = "rule",
         NEW done \in Seq(Nat), After(w, done),
         NEW c, NEW g, c = exec[w].cluster, g = Config(w),
         Len(done) \in 1 .. Len(g.services),
         g.frontend => default'[c] # "404",
         ~g.frontend => \A i \in 1 .. Len(done) : HasRule(c, g.services[i])'
  PROVE  JInv'
<1>1. CASE Len(done) = Len(g.services) /\ Finish(w, << 1 >>)
  <2>1. DOMAIN g.services = 1 .. Len(done)
    BY <1>1, ServiceFacts
  <2>2. Promised(c, "rule", g, << 1 >>)'
    BY <2>1 DEF Promised, Promise, RunPromise
  <2>. QED BY <1>1, <2>2, FinishKeeps
<1>2. CASE Len(done) # Len(g.services) /\ Go(w, "start", done)
  <2>0. vpcs' \in Nat
    BY DEF Types, NetworkTypes
  <2>1. /\ exec'[w].at = "start" /\ exec'[w].got = done /\ exec'[w].part = "rule"
        /\ exec'[w].cluster = c /\ Config(w)' = g
    BY <1>2, <2>0, GoFacts, ServiceFacts
  <2>2. Len(done) < Len(g.services)
    BY <1>2, ServiceFacts
  <2>3. AtFrontend(w)'
    BY <2>1, <2>2 DEF AtFrontend, At, Done, ServiceAt, HasRule
  <2>. QED BY <1>2, <2>1, <2>3, Elsewhere3, GoKeeps DEF Place
<1>. QED BY <1>1, <1>2 DEF After

LEMMA RuleKeepsJ ==
  ASSUME IInv, JInv, NEW w \in Workers, UNCHANGED <<engine, networkVars, serverVars>>,
         RuleDefault(w) \/ RuleLook(w) \/ RuleCreate(w)
  PROVE  JInv'
<1>. PICK c, g, got : c = exec[w].cluster /\ g = Config(w) /\ got = exec[w].got
  OBVIOUS
<1>0. /\ exec[w].at # "idle" /\ exec[w].part = "rule" /\ Types /\ vpcs' = vpcs /\ runs' = runs
      /\ UNCHANGED <<certs, record, lbs, listeners, tgs>>
  BY DEF RuleDefault, RuleLook, RuleCreate, At, JInv, networkVars, frontVars, engine
<1>1. /\ c \in Clusters /\ Len(g.services) \in Nat /\ got \in Seq(Nat) /\ Len(got) \in Nat
      /\ \A i \in 1 .. Len(g.services) : g.services[i] \in Services
      /\ rules \in [Clusters -> Seq(Services)]
      /\ default \in [Clusters -> Services \cup {"404"}]
  <2>1. exec[w].at \in {"start", "create"}
    BY DEF RuleDefault, RuleLook, RuleCreate, At
  <2>2. got \in Seq(Nat)
    BY <1>0, <2>1, KnownFacts DEF AtFrontend, At
  <2>3. rules \in [Clusters -> Seq(Services)] /\ default \in [Clusters -> Services \cup {"404"}]
    BY <1>0, Zenon DEF Types, FrontendTypes
  <2>4. /\ c \in Clusters /\ Len(g.services) \in Nat
        /\ \A i \in 1 .. Len(g.services) : g.services[i] \in Services
    BY <1>0, ServiceFacts
  <2>. QED BY <2>2, <2>3, <2>4
<1>2. ASSUME rules' \in [Clusters -> Seq(Services)],
             default' \in [Clusters -> Services \cup {"404"}],
             \A d \in Clusters : default[d] # "404" => default'[d] # "404",
             \A d \in Clusters, r \in Services : HasRule(d, r) => HasRule(d, r)'
      PROVE  Types' /\ Grows
  <2>1. FrontendTypes'
    BY <1>0, <1>2, FrontendSame, Zenon DEF Types, FrontendTypes
  <2>2. FrontendGrows
    BY <1>0, <1>2, FrontendSame DEF FrontendGrows, HasGroup
  <2>. QED BY <1>0, <2>1, <2>2, ByFrontend
<1>3. CASE RuleDefault(w)
  <2>1. /\ g.frontend /\ default' = [default EXCEPT ![c] = Service(w)] /\ rules' = rules
        /\ After(w, Append(got, 1)) /\ At(w, "rule", "start")
    BY <1>3 DEF RuleDefault, NextService
  <2>2. Len(got) < Len(g.services)
    BY <1>0, <2>1, KnownFacts DEF AtFrontend, Done
  <2>3. Service(w) \in Services
    <3>1. Len(got) + 1 \in 1 .. Len(g.services)
      BY <1>1, <2>2
    <3>2. Service(w) = g.services[Len(got) + 1]
      BY DEF Service
    <3>. QED BY <1>1, <3>1, <3>2
  <2>4. Service(w) # "404"
    BY <2>3, ProvisioningAssumption
  <2>5. /\ default' \in [Clusters -> Services \cup {"404"}] /\ default'[c] # "404"
        /\ \A d \in Clusters : default[d] # "404" => default'[d] # "404"
    BY <1>1, <2>1, <2>3, <2>4
  <2>6. \A d \in Clusters, r \in Services : HasRule(d, r) => HasRule(d, r)'
    BY <2>1 DEF HasRule
  <2>7. Types' /\ Grows
    BY <1>1, <1>2, <2>1, <2>5, <2>6
  <2>8. Append(got, 1) \in Seq(Nat) /\ Len(Append(got, 1)) \in 1 .. Len(g.services)
    BY <1>1, <2>2
  <2>. QED BY <1>0, <2>1, <2>5, <2>7, <2>8, RulesGoOn
<1>4. CASE RuleLook(w)
  <2>. PICK to : to = Append(got, Len(rules[c]) + 1)
    OBVIOUS
  <2>1. /\ ~g.frontend /\ Go(w, "create", to) /\ At(w, "rule", "start")
        /\ UNCHANGED <<rules, default>>
    BY <1>4 DEF RuleLook, frontVars
  <2>2. /\ Len(got) < Len(g.services)
        /\ \A i \in 1 .. Len(got) : HasRule(c, g.services[i])
    BY <1>0, <2>1, KnownFacts DEF AtFrontend, Done, ServiceAt
  <2>3. Types' /\ Grows
    BY <1>1, <1>2, <2>1 DEF HasRule
  <2>4. Len(rules[c]) + 1 \in Nat
    BY <1>1
  <2>5. to \in Seq(Nat) /\ Len(to) = Len(got) + 1
    BY <1>1, <2>4
  <2>6. vpcs' \in Nat
    BY <2>3 DEF Types, NetworkTypes
  <2>7. /\ exec'[w].at = "create" /\ exec'[w].got = to /\ exec'[w].part = "rule"
        /\ exec'[w].cluster = c /\ Config(w)' = g
    BY ZenonT(30), <1>0, <2>1, <2>6, GoFacts, ServiceFacts
  <2>8. Len(to) \in 1 .. Len(g.services) /\ \A i \in 1 .. Len(to) - 1 : i \in 1 .. Len(got)
    BY <1>1, <2>2, <2>5
  <2>9. AtFrontend(w)'
    BY <2>1, <2>2, <2>5, <2>7, <2>8 DEF AtFrontend, At, Done, ServiceAt, HasRule
  <2>. QED BY <1>0, <2>1, <2>3, <2>7, <2>9, Elsewhere3, GoKeeps DEF Place
<1>5. CASE RuleCreate(w)
  <2>. PICK r : r = Requested(w)
    OBVIOUS
  <2>1. At(w, "rule", "create") /\ default' = default
    BY <1>5 DEF RuleCreate
  <2>2. /\ ~g.frontend /\ Len(got) \in 1 .. Len(g.services)
        /\ \A i \in 1 .. Len(got) - 1 : HasRule(c, g.services[i])
    BY <1>0, <2>1, KnownFacts DEF AtFrontend, Done, ServiceAt
  <2>3. CASE Refused(w) /\ rules' = rules
    <3>1. Types' /\ Grows
      BY <1>1, <1>2, <2>1, <2>3 DEF HasRule
    <3>. QED BY <1>0, <2>3, <3>1, RefusedKeeps
  <2>4. CASE rules' = [rules EXCEPT ![c] = Append(@, r)] /\ After(w, got)
    <3>1. r = g.services[Len(got)] /\ r \in Services
      <4>1. r = g.services[Len(got)]
        BY DEF Requested
      <4>. QED BY <1>1, <2>2, <4>1
    <3>2. /\ rules' \in [Clusters -> Seq(Services)] /\ rules'[c] = Append(rules[c], r)
          /\ \A d \in Clusters \ {c} : rules'[d] = rules[d]
      BY <1>1, <2>4, <3>1
    <3>3. HasRule(c, r)' /\ \A s \in Services : HasRule(c, s) => HasRule(c, s)'
      <4>1. rules[c] \in Seq(Services)
        BY <1>1
      <4>2. /\ DOMAIN rules'[c] = 1 .. Len(rules[c]) + 1 /\ rules'[c][Len(rules[c]) + 1] = r
            /\ DOMAIN rules[c] = 1 .. Len(rules[c]) /\ Len(rules[c]) \in Nat
            /\ \A i \in 1 .. Len(rules[c]) : rules'[c][i] = rules[c][i]
        BY <3>1, <3>2, <4>1
      <4>. QED BY SMTT(30), <4>2 DEF HasRule
    <3>4. \A d \in Clusters, s \in Services : HasRule(d, s) => HasRule(d, s)'
      BY SMTT(30), <3>2, <3>3 DEF HasRule
    <3>5. Types' /\ Grows
      BY <1>1, <1>2, <2>1, <3>2, <3>4
    <3>6. \A i \in 1 .. Len(got) : HasRule(c, g.services[i])'
      <4>1. \A i \in 1 .. Len(got) - 1 : HasRule(c, g.services[i])'
        <5>1. \A i \in 1 .. Len(got) - 1 : g.services[i] \in Services
          BY <1>1, <2>2
        <5>. QED BY <2>2, <3>3, <5>1 DEF HasRule
      <4>2. \A i \in 1 .. Len(got) : i \in 1 .. Len(got) - 1 \/ i = Len(got)
        BY <1>1
      <4>. QED BY <3>1, <3>3, <4>1, <4>2 DEF HasRule
    <3>. QED BY <1>0, <1>1, <2>2, <2>4, <3>5, <3>6, RulesGoOn
  <2>. QED BY <1>5, <2>3, <2>4 DEF RuleCreate
<1>. QED BY <1>3, <1>4, <1>5

-----------------------------------------------------------------------------
(* The parts of Servers.                                                   *)

LEMMA NodesGoOn ==
  ASSUME IInv, JInv, Types', Grows, runs' = runs, vpcs' = vpcs,
         NEW w \in Workers, exec[w].at # "idle", exec[w].part = "node",
         NEW s \in DOMAIN servers', NextNode(w, s)
  PROVE  JInv'
<1>. PICK c, g, got, done :
       /\ c = exec[w].cluster /\ g = Config(w) /\ got = exec[w].got
       /\ done = Append(got, s)
  OBVIOUS
<1>1. got \in Seq(DOMAIN servers) /\ Len(got) < Nodes
  BY KnownFacts DEF AtServers, Done
<1>2. DOMAIN servers \subseteq DOMAIN servers' /\ vpcs' \in Nat
  BY Domains DEF JInv, Types, NetworkTypes
<1>3. got \in Seq(DOMAIN servers') /\ Len(got) \in Nat
  BY <1>1, <1>2
<1>4. done \in Seq(DOMAIN servers') /\ Len(done) = Len(got) + 1
  BY <1>3, Longer
<1>5. CASE Len(done) = Nodes /\ Finish(w, done)
  <2>1. Promised(c, "node", g, done)'
    BY <1>4, <1>5 DEF Promised, Promise, RunPromise
  <2>. QED BY <1>5, <2>1, FinishKeeps
<1>6. CASE Len(done) # Nodes /\ Go(w, "start", done)
  <2>1. exec'[w].at = "start" /\ exec'[w].got = done /\ exec'[w].part = "node"
    BY <1>2, <1>6, GoFacts
  <2>2. Len(done) < Nodes
    BY <1>1, <1>3, <1>4, <1>6, ProvisioningAssumption
  <2>3. AtServers(w)'
    BY <1>4, <2>1, <2>2 DEF AtServers, At, Done
  <2>. QED BY <1>6, <2>1, <2>3, Elsewhere3, GoKeeps DEF Place
<1>. QED BY <1>5, <1>6 DEF NextNode

LEMMA NodeKeepsJ ==
  ASSUME IInv, JInv, NEW w \in Workers, UNCHANGED <<engine, networkVars, frontVars>>,
         NodeLook(w) \/ NodeCreate(w)
  PROVE  JInv'
<1>0. /\ exec[w].at # "idle" /\ exec[w].part = "node" /\ Types /\ targets' = targets
      /\ vpcs' = vpcs /\ runs' = runs
  BY DEF NodeLook, NodeCreate, At, JInv, engine, networkVars, serverVars
<1>1. /\ servers \in Seq(Server) /\ targets \subseteq Services \X DOMAIN servers
      /\ DOMAIN servers = 1 .. Len(servers) /\ Len(servers) \in Nat
  <2>1. servers \in Seq(Server) /\ targets \subseteq Services \X DOMAIN servers
    BY <1>0 DEF Types, ServerTypes
  <2>. QED BY <2>1, SeqDomain, Zenon
<1>2. exec[w].got \in Seq(DOMAIN servers) /\ Len(exec[w].got) < Nodes
  BY <1>0, KnownFacts DEF AtServers, Done
<1>3. CASE NodeLook(w)
  <2>. PICK usable : usable = OfSize(Seen(exec[w].cluster, NodeOf(w)), Config(w).size)
         \cup (Seen(exec[w].cluster, NodeOf(w)) \ Running(Seen(exec[w].cluster, NodeOf(w))))
    OBVIOUS
  <2>1. usable \subseteq DOMAIN servers
    BY DEF OfSize, Seen, Running
  <2>2. UNCHANGED <<account, engine>> /\ servers' = servers
    BY <1>3 DEF NodeLook, account, serverVars
  <2>3. \/ Go(w, "create", exec[w].got)
        \/ \E s \in usable : NextNode(w, s)
    BY <1>3 DEF NodeLook
  <2>4. CASE Go(w, "create", exec[w].got)
    <3>0. vpcs' \in Nat
      BY <1>0, <2>2, Quiet
    <3>1. exec'[w].at = "create" /\ exec'[w].got = exec[w].got /\ exec'[w].part = "node"
      BY <1>0, <2>4, <3>0, GoFacts
    <3>2. AtServers(w)'
      BY <1>2, <2>2, <3>1 DEF AtServers, At, Done
    <3>. QED BY <1>0, <2>2, <2>4, <3>1, <3>2, Quiet, Elsewhere3, GoKeeps DEF Place
  <2>5. ASSUME NEW s \in usable, NextNode(w, s)
        PROVE  JInv'
    BY <1>0, <2>1, <2>2, <2>5, Quiet, NodesGoOn
  <2>. QED BY <2>3, <2>4, <2>5
<1>4. CASE NodeCreate(w)
  <2>. PICK s : s = [cluster |-> exec[w].cluster, node |-> NodeOf(w),
                     size |-> Config(w).size, state |-> "starting"]
    OBVIOUS
  <2>1. servers' = Append(servers, s) /\ NextNode(w, Len(servers) + 1)
    BY <1>4 DEF NodeCreate
  <2>2. NodeOf(w) \in 1 .. Nodes
    <3>1. Len(exec[w].got) \in Nat
      BY <1>2
    <3>. QED BY <1>2, <3>1, ProvisioningAssumption DEF NodeOf
  <2>3. exec[w].cluster \in Clusters /\ Config(w).size \in Sizes
    BY <1>0, ServiceFacts
  <2>4. s \in Server
    BY <2>2, <2>3 DEF Server, States
  <2>5. servers' \in Seq(Server) /\ Len(servers') = Len(servers) + 1
    BY <1>1, <2>1, <2>4, Longer
  <2>6. DOMAIN servers' = 1 .. Len(servers')
    BY <2>5, SeqDomain, Zenon
  <2>7. DOMAIN servers \subseteq DOMAIN servers' /\ Len(servers) + 1 \in DOMAIN servers'
    BY <1>1, <2>5, <2>6
  <2>8. ServerTypes' /\ ServersGrow
    BY <1>0, <1>1, <2>5, <2>7 DEF ServerTypes, ServersGrow, Server
  <2>. QED BY <1>0, <2>1, <2>7, <2>8, ByServers, NodesGoOn
<1>. QED BY <1>3, <1>4

LEMMA CleaningGoesOn ==
  ASSUME IInv, JInv, Types', Grows, runs' = runs, vpcs' = vpcs,
         NEW w \in Workers, exec[w].at # "idle", exec[w].part = "cleanup",
         NEW got \in Seq(SUBSET DOMAIN servers), Len(got) \in 1 .. Nodes,
         AfterCleaning(w, got) \/ Go(w, "delete", got)
  PROVE  JInv'
<1>. PICK c, g : c = exec[w].cluster /\ g = Config(w)
  OBVIOUS
<1>1. Len(exec[w].args["node"]) = Nodes
  <2>1. "node" \in Needs[exec[w].part]
    BY DEF Needs
  <2>. QED BY <2>1, KnownFacts DEF Working, Promise
<1>2. got \in Seq(SUBSET DOMAIN servers') /\ vpcs' \in Nat
  <2>1. DOMAIN servers \subseteq DOMAIN servers' /\ vpcs' \in Nat
    BY Domains DEF JInv, Types, NetworkTypes
  <2>. QED BY <2>1
<1>3. CASE Finish(w, << 1 >>)
  <2>1. Promised(c, "cleanup", g, << 1 >>)'
    BY DEF Promised, Promise, RunPromise
  <2>. QED BY <1>3, <2>1, FinishKeeps
<1>4. ASSUME NEW at, at = "delete" \/ (at = "start" /\ Len(got) < Nodes), Go(w, at, got)
      PROVE  JInv'
  <2>1. exec'[w].at = at /\ exec'[w].got = got /\ exec'[w].part = "cleanup"
    BY <1>2, <1>4, GoFacts
  <2>2. AtServers(w)'
    BY <1>2, <1>4, <2>1 DEF AtServers, At, Done
  <2>. QED BY <1>4, <2>1, <2>2, Elsewhere3, GoKeeps DEF Place
<1>5. Len(got) # Nodes => Len(got) < Nodes
  BY ProvisioningAssumption
<1>. QED BY <1>1, <1>3, <1>4, <1>5 DEF AfterCleaning

LEMMA CleanupKeepsJ ==
  ASSUME IInv, JInv, NEW w \in Workers, UNCHANGED <<engine, networkVars, frontVars>>,
         CleanupLook(w) \/ CleanupDelete(w)
  PROVE  JInv'
<1>0. /\ exec[w].at # "idle" /\ exec[w].part = "cleanup" /\ Types /\ targets' = targets
      /\ vpcs' = vpcs /\ runs' = runs
  BY DEF CleanupLook, CleanupDelete, CleanupWith, At, JInv, engine, networkVars, serverVars
<1>1. CASE CleanupLook(w)
  <2>1. PICK doomed : /\ doomed \subseteq Seen(exec[w].cluster, Len(exec[w].got) + 1)
                      /\ CleanupWith(w, doomed)
    BY <1>1 DEF CleanupLook, Running
  <2>. PICK got : got = Append(exec[w].got, doomed)
    OBVIOUS
  <2>2. doomed \in SUBSET DOMAIN servers
    BY <2>1 DEF Seen
  <2>3. exec[w].got \in Seq(SUBSET DOMAIN servers) /\ Len(exec[w].got) < Nodes
    BY <1>0, <2>1, KnownFacts DEF CleanupWith, AtServers, Done
  <2>4. got \in Seq(SUBSET DOMAIN servers) /\ Len(got) = Len(exec[w].got) + 1
        /\ Len(exec[w].got) \in Nat
    BY <2>2, <2>3, Longer
  <2>5. Len(got) \in 1 .. Nodes
    BY <2>3, <2>4, ProvisioningAssumption
  <2>6. UNCHANGED <<account, engine>>
    BY <2>1 DEF CleanupWith, account, serverVars
  <2>7. AfterCleaning(w, got) \/ Go(w, "delete", got)
    BY <2>1 DEF CleanupWith
  <2>. QED BY <1>0, <2>4, <2>5, <2>6, <2>7, Quiet, CleaningGoesOn
<1>2. CASE CleanupDelete(w)
  <2>. PICK n : n = Len(exec[w].got)
    OBVIOUS
  <2>1. exec[w].got \in Seq(SUBSET DOMAIN servers) /\ n \in 1 .. Nodes
    BY <1>0, <1>2, KnownFacts DEF CleanupDelete, AtServers, Done
  <2>2. PICK s \in exec[w].got[n] :
          /\ servers' = [servers EXCEPT ![s].state = "terminated"]
          /\ \/ AfterCleaning(w, [exec[w].got EXCEPT ![n] = @ \ {s}])
             \/ Go(w, "delete", [exec[w].got EXCEPT ![n] = @ \ {s}])
    BY <1>2 DEF CleanupDelete
  <2>. PICK got : got = [exec[w].got EXCEPT ![n] = @ \ {s}]
    OBVIOUS
  <2>3. got \in Seq(SUBSET DOMAIN servers) /\ Len(got) = n
    BY <2>1
  <2>4. s \in DOMAIN servers
    BY <2>1
  <2>5. servers \in Seq(Server) /\ targets \subseteq Services \X DOMAIN servers
    BY <1>0 DEF Types, ServerTypes
  <2>6. servers[s] \in Server /\ [servers[s] EXCEPT !.state = "terminated"] \in Server
    <3>1. \A r \in Server : [r EXCEPT !.state = "terminated"] \in Server
      BY DEF Server, States
    <3>2. servers[s] \in Server
      BY <2>4, <2>5
    <3>. QED BY <3>1, <3>2
  <2>7. servers' \in Seq(Server) /\ Len(servers') = Len(servers) /\ DOMAIN servers' = DOMAIN servers
    BY <2>2, <2>4, <2>5, <2>6
  <2>8. ServerTypes' /\ ServersGrow
    BY <1>0, <2>5, <2>7 DEF ServerTypes, ServersGrow, Server
  <2>. QED BY <1>0, <2>1, <2>2, <2>3, <2>8, ByServers, CleaningGoesOn
<1>. QED BY <1>1, <1>2

(* The pair with number k, from 0: the server goes round fastest.          *)
LEMMA PairAt ==
  ASSUME NEW N, NEW M, NEW k, N \in Nat \ {0}, M \in Nat, k \in Nat, k < N * M
  PROVE  (k % N) + 1 \in 1 .. N /\ (k \div N) + 1 \in 1 .. M
<1>1. k % N \in 0 .. N - 1 /\ k \div N \in Nat /\ k = N * (k \div N) + (k % N)
  OBVIOUS
<1>. PICK q, r : q = k \div N /\ r = k % N
  OBVIOUS
<1>2. q \in Nat /\ r \in 0 .. N - 1 /\ k = N * q + r
  BY <1>1
<1>3. ASSUME M <= q PROVE FALSE
  <2>1. N * M <= N * q
    BY <1>2, <1>3
  <2>. QED BY <1>2, <2>1
<1>. QED BY <1>1, <1>2, <1>3

LEMMA OnePair ==
  ASSUME NEW N, NEW i, NEW j, NEW k, NEW l, N \in Nat \ {0}, k \in Nat, l = k + 1,
         i \in 1 .. N, j \in Nat \ {0}, (j - 1) * N + i = l
  PROVE  i = (k % N) + 1 /\ j = (k \div N) + 1
<1>1. k % N \in 0 .. N - 1 /\ k \div N \in Nat /\ k = N * (k \div N) + (k % N)
  OBVIOUS
<1>. PICK q, r : q = k \div N /\ r = k % N
  OBVIOUS
<1>2. q \in Nat /\ r \in 0 .. N - 1 /\ k = N * q + r
  BY <1>1
<1>3. (j - 1) * N + (i - 1) = q * N + r
  BY <1>2
<1>4. ASSUME j - 1 < q PROVE FALSE
  <2>1. (j - 1 + 1) * N <= q * N
    BY <1>2, <1>4
  <2>. QED BY <1>2, <1>3, <2>1
<1>5. ASSUME q < j - 1 PROVE FALSE
  <2>1. (q + 1) * N <= (j - 1) * N
    BY <1>2, <1>5
  <2>. QED BY <1>2, <1>3, <2>1
<1>. QED BY <1>2, <1>3, <1>4, <1>5

LEMMA TargetKeepsJ ==
  ASSUME IInv, JInv, NEW w \in Workers, UNCHANGED <<engine, networkVars, frontVars>>,
         TargetRegister(w)
  PROVE  JInv'
<1>. PICK c, g, got, nodes, services, k, M :
       /\ c = exec[w].cluster /\ g = Config(w) /\ got = exec[w].got
       /\ nodes = exec[w].args["node"] /\ services = g.services /\ k = Len(got)
       /\ M = Len(services)
  OBVIOUS
<1>. PICK s, r : s = nodes[(k % Nodes) + 1] /\ r = services[(k \div Nodes) + 1]
  OBVIOUS
<1>0. /\ exec[w].at = "start" /\ exec[w].at # "idle" /\ exec[w].part = "target" /\ Types
      /\ servers' = servers /\ vpcs' = vpcs /\ runs' = runs
  BY DEF TargetRegister, At, JInv, engine, networkVars
<1>1. nodes \in Seq(DOMAIN servers) /\ Len(nodes) = Nodes
  <2>1. "node" \in Needs[exec[w].part]
    BY <1>0 DEF Needs
  <2>. QED BY <1>0, <2>1, KnownFacts DEF Working, Promise
<1>2. /\ got \in Seq(Nat) /\ k < Nodes * M
      /\ \A i \in 1 .. Nodes, j \in DOMAIN services :
           (j - 1) * Nodes + i <= k => <<services[j], nodes[i]>> \in targets
  BY <1>0, KnownFacts DEF AtServers, Done, Nth, ServiceAt, NodesOf
<1>3. /\ M \in Nat \ {0} /\ DOMAIN services = 1 .. M
      /\ \A j \in 1 .. M : services[j] \in Services
  BY <1>0, ServiceFacts
<1>4. k \in Nat /\ Append(got, 1) \in Seq(Nat) /\ Len(Append(got, 1)) = k + 1
      /\ Nodes \in Nat \ {0}
  BY <1>2, ProvisioningAssumption
<1>5. /\ (k % Nodes) + 1 \in 1 .. Nodes /\ (k \div Nodes) + 1 \in 1 .. M
      /\ \A i \in 1 .. Nodes, j \in 1 .. M :
           (j - 1) * Nodes + i = k + 1 => i = (k % Nodes) + 1 /\ j = (k \div Nodes) + 1
  <2>1. k \in Nat /\ Nodes \in Nat \ {0} /\ M \in Nat /\ k < Nodes * M
    BY <1>2, <1>3, <1>4
  <2>2. (k % Nodes) + 1 \in 1 .. Nodes /\ (k \div Nodes) + 1 \in 1 .. M
    BY <2>1, PairAt, Zenon
  <2>3. ASSUME NEW i \in 1 .. Nodes, NEW j \in 1 .. M, (j - 1) * Nodes + i = k + 1
        PROVE  i = (k % Nodes) + 1 /\ j = (k \div Nodes) + 1
    <3>. PICK l : l = k + 1
      OBVIOUS
    <3>1. j \in Nat \ {0} /\ (j - 1) * Nodes + i = l
      BY <1>3, <2>3
    <3>. QED BY <2>1, <3>1, OnePair, ZenonT(30)
  <2>. QED BY <2>2, <2>3
<1>6. s \in DOMAIN servers /\ r \in Services
  BY <1>1, <1>3, <1>5
<1>7. CASE Refused(w) /\ targets' = targets
  <2>1. UNCHANGED <<account, engine>>
    BY <1>0, <1>7 DEF account, serverVars
  <2>. QED BY <1>0, <1>7, <2>1, Quiet, RefusedKeeps
<1>8. CASE /\ targets' = targets \cup {<<r, s>>}
           /\ IF k + 1 = Nodes * M THEN Finish(w, nodes) ELSE Go(w, "start", Append(got, 1))
  <2>1. ServerTypes' /\ ServersGrow
    <3>1. servers \in Seq(Server) /\ targets \subseteq Services \X DOMAIN servers
          /\ Len(servers) \in Nat
      BY <1>0 DEF Types, ServerTypes
    <3>. QED BY SMTT(30), <1>0, <1>6, <1>8, <3>1 DEF ServerTypes, ServersGrow, Server
  <2>2. Types' /\ Grows /\ vpcs' \in Nat
    BY <1>0, <2>1, ByServers
  <2>3. ASSUME NEW i \in 1 .. Nodes, NEW j \in 1 .. M, (j - 1) * Nodes + i <= k + 1
        PROVE  <<services[j], nodes[i]>> \in targets'
    <3>1. (j - 1) * Nodes + i \in Nat
      <4>1. (j - 1) * Nodes \in Nat
        BY <1>4, Product
      <4>. QED BY <4>1
    <3>2. CASE (j - 1) * Nodes + i <= k
      BY <1>2, <1>3, <1>8, <3>2
    <3>3. CASE (j - 1) * Nodes + i = k + 1
      BY <1>5, <1>8, <3>3
    <3>4. PICK q \in Nat : q = (j - 1) * Nodes + i
      BY <3>1
    <3>5. q <= k \/ q = k + 1
      BY <1>4, <2>3, <3>4
    <3>. QED BY <3>2, <3>3, <3>4, <3>5
  <2>4. CASE k + 1 = Nodes * M /\ Finish(w, nodes)
    <3>1. ASSUME NEW i \in 1 .. Nodes, NEW j \in 1 .. M
          PROVE  (j - 1) * Nodes + i <= k + 1
      <4>1. j * Nodes <= M * Nodes
        BY SMTT(30), <1>3, <1>4
      <4>2. (j - 1) * Nodes + i <= j * Nodes
        BY <1>4
      <4>3. M * Nodes = Nodes * M /\ j * Nodes \in Nat /\ (j - 1) * Nodes \in Nat
        BY <1>3, <1>4, Product
      <4>. QED BY <1>4, <2>4, <4>1, <4>2, <4>3
    <3>2. DOMAIN nodes = 1 .. Nodes
      BY <1>1
    <3>3. Promised(c, "target", g, nodes)'
      BY <1>3, <2>3, <3>1, <3>2 DEF Promised, Promise, RunPromise
    <3>. QED BY <1>0, <2>2, <2>4, <3>3, FinishKeeps
  <2>5. CASE k + 1 # Nodes * M /\ Go(w, "start", Append(got, 1))
    <3>1. /\ exec'[w].at = "start" /\ exec'[w].got = Append(got, 1) /\ exec'[w].part = "target"
          /\ exec'[w].args = exec[w].args /\ Config(w)' = g
      BY ZenonT(30), <1>0, <2>2, <2>5, GoFacts, ServiceFacts
    <3>2. k + 1 < Nodes * M
      <4>. PICK n : n = Nodes * M
        OBVIOUS
      <4>1. n \in Nat
        BY <1>3, <1>4, Product
      <4>2. k < n /\ k + 1 # n
        BY <1>2, <2>5
      <4>. QED BY <1>4, <4>1, <4>2
    <3>3. AtServers(w)'
      <4>1. Done(w)' = k + 1 /\ NodesOf(w)' = nodes /\ Config(w)'.services = services
        BY <1>4, <3>1 DEF Done, NodesOf
      <4>2. \A i \in 1 .. Nodes, j \in DOMAIN services :
              Nth(w, i, j)' <= k + 1 => <<ServiceAt(w, j)', nodes[i]>> \in targets'
        BY <1>3, <2>3, <4>1 DEF Nth, ServiceAt
      <4>3. exec'[w].got \in Seq(Nat) /\ Done(w)' < Nodes * Len(Config(w)'.services)
        BY <1>4, <3>1, <3>2, <4>1
      <4>. QED BY <3>1, <4>1, <4>2, <4>3 DEF AtServers, At
    <3>. QED BY <1>0, <2>2, <2>5, <3>1, <3>3, Elsewhere3, GoKeeps DEF Place
  <2>. QED BY <1>8, <2>4, <2>5
<1>. QED BY <1>1, <1>4, <1>7, <1>8 DEF TargetRegister

-----------------------------------------------------------------------------
(* All steps.                                                              *)

LEMMA AwsKeepsJ ==
  ASSUME IInv, JInv, Aws
  PROVE  JInv'
<1>0. UNCHANGED <<engine, results, exec>> /\ Types
  BY DEF Aws, JInv
<1>1. ASSUME NEW i \in DOMAIN certs, Validated(i), UNCHANGED <<networkVars, serverVars>>
      PROVE  JInv'
  <2>1. PICK st : /\ st \in {"pending", "issued", "timed out"}
                  /\ certs' = [certs EXCEPT ![i] = st]
    BY <1>1, Zenon DEF Validated
  <2>2. certs \in Seq({"pending", "issued", "timed out"})
    BY <1>0, Zenon DEF Types, FrontendTypes
  <2>3. PICK S : S = {"pending", "issued", "timed out"}
    OBVIOUS
  <2>4. certs' \in Seq({"pending", "issued", "timed out"}) /\ Len(certs) <= Len(certs')
    <3>1. certs \in Seq(S) /\ i \in DOMAIN certs /\ st \in S
      BY <1>1, <2>1, <2>2, <2>3, Zenon
    <3>2. [certs EXCEPT ![i] = st] \in Seq(S)
      BY <3>1, Replaced
    <3>3. Len([certs EXCEPT ![i] = st]) = Len(certs)
      BY <3>1, Replaced
    <3>4. Len(certs) \in Nat
      BY <3>1, SeqDomain, Zenon
    <3>5. \A n \in Nat : n <= n
      OBVIOUS
    <3>6. Len(certs) <= Len(certs')
      BY <2>1, <3>3, <3>4, <3>5, Zenon
    <3>. QED BY <2>1, <2>3, <3>2, <3>6, Zenon
  <2>5. UNCHANGED <<record, lbs, listeners, rules, default, tgs, vpcs>>
    BY <1>1 DEF Validated, networkVars
  <2>6. FrontendTypes'
    BY <1>0, <2>4, <2>5, FrontendSame, Zenon DEF Types, FrontendTypes
  <2>7. FrontendGrows
    BY <1>0, <2>4, <2>5, FrontendSame DEF FrontendGrows
  <2>. QED BY <1>0, <1>1, <2>6, <2>7, ByFrontend, Alone
<1>2. ASSUME NEW s \in DOMAIN servers, Proceeds(s), UNCHANGED <<networkVars, frontVars>>
      PROVE  JInv'
  <2>1. PICK st \in States : servers' = [servers EXCEPT ![s].state = st] /\ targets' = targets
    BY <1>2 DEF Proceeds, States
  <2>2. servers \in Seq(Server) /\ targets \subseteq Services \X DOMAIN servers
    BY <1>0 DEF Types, ServerTypes
  <2>3. \A r \in Server : [r EXCEPT !.state = st] \in Server
    BY DEF Server
  <2>4. servers[s] \in Server /\ [servers[s] EXCEPT !.state = st] \in Server
    BY <2>2, <2>3
  <2>5. servers' \in Seq(Server) /\ Len(servers') = Len(servers) /\ DOMAIN servers' = DOMAIN servers
        /\ Len(servers) \in Nat
    BY <2>1, <2>2, <2>4
  <2>6. ServerTypes' /\ ServersGrow
    BY <2>1, <2>2, <2>5 DEF ServerTypes, ServersGrow, Server
  <2>. QED BY <1>0, <1>2, <2>6, ByServers, Alone
<1>. QED BY <1>1, <1>2 DEF Aws

LEMMA StepKeepsJ ==
  ASSUME IInv, JInv, NEW w \in Workers, Step(w) \/ UpdateIgnored(w)
  PROVE  JInv'
<1>1. CASE NetworkStep(w) /\ UNCHANGED <<frontVars, serverVars, engine>>
  BY <1>1, VpcKeepsJ, SubnetKeepsJ, GatewayKeepsJ, GroupKeepsJ, UniqueKeepsJ
  DEF NetworkStep
<1>2. CASE FrontendStep(w) /\ UNCHANGED <<networkVars, serverVars, engine>>
  <2>1. EngineTypes' /\ UNCHANGED <<slice, runs>>
    BY <1>2 DEF engine, JInv, Types, EngineTypes
  <2>. QED
    BY <1>2, <2>1, CertKeepsJ, LoadbalancerKeepsJ, ListenerKeepsJ, TargetGroupKeepsJ, RuleKeepsJ
    DEF FrontendStep
<1>3. CASE ServerStep(w) /\ UNCHANGED <<networkVars, frontVars, engine>>
  BY <1>3, NodeKeepsJ, CleanupKeepsJ, TargetKeepsJ DEF ServerStep
<1>4. CASE UpdateIgnored(w)
  <2>1. EngineTypes' /\ UNCHANGED <<slice, runs, networkVars, serverVars>>
    BY <1>4 DEF UpdateIgnored, JInv, Types, EngineTypes
  <2>. QED BY <1>4, <2>1, TargetGroupKeepsJ DEF UpdateIgnored
<1>. QED BY <1>1, <1>2, <1>3, <1>4 DEF Step

LEMMA NextJInv == IInv /\ JInv /\ [Next]_vars => JInv'
<1> SUFFICES ASSUME IInv, JInv, [Next]_vars PROVE JInv'
  OBVIOUS
<1>1. ASSUME NEW c \in Clusters, Provision(c), UNCHANGED account PROVE JInv'
  BY <1>1, ProvisionKeepsJ
<1>2. ASSUME NEW w \in Workers, NEW c \in Clusters, NEW p \in Parts,
             Begin(w, c, p), UNCHANGED account
      PROVE  JInv'
  BY <1>2, BeginKeepsJ
<1>3. ASSUME NEW w \in Workers, Stop(w), UNCHANGED account PROVE JInv'
  BY <1>3, StopKeepsJ
<1>4. ASSUME NEW w \in Workers, Step(w) \/ UpdateIgnored(w) PROVE JInv'
  BY <1>4, StepKeepsJ
<1>5. CASE Aws
  BY <1>5, AwsKeepsJ
<1>6. CASE UNCHANGED vars
  <2>1. UNCHANGED <<account, engine>> /\ UNCHANGED <<runs, exec, results>>
    BY <1>6 DEF vars, engine
  <2>. QED BY <2>1, Quiet, Alone
<1>. QED
  BY <1>1, <1>2, <1>3, <1>4, <1>5, <1>6 DEF Next

LEMMA InitJInv == Init => JInv
<1> SUFFICES ASSUME Init PROVE JInv
  OBVIOUS
<1>1. /\ slice \in Slices /\ runs = [c \in Clusters |-> <<>>]
      /\ results = [c \in Clusters |-> Before] /\ exec = [w \in Workers |-> Idle]
      /\ faults = 0
  BY DEF Init, InitEngine
<1>2. SliceOk(slice)
  BY <1>1, ProvisioningAssumption
<1>. PICK done : done = slice.done
  OBVIOUS
<1>3. /\ done \cap slice.parts = {} /\ "ig" \notin done /\ "node" \notin done
      /\ "sn" \in done => "vpc" \in done
      /\ "lbsg" \in done => "vpc" \in done
      /\ "lb" \in done => "vpc" \in done
  <2>1. \A p \in done : Needs[p] \subseteq done
    BY <1>2 DEF SliceOk
  <2>2. Needs["sn"] = {"vpc"} /\ Needs["lbsg"] = {"vpc"} /\ Needs["lb"] = {"sn", "lbsg"}
    BY DEF Needs
  <2>3. done \cap slice.parts = {} /\ "ig" \notin done /\ "node" \notin done
    BY <1>2 DEF SliceOk
  <2>. QED BY <2>1, <2>2, <2>3
<1>4. EngineTypes
  <2>1. <<>> \in Seq(slice.configs)
    OBVIOUS
  <2>. QED BY <1>1, <2>1 DEF EngineTypes
<1>5. /\ vpcs = IF "vpc" \in done THEN 1 ELSE 0
      /\ named = 1 .. vpcs
      /\ subnets = IF "sn" \in done THEN {1} \X Zones ELSE {}
      /\ igs = <<>> /\ routes = {}
      /\ groups \in IF "lbsg" \in done THEN {{1}}
                    ELSE IF "vpc" \in done THEN {{}, {1}} ELSE {{}}
      /\ \E ps \in (IF "lbsg" \in done THEN {Access} ELSE Occupied) : open = groups \X ps
  BY DEF Init, InitNetwork
<1>6. NetworkTypes
  <2>1. vpcs \in Nat /\ groups \subseteq 1 .. vpcs /\ ("sn" \in done => 1 \in 1 .. vpcs)
    BY <1>3, <1>5
  <2>2. open \subseteq groups \X (Access \cup {Foreign})
    BY <1>5, ProvisioningAssumption
  <2>3. subnets \subseteq (1 .. vpcs) \X Zones
    BY <1>5, <2>1
  <2>4. igs \in Seq(0 .. vpcs) /\ DOMAIN igs = {}
    BY <1>5
  <2>. QED BY <1>5, <2>1, <2>2, <2>3, <2>4 DEF NetworkTypes
<1>7. FrontendTypes /\ ("cert" \in done => 1 \in DOMAIN certs)
  <2>1. /\ certs = IF "cert" \in done THEN <<"issued">> ELSE <<>>
        /\ record = ("cert" \in done)
        /\ lbs = [c \in Clusters |-> IF "lb" \in done THEN 1 ELSE 0]
        /\ listeners = [c \in Clusters |-> IF "listener" \in done THEN {80, 443} ELSE {}]
        /\ rules = [c \in Clusters |-> <<>>]
        /\ default = [c \in Clusters |-> "404"]
        /\ tgs \in [Clusters -> [Services ->
                     IF "tg" \in done THEN Paths
                     ELSE IF "tg" \in slice.parts THEN Paths \cup {None} ELSE {None}]]
    BY DEF Init, InitFrontend
  <2>2. certs \in Seq({"pending", "issued", "timed out"})
    <3>1. "issued" \in {"pending", "issued", "timed out"}
      OBVIOUS
    <3>2. \A S : \A e \in S : <<>> \in Seq(S) /\ <<e>> \in Seq(S)
      OBVIOUS
    <3>. QED BY <2>1, <3>1, <3>2, Zenon
  <2>3. record \in BOOLEAN
    BY <2>1
  <2>4. lbs \in [Clusters -> 0 .. vpcs]
    BY <1>3, <1>5, <2>1
  <2>5. listeners \in [Clusters -> SUBSET {80, 443}]
    BY <2>1
  <2>6. rules \in [Clusters -> Seq(Services)]
    <3>1. <<>> \in Seq(Services)
      OBVIOUS
    <3>. QED BY <2>1, <3>1
  <2>7. default \in [Clusters -> Services \cup {"404"}]
    BY <2>1
  <2>8. tgs \in [Clusters -> [Services -> Paths \cup {None}]]
    BY <2>1
  <2>9. "cert" \in done => 1 \in DOMAIN certs
    BY <2>1
  <2>. QED BY <2>2, <2>3, <2>4, <2>5, <2>6, <2>7, <2>8, <2>9, Zenon DEF FrontendTypes
<1>8. ServerTypes
  <2>1. /\ servers = <<>> \/ \E c \in Clusters, z \in Sizes :
             servers = [n \in 1 .. Nodes |->
                         [cluster |-> c, node |-> n, size |-> z, state |-> "running"]]
        /\ targets = {}
    BY DEF Init, InitServers
  <2>2. servers \in Seq(Server)
    <3>1. CASE servers = <<>>
      BY <3>1
    <3>2. ASSUME NEW c \in Clusters, NEW z \in Sizes,
                 servers = [n \in 1 .. Nodes |->
                             [cluster |-> c, node |-> n, size |-> z, state |-> "running"]]
          PROVE  servers \in Seq(Server)
      <4>1. \A n \in 1 .. Nodes :
              [cluster |-> c, node |-> n, size |-> z, state |-> "running"] \in Server
        BY DEF Server, States
      <4>2. servers \in [1 .. Nodes -> Server]
        BY <3>2, <4>1
      <4>. QED BY <4>2, ProvisioningAssumption
    <3>. QED BY <2>1, <3>1, <3>2
  <2>. QED BY <2>1, <2>2 DEF ServerTypes
<1>9. Made
  <2>1. ASSUME "sn" \in done PROVE SubnetsOf(1) = Zones
    BY <1>5, <2>1 DEF SubnetsOf
  <2>2. ASSUME "lbsg" \in done PROVE 1 \in groups /\ OpenIn(1) = Access
    BY <1>5, <2>2 DEF OpenIn
  <2>3. ASSUME NEW p \in done PROVE Promise(p, << 1 >>)
    <3>1. << 1 >>[1] = 1
      OBVIOUS
    <3>2. "vpc" \in done => 1 \in 1 .. vpcs
      BY <1>5
    <3>. QED BY <1>3, <1>7, <2>1, <2>2, <3>1, <3>2 DEF Promise
  <2>. QED BY <2>3 DEF Made
<1>10. Reported
  <2>1. ASSUME NEW c \in Clusters, NEW p \in Parts, NEW r \in results[c][p]
        PROVE  p \in done /\ r = << 1 >>
    BY <1>1, <2>1 DEF Before
  <2>. QED BY <1>3, <1>9, <2>1 DEF Reported, Made
<1>11. Known
  BY <1>1 DEF Known
<1>. QED
  BY <1>4, <1>6, <1>7, <1>8, <1>9, <1>10, <1>11 DEF JInv, Types

(* The state of workers, engine and account has its type: the ids workers  *)
(* carry between the calls of vpc.go, ig.go, rule.go and server.go are of  *)
(* what there is.                                                          *)
THEOREM TypeCorrect == Spec => []TypeOK
<1>1. IInv /\ JInv => TypeOK
  <2> SUFFICES ASSUME IInv, JInv PROVE TypeOK
    OBVIOUS
  <2>1. \A c \in Clusters : DOMAIN results[c] = Parts
    BY DEF IInv, Forms
  <2>2. slice \in Slices /\ runs \in [Clusters -> Seq(slice.configs)]
    BY DEF JInv, Types, EngineTypes
  <2>3. \A w \in Workers : exec[w] = Idle \/ Working(w)
    BY DEF JInv, Known
  <2>4. /\ vpcs \in Nat /\ named \subseteq 1 .. vpcs
        /\ subnets \subseteq (1 .. vpcs) \X Zones
        /\ igs \in Seq(0 .. vpcs)
        /\ routes \subseteq (1 .. vpcs) \X {Dests[1], Dests[2]} \X DOMAIN igs
        /\ groups \subseteq 1 .. vpcs
        /\ open \subseteq groups \X (Access \cup {Foreign})
    BY DEF JInv, Types, NetworkTypes, AllDests
  <2>5. FrontendTypes /\ ServerTypes
    BY DEF JInv, Types
  <2>. QED
    BY <2>1, <2>2, <2>3, <2>4, <2>5, Zenon
    DEF TypeOK, Working, FrontendTypes, ServerTypes, Server
<1>2. Init => IInv /\ JInv
  BY InitIInv, InitJInv
<1>3. IInv /\ JInv /\ [Next]_vars => (IInv /\ JInv)'
  BY NextIInv, NextJInv
<1>. QED BY <1>1, <1>2, <1>3, PTL DEF Spec

(* What a part reports as made is there and stays there, whatever the      *)
(* other executions do: the subnets of vpc/subnet.go, the routes of        *)
(* vpc/ig.go, the rules of loadbalancer/rule.go, the targets of target.go. *)
THEOREM ResultsStay == Spec => []ResultsHold
<1>1. IInv /\ JInv => ResultsHold
  <2> SUFFICES ASSUME IInv, JInv, NEW c \in Clusters
      PROVE
        /\ \A v \in Returned(c, "vpc") : v \in 1 .. vpcs
        /\ \A v \in Returned(c, "sn") : SubnetsOf(v) = Zones
        /\ \A i \in Returned(c, "ig") : \A d \in {Dests[1], Dests[2]} :
             <<igs[i], d, i>> \in routes
        /\ \A v \in Returned(c, "lbsg") : OpenIn(v) = Access
        /\ Returned(c, "listener") # {} => 443 \in listeners[c]
        /\ Returned(c, "tg") # {} => \A s \in ServicesOf(c) : tgs[c][s] # None
        /\ Returned(c, "rule") # {} =>
             IF Current(c).frontend THEN default[c] # "404"
             ELSE \A s \in ServicesOf(c) : \E i \in DOMAIN rules[c] : rules[c][i] = s
        /\ "target" \in slice.parts =>
             \A ids \in results[c]["target"] : \A i \in DOMAIN ids :
               ServicesOf(c) \X {ids[i]} \subseteq targets
    BY DEF ResultsHold
  <2>1. ASSUME NEW p \in Parts, NEW v \in Returned(c, p)
        PROVE  \E r \in results[c][p] :
                 r[1] = v /\ Promise(p, r) /\ RunPromise(c, p, r, Current(c))
    BY <2>1 DEF Returned, Result, JInv, Reported
  <2>2. {"vpc", "sn", "ig", "lbsg", "listener", "tg", "rule", "target"} \subseteq Parts
    BY DEF Parts, Needs
  <2>3. ServicesOf(c) = {Current(c).services[i] : i \in DOMAIN Current(c).services}
    BY DEF ServicesOf
  <2>4. \A v \in Returned(c, "vpc") : v \in 1 .. vpcs
    BY <2>1, <2>2 DEF Promise
  <2>5. \A v \in Returned(c, "sn") : SubnetsOf(v) = Zones
    BY <2>1, <2>2 DEF Promise
  <2>6. \A i \in Returned(c, "ig") : \A d \in {Dests[1], Dests[2]} : <<igs[i], d, i>> \in routes
    BY <2>1, <2>2 DEF Promise, Routed, AllDests
  <2>7. \A v \in Returned(c, "lbsg") : OpenIn(v) = Access
    BY <2>1, <2>2 DEF Promise
  <2>8. Returned(c, "listener") # {} => 443 \in listeners[c]
    BY <2>1, <2>2 DEF RunPromise
  <2>9. Returned(c, "tg") # {} => \A s \in ServicesOf(c) : tgs[c][s] # None
    BY <2>1, <2>2, <2>3 DEF RunPromise, HasGroup
  <2>10. Returned(c, "rule") # {} =>
           IF Current(c).frontend THEN default[c] # "404"
           ELSE \A s \in ServicesOf(c) : \E i \in DOMAIN rules[c] : rules[c][i] = s
    BY <2>1, <2>2, <2>3 DEF RunPromise, HasRule
  <2>11. ASSUME "target" \in slice.parts, NEW ids \in results[c]["target"], NEW i \in DOMAIN ids
         PROVE  ServicesOf(c) \X {ids[i]} \subseteq targets
    <3>1. RunPromise(c, "target", ids, Current(c))
      BY <2>2, <2>11 DEF JInv, Reported
    <3>. QED BY <2>3, <3>1 DEF RunPromise
  <2>. QED BY <2>4, <2>5, <2>6, <2>7, <2>8, <2>9, <2>10, <2>11
<1>2. Init => IInv /\ JInv
  BY InitIInv, InitJInv
<1>3. IInv /\ JInv /\ [Next]_vars => (IInv /\ JInv)'
  BY NextIInv, NextJInv
<1>. QED BY <1>1, <1>2, <1>3, PTL DEF Spec

-----------------------------------------------------------------------------
(* A node that is served stays served.  What a worker that cleans up knows *)
(* between looking and deleting: the servers it has still to terminate are *)
(* of the node and of another size, and as long as the runs of the cluster *)
(* want one size, a server of that size runs.                              *)

Serves(c, n, z, t) ==
  /\ t \in DOMAIN servers
  /\ servers[t].cluster = c /\ servers[t].node = n /\ servers[t].size = z
  /\ servers[t].state = "running"

Spared(w) ==
  At(w, "cleanup", "delete") =>
    /\ \A s \in exec[w].got[Done(w)] :
         /\ servers[s].cluster = exec[w].cluster /\ servers[s].node = Done(w)
         /\ servers[s].size # Config(w).size
    /\ OneSize(exec[w].cluster) =>
         \E t : Serves(exec[w].cluster, Done(w), Config(w).size, t)

KInv == \A w \in Workers : Spared(w)

(* A server stays what it is, and runs on.                                 *)
SameServer(s) ==
  /\ s \in DOMAIN servers'
  /\ servers'[s].cluster = servers[s].cluster /\ servers'[s].node = servers[s].node
  /\ servers'[s].size = servers[s].size

Kept == \A s \in DOMAIN servers :
  SameServer(s) /\ (servers[s].state = "running" => servers'[s].state = "running")

LEMMA CleanupIs ==
  ASSUME NEW w \in Workers, Step(w) \/ UpdateIgnored(w), exec[w].part = "cleanup"
  PROVE  CleanupLook(w) \/ CleanupDelete(w)
<1>1. ~NetworkStep(w)
  BY DEF NetworkStep, VpcLook, VpcCreate, VpcModify, VpcRead, SubnetLook, SubnetCreate,
     SubnetRead, GatewayLook, GatewayCreate, GatewayAttach, TableRead, RouteCreate, GroupLook,
     GroupCreate, GroupRules, GroupOpen, UniqueLook, UniqueCreate, At
<1>2. ~FrontendStep(w) /\ ~UpdateIgnored(w)
  BY DEF FrontendStep, CertLook, CertLookAgain, CertRequest, CertValidation, CertRecord,
     CertWait, CertRead, LoadbalancerCreate, ListenerLook, ListenerCreate, ListenerRedirect,
     TargetGroupLook, TargetGroupCreate, TargetGroupUpdate, TargetGroupUpdateFails,
     RuleDefault, RuleLook, RuleCreate, UpdateIgnored, At
<1>3. ~NodeLook(w) /\ ~NodeCreate(w) /\ ~TargetRegister(w)
  BY DEF NodeLook, NodeCreate, TargetRegister, At
<1>. QED BY <1>1, <1>2, <1>3 DEF Step, ServerStep

LEMMA KeptSame ==
  ASSUME servers' = servers
  PROVE  Kept
  BY DEF Kept, SameServer

(* Only cleanup terminates a server.                                       *)
LEMMA StepKept ==
  ASSUME JInv, NEW w \in Workers, Step(w) \/ UpdateIgnored(w)
  PROVE  Kept \/ CleanupDelete(w)
<1>1. servers \in Seq(Server)
  BY DEF JInv, Types, ServerTypes
<1>2. CASE NodeCreate(w)
  <2>. PICK s : servers' = Append(servers, s)
    BY <1>2 DEF NodeCreate
  <2>1. /\ DOMAIN servers = 1 .. Len(servers) /\ Len(servers) \in Nat
        /\ DOMAIN servers' = 1 .. Len(servers) + 1
        /\ \A i \in 1 .. Len(servers) : servers'[i] = servers[i]
    BY <1>1
  <2>. QED BY <2>1 DEF Kept, SameServer
<1>3. CASE ~NodeCreate(w) /\ ~CleanupDelete(w)
  <2>1. servers' = servers
    BY <1>3 DEF Step, ServerStep, UpdateIgnored, NodeLook, CleanupLook, CleanupWith,
       TargetRegister, serverVars
  <2>. QED BY <2>1, KeptSame
<1>. QED BY <1>2, <1>3

LEMMA AwsKept ==
  ASSUME JInv, Aws
  PROVE  Kept
<1>1. CASE servers' = servers
  BY <1>1, KeptSame
<1>2. ASSUME NEW s \in DOMAIN servers, Proceeds(s)
      PROVE  Kept
  <2>1. servers \in Seq(Server)
    BY DEF JInv, Types, ServerTypes
  <2>2. PICK st : /\ servers' = [servers EXCEPT ![s].state = st]
                  /\ servers[s].state # "running"
    BY <1>2 DEF Proceeds
  <2>3. servers[s] \in Server
    BY <2>1
  <2>4. /\ servers'[s].cluster = servers[s].cluster /\ servers'[s].node = servers[s].node
        /\ servers'[s].size = servers[s].size
    BY <2>1, <2>2, <2>3 DEF Server
  <2>5. DOMAIN servers' = DOMAIN servers /\ \A t \in DOMAIN servers \ {s} : servers'[t] = servers[t]
    BY <2>1, <2>2
  <2>. QED BY <2>2, <2>4, <2>5 DEF Kept, SameServer
<1>. QED BY <1>1, <1>2 DEF Aws, serverVars

LEMMA ServesKept ==
  ASSUME Kept, NEW c, NEW n, NEW z, NEW t, Serves(c, n, z, t)
  PROVE  Serves(c, n, z, t)'
  BY DEF Kept, SameServer, Serves

LEMMA OneSizeBefore ==
  ASSUME Types, Types', RunsGrow, NEW c \in Clusters, OneSize(c)'
  PROVE  OneSize(c)
<1>1. DOMAIN runs[c] = 1 .. Len(runs[c]) /\ DOMAIN runs'[c] = 1 .. Len(runs'[c])
      /\ Len(runs[c]) \in Nat /\ Len(runs'[c]) \in Nat
  BY DEF Types, EngineTypes
<1>. QED BY <1>1 DEF OneSize, RunsGrow

LEMMA NextRuns ==
  ASSUME JInv, [Next]_vars
  PROVE  RunsGrow
<1>1. CASE \E c \in Clusters : Provision(c)
  BY <1>1, ProvisionRuns
<1>2. CASE UNCHANGED <<slice, runs>>
  BY <1>2, SameRuns DEF JInv
<1>. QED
  BY <1>1, <1>2 DEF Next, Begin, Stop, Step, UpdateIgnored, Aws, vars, engine

(* The deleting step leaves every server alone but one of its own, which   *)
(* is of a size the cluster does not want.                                 *)
LEMMA DeleteSpares ==
  ASSUME JInv, KInv, NEW w \in Workers, CleanupDelete(w)
  PROVE  \E s \in DOMAIN servers :
           /\ servers[s].cluster = exec[w].cluster /\ servers[s].node = Done(w)
           /\ servers[s].size # Config(w).size
           /\ \A t \in DOMAIN servers : SameServer(t)
           /\ \A t \in DOMAIN servers \ {s} : servers'[t] = servers[t]
<1>1. PICK s : /\ s \in exec[w].got[Done(w)]
               /\ servers' = [servers EXCEPT ![s].state = "terminated"]
  BY DEF CleanupDelete, Done
<1>2. /\ exec[w].got \in Seq(SUBSET DOMAIN servers) /\ Done(w) \in 1 .. Nodes
      /\ servers \in Seq(Server)
  <2>1. exec[w].at # "idle" /\ At(w, "cleanup", "delete")
    BY DEF CleanupDelete, At
  <2>. QED BY <2>1, KnownFacts DEF AtServers, Types, ServerTypes
<1>3. s \in DOMAIN servers
  BY <1>1, <1>2 DEF Done
<1>4. /\ servers[s].cluster = exec[w].cluster /\ servers[s].node = Done(w)
      /\ servers[s].size # Config(w).size
  BY <1>1 DEF KInv, Spared, CleanupDelete
<1>5. servers[s] \in Server
  BY <1>2, <1>3
<1>6. DOMAIN servers' = DOMAIN servers /\ \A t \in DOMAIN servers \ {s} : servers'[t] = servers[t]
  BY <1>1, <1>2
<1>7. SameServer(s)
  BY <1>1, <1>2, <1>3, <1>5 DEF SameServer, Server
<1>. QED BY <1>3, <1>4, <1>6, <1>7 DEF SameServer

LEMMA SizeOf ==
  ASSUME JInv, NEW c \in Clusters, OneSize(c), NEW u \in Workers, NEW w \in Workers,
         exec[u].at # "idle", exec[w].at # "idle", exec[u].cluster = c, exec[w].cluster = c
  PROVE  Config(u).size = Config(w).size
<1>1. exec[u].run \in 1 .. Len(runs[c]) /\ exec[w].run \in 1 .. Len(runs[c])
  BY KnownFacts DEF Working
<1>2. DOMAIN runs[c] = 1 .. Len(runs[c])
  BY DEF JInv, Types, EngineTypes
<1>. QED BY <1>1, <1>2 DEF OneSize, Config

(* What a worker knows before it deletes holds after any step.             *)
LEMMA SparesOn ==
  ASSUME JInv, KInv, Types', RunsGrow, NEW u \in Workers, At(u, "cleanup", "delete"),
         NEW c, NEW n, NEW z, NEW got,
         c = exec[u].cluster, n = Done(u), z = Config(u).size, got = exec[u].got,
         Kept \/ \E w \in Workers : CleanupDelete(w)
  PROVE  /\ \A s \in got[n] : /\ servers'[s].cluster = c /\ servers'[s].node = n
                              /\ servers'[s].size # z
         /\ OneSize(c)' => \E t : Serves(c, n, z, t)'
<1>0. exec[u].at # "idle" /\ Types /\ c \in Clusters
  BY ServiceFacts DEF At, JInv
<1>2. /\ \A s \in got[n] : /\ servers[s].cluster = c /\ servers[s].node = n
                           /\ servers[s].size # z
      /\ OneSize(c) => \E t : Serves(c, n, z, t)
  BY DEF KInv, Spared
<1>3. got[n] \subseteq DOMAIN servers
  <2>1. got \in Seq(SUBSET DOMAIN servers) /\ n \in 1 .. Nodes /\ n = Len(got)
    BY <1>0, KnownFacts DEF AtServers, Done
  <2>. QED BY <2>1
<1>4. OneSize(c)' => OneSize(c)
  BY <1>0, OneSizeBefore
<1>5. CASE Kept
  <2>1. \A s \in got[n] : /\ servers'[s].cluster = c /\ servers'[s].node = n
                          /\ servers'[s].size # z
    BY <1>2, <1>3, <1>5 DEF Kept, SameServer
  <2>2. OneSize(c)' => \E t : Serves(c, n, z, t)'
    BY <1>2, <1>4, <1>5, ServesKept
  <2>. QED BY <2>1, <2>2
<1>6. ASSUME NEW w \in Workers, CleanupDelete(w)
      PROVE  /\ \A s \in got[n] : /\ servers'[s].cluster = c /\ servers'[s].node = n
                                  /\ servers'[s].size # z
             /\ OneSize(c)' => \E t : Serves(c, n, z, t)'
  <2>1. PICK s \in DOMAIN servers :
           /\ servers[s].cluster = exec[w].cluster /\ servers[s].node = Done(w)
           /\ servers[s].size # Config(w).size
           /\ \A t \in DOMAIN servers : SameServer(t)
           /\ \A t \in DOMAIN servers \ {s} : servers'[t] = servers[t]
    BY <1>6, DeleteSpares
  <2>2. \A t \in got[n] : /\ servers'[t].cluster = c /\ servers'[t].node = n
                          /\ servers'[t].size # z
    BY <1>2, <1>3, <2>1 DEF SameServer
  <2>3. ASSUME OneSize(c)' PROVE \E t : Serves(c, n, z, t)'
    <3>1. PICK t : Serves(c, n, z, t)
      BY <1>2, <1>4, <2>3
    <3>2. t # s
      <4>1. exec[w].at # "idle"
        BY <1>6 DEF CleanupDelete, At
      <4>2. exec[w].cluster = c => Config(w).size = z
        BY <1>0, <1>4, <2>3, <4>1, SizeOf DEF JInv
      <4>. QED BY <2>1, <3>1, <4>2 DEF Serves
    <3>3. Serves(c, n, z, t)'
      BY <2>1, <3>1, <3>2 DEF Serves, SameServer
    <3>. QED BY <3>3
  <2>. QED BY <2>2, <2>3
<1>. QED BY <1>5, <1>6

LEMMA SparedKept ==
  ASSUME JInv, KInv, Types', RunsGrow, NEW u \in Workers, exec'[u] = exec[u],
         Kept \/ \E w \in Workers : CleanupDelete(w)
  PROVE  Spared(u)'
<1>. SUFFICES ASSUME At(u, "cleanup", "delete")
     PROVE  Spared(u)'
  BY DEF Spared, At
<1>. PICK c, n, z, got :
       c = exec[u].cluster /\ n = Done(u) /\ z = Config(u).size /\ got = exec[u].got
  OBVIOUS
<1>1. Types /\ Working(u)
  BY KnownFacts DEF At, JInv
<1>2. exec'[u].cluster = c /\ Done(u)' = n /\ Config(u)'.size = z /\ exec'[u].got = got
  BY <1>1, ConfigKept DEF Done
<1>3. /\ \A s \in got[n] : /\ servers'[s].cluster = c /\ servers'[s].node = n
                           /\ servers'[s].size # z
      /\ OneSize(c)' => \E t : Serves(c, n, z, t)'
  BY SparesOn
<1>. QED BY <1>2, <1>3 DEF Spared, Serves, OneSize

LEMMA NextKInv == IInv /\ JInv /\ KInv /\ [Next]_vars => KInv'
<1> SUFFICES ASSUME IInv, JInv, KInv, [Next]_vars PROVE KInv'
  OBVIOUS
<1>1. Types' /\ RunsGrow
  BY NextJInv, NextRuns DEF JInv
<1>2. ASSUME Kept, exec' = exec PROVE KInv'
  BY <1>1, <1>2, SparedKept DEF KInv
<1>3. ASSUME NEW w \in Workers, \A u \in Workers \ {w} : exec'[u] = exec[u],
             Kept \/ CleanupDelete(w), Spared(w)'
      PROVE  KInv'
  <2>1. \A u \in Workers \ {w} : Spared(u)'
    BY <1>1, <1>3, SparedKept
  <2>. QED BY <1>3, <2>1 DEF KInv
<1>4. ASSUME NEW c \in Clusters, Provision(c), UNCHANGED account PROVE KInv'
  BY <1>2, <1>4, KeptSame DEF Provision, account, serverVars
<1>5. ASSUME NEW w \in Workers, NEW c \in Clusters, NEW p \in Parts,
             Begin(w, c, p), UNCHANGED account
      PROVE  KInv'
  <2>1. PICK e : e.at = "start" /\ exec' = [exec EXCEPT ![w] = e]
    BY <1>5 DEF Begin
  <2>2. exec'[w] = e /\ \A u \in Workers \ {w} : exec'[u] = exec[u]
    BY <2>1 DEF IInv, Forms
  <2>3. Spared(w)'
    BY <2>1, <2>2 DEF Spared, At
  <2>. QED BY <1>3, <1>5, <2>2, <2>3, KeptSame DEF account, serverVars
<1>6. ASSUME NEW w \in Workers, Stop(w), UNCHANGED account PROVE KInv'
  <2>1. exec'[w] = Idle /\ \A u \in Workers \ {w} : exec'[u] = exec[u]
    BY <1>6 DEF Stop, IInv, Forms
  <2>2. Spared(w)'
    BY <2>1 DEF Spared, At, Idle
  <2>. QED BY <1>3, <1>6, <2>1, <2>2, KeptSame DEF account, serverVars
<1>7. ASSUME NEW w \in Workers, Step(w) \/ UpdateIgnored(w) PROVE KInv'
  <2>1. Works(w) /\ exec[w].at # "idle" /\ (Kept \/ CleanupDelete(w))
    BY <1>7, StepWorks, StepKept
  <2>2. \A u \in Workers \ {w} : exec'[u] = exec[u]
    BY <2>1 DEF Works
  <2>. SUFFICES Spared(w)'
    BY <1>3, <2>1, <2>2
  <2>3. CASE exec'[w] = Idle \/ exec[w].part # "cleanup"
    BY <2>1, <2>3 DEF Works, Spared, At, Idle
  <2>. PICK c, z, old : c = exec[w].cluster /\ z = Config(w).size /\ old = exec[w].got
    OBVIOUS
  <2>4. ASSUME exec'[w] # Idle, exec[w].part = "cleanup"
        PROVE  exec'[w].cluster = c /\ Config(w)'.size = z
    <3>1. Types /\ Working(w)
      BY <2>1, KnownFacts
    <3>. QED BY <1>1, <2>1, <2>4, <3>1, ConfigKept DEF Works
  <2>5. vpcs' \in Nat
    BY <1>1 DEF Types, NetworkTypes
  <2>6. CASE exec'[w] # Idle /\ exec[w].part = "cleanup" /\ CleanupLook(w)
    <3>. PICK n, seen : n = Len(old) + 1 /\ seen = Seen(c, n)
      OBVIOUS
    <3>1. PICK doomed : /\ doomed = IF Running(OfSize(seen, z)) = {} THEN {}
                                    ELSE Running(seen \ OfSize(seen, z))
                        /\ CleanupWith(w, doomed)
      BY <2>6 DEF CleanupLook
    <3>. PICK got : got = Append(old, doomed)
      OBVIOUS
    <3>2. servers' = servers /\ (doomed = {} => AfterCleaning(w, got))
          /\ (doomed # {} => Go(w, "delete", got))
      BY <3>1 DEF CleanupWith, serverVars
    <3>3. CASE doomed = {}
      <4>1. Go(w, "start", got) \/ Finish(w, << 1 >>)
        BY <3>2, <3>3 DEF AfterCleaning
      <4>2. exec'[w].at = "start" \/ exec'[w] = Idle
        BY <2>1, <2>5, <4>1, GoWorks DEF Finish, IInv, Forms
      <4>. QED BY <4>2 DEF Spared, At, Idle
    <3>4. CASE doomed # {}
      <4>1. exec'[w].at = "delete" /\ exec'[w].got = got
        BY <2>1, <2>5, <3>2, <3>4, GoWorks
      <4>2. old \in Seq(SUBSET DOMAIN servers)
        BY <2>1, <3>1, KnownFacts DEF CleanupWith, AtServers
      <4>3. doomed \in SUBSET DOMAIN servers
        BY <3>1 DEF Running, Seen
      <4>4. Len(got) = n /\ got[n] = doomed
        BY <4>2, <4>3, Longer
      <4>5. \A s \in doomed : /\ servers[s].cluster = c /\ servers[s].node = n
                              /\ servers[s].size # z
        BY <3>1 DEF Running, OfSize, Seen
      <4>6. \E t : Serves(c, n, z, t)
        BY <3>1, <3>4 DEF Running, OfSize, Seen, Serves
      <4>7. \E t : Serves(c, n, z, t)'
        BY <3>2, <4>6 DEF Serves
      <4>. QED BY <2>4, <2>6, <3>2, <4>1, <4>4, <4>5, <4>7 DEF Spared, Done, Serves
    <3>. QED BY <3>3, <3>4
  <2>7. CASE exec'[w] # Idle /\ exec[w].part = "cleanup" /\ CleanupDelete(w)
    <3>. PICK n : n = Len(old)
      OBVIOUS
    <3>0. At(w, "cleanup", "delete") /\ Done(w) = n
      BY <2>7 DEF CleanupDelete, Done
    <3>1. PICK s : \/ AfterCleaning(w, [old EXCEPT ![n] = @ \ {s}])
                   \/ Go(w, "delete", [old EXCEPT ![n] = @ \ {s}])
      BY <2>7 DEF CleanupDelete
    <3>. PICK got : got = [old EXCEPT ![n] = @ \ {s}]
      OBVIOUS
    <3>2. old \in Seq(SUBSET DOMAIN servers) /\ n \in 1 .. Nodes
      BY <2>1, <3>0, KnownFacts DEF AtServers, Done
    <3>3. Len(got) = n /\ got[n] \subseteq old[n]
      BY <3>2
    <3>4. CASE AfterCleaning(w, got)
      <4>1. Go(w, "start", got) \/ Finish(w, << 1 >>)
        BY <3>4 DEF AfterCleaning
      <4>2. exec'[w].at = "start" \/ exec'[w] = Idle
        BY <2>1, <2>5, <4>1, GoWorks DEF Finish, IInv, Forms
      <4>. QED BY <4>2 DEF Spared, At, Idle
    <3>5. CASE Go(w, "delete", got)
      <4>1. exec'[w].at = "delete" /\ exec'[w].got = got
        BY <2>1, <2>5, <3>5, GoWorks
      <4>2. /\ \A t \in old[n] : /\ servers'[t].cluster = c /\ servers'[t].node = n
                                 /\ servers'[t].size # z
            /\ OneSize(c)' => \E t : Serves(c, n, z, t)'
        BY <1>1, <2>7, <3>0, SparesOn
      <4>. QED BY <2>4, <2>7, <3>3, <4>1, <4>2 DEF Spared, Done, Serves, OneSize
    <3>. QED BY <3>1, <3>4, <3>5
  <2>. QED BY <1>7, <2>3, <2>6, <2>7, CleanupIs
<1>8. CASE Aws
  BY <1>2, <1>8, AwsKept DEF Aws
<1>9. CASE UNCHANGED vars
  BY <1>2, <1>9, KeptSame DEF vars, account, serverVars
<1>. QED
  BY <1>4, <1>5, <1>6, <1>7, <1>8, <1>9 DEF Next

(* Cleanup does not terminate the last running server of a node, as long   *)
(* as the runs of the cluster want the same size (cleanup/execute.go).     *)
THEOREM ServedOn == Spec => StaysServed
<1>1. IInv /\ JInv /\ KInv /\ [Next]_vars =>
        [\A c \in Clusters, n \in 1 .. Nodes :
           OneSize(c) /\ Running(Seen(c, n)) # {} => (Running(Seen(c, n)) # {})']_vars
  <2> SUFFICES ASSUME IInv, JInv, KInv, [Next]_vars, NEW c \in Clusters, NEW n \in 1 .. Nodes,
                      OneSize(c), Running(Seen(c, n)) # {}
               PROVE  (Running(Seen(c, n)) # {})'
    BY DEF Running, Seen
  <2>1. PICK t, z : Serves(c, n, z, t)
    BY DEF Running, Seen, Serves
  <2>2. ASSUME NEW x, NEW y, Serves(c, n, x, y)' PROVE (Running(Seen(c, n)) # {})'
    BY <2>2 DEF Running, Seen, Serves
  <2>3. CASE Kept
    BY <2>1, <2>2, <2>3, ServesKept
  <2>4. ASSUME NEW w \in Workers, CleanupDelete(w)
        PROVE  (Running(Seen(c, n)) # {})'
    <3>1. PICK s \in DOMAIN servers :
             /\ servers[s].cluster = exec[w].cluster /\ servers[s].node = Done(w)
             /\ servers[s].size # Config(w).size
             /\ \A r \in DOMAIN servers : SameServer(r)
             /\ \A r \in DOMAIN servers \ {s} : servers'[r] = servers[r]
      BY <2>4, DeleteSpares
    <3>2. ASSUME NEW x, NEW y, Serves(c, n, x, y), y # s
          PROVE  (Running(Seen(c, n)) # {})'
      BY <2>2, <3>1, <3>2 DEF Serves, SameServer
    <3>3. CASE t = s
      <4>1. exec[w].cluster = c /\ Done(w) = n
        BY <2>1, <3>1, <3>3 DEF Serves
      <4>2. PICK y : Serves(c, n, Config(w).size, y)
        BY <2>4, <4>1 DEF KInv, Spared, CleanupDelete
      <4>. QED BY <3>1, <3>2, <4>2 DEF Serves
    <3>. QED BY <2>1, <3>2, <3>3
  <2>5. Kept \/ \E w \in Workers : CleanupDelete(w)
    <3>1. CASE \E w \in Workers : Step(w) \/ UpdateIgnored(w)
      BY <3>1, StepKept
    <3>2. CASE Aws
      BY <3>2, AwsKept
    <3>3. CASE servers' = servers
      BY <3>3, KeptSame
    <3>. QED BY <3>1, <3>2, <3>3 DEF Next, vars, account, serverVars
  <2>. QED BY <2>3, <2>4, <2>5
<1>2. Init => IInv /\ JInv /\ KInv
  <2>1. Init => KInv
    BY DEF Init, InitEngine, KInv, Spared, At, Idle
  <2>. QED BY <2>1, InitIInv, InitJInv
<1>3. IInv /\ JInv /\ KInv /\ [Next]_vars => (IInv /\ JInv /\ KInv)'
  BY NextIInv, NextJInv, NextKInv
<1>. QED BY <1>1, <1>2, <1>3, PTL DEF Spec, StaysServed

-----------------------------------------------------------------------------
(* What is made in two steps is made completely.  First, whose steps       *)
(* change what.                                                            *)

LEMMA NetworkPart ==
  ASSUME NEW w \in Workers, NetworkStep(w)
  PROVE  /\ exec[w].part \notin {"cert", "listener", "tg"}
         /\ exec[w].part = "vpc" => VpcLook(w) \/ VpcCreate(w) \/ VpcModify(w) \/ VpcRead(w)
         /\ exec[w].part # "vpc" => UNCHANGED <<vpcs, named>>
<1>1. CASE VpcLook(w) \/ VpcCreate(w) \/ VpcModify(w) \/ VpcRead(w)
  BY <1>1 DEF VpcLook, VpcCreate, VpcModify, VpcRead, At
<1>2. CASE \/ SubnetLook(w) \/ SubnetCreate(w) \/ SubnetRead(w)
           \/ GatewayLook(w) \/ GatewayCreate(w) \/ GatewayAttach(w)
           \/ TableRead(w) \/ RouteCreate(w)
  BY <1>2 DEF SubnetLook, SubnetCreate, SubnetRead, GatewayLook, GatewayCreate, GatewayAttach,
     TableRead, RouteCreate, At, networkVars
<1>3. CASE \/ GroupLook(w) \/ GroupCreate(w) \/ GroupRules(w) \/ GroupOpen(w)
           \/ UniqueLook(w) \/ UniqueCreate(w)
  BY <1>3 DEF GroupLook, GroupCreate, GroupRules, GroupOpen, UniqueLook, UniqueCreate, At,
     networkVars
<1>. QED BY <1>1, <1>2, <1>3 DEF NetworkStep

LEMMA FrontendPart ==
  ASSUME NEW w \in Workers, FrontendStep(w)
  PROVE  /\ exec[w].part # "vpc"
         /\ exec[w].part = "cert" =>
              \/ CertLook(w) \/ CertLookAgain(w) \/ CertRequest(w) \/ CertValidation(w)
              \/ CertRecord(w) \/ CertWait(w) \/ CertRead(w)
         /\ exec[w].part = "listener" =>
              ListenerLook(w) \/ ListenerCreate(w) \/ ListenerRedirect(w)
         /\ exec[w].part = "tg" =>
              TargetGroupLook(w) \/ TargetGroupCreate(w) \/ TargetGroupUpdate(w)
         /\ exec[w].part # "cert" => certs' = certs
         /\ exec[w].part # "listener" => listeners' = listeners
         /\ exec[w].part # "tg" => tgs' = tgs
<1>1. CASE \/ CertLook(w) \/ CertLookAgain(w) \/ CertRequest(w) \/ CertValidation(w)
           \/ CertRecord(w) \/ CertWait(w) \/ CertRead(w)
  BY <1>1 DEF CertLook, CertLookAgain, CertRequest, CertValidation, CertRecord, CertWait,
     CertRead, At, frontVars
<1>2. CASE ListenerLook(w) \/ ListenerCreate(w) \/ ListenerRedirect(w)
  BY <1>2 DEF ListenerLook, ListenerCreate, ListenerRedirect, Listen, At, frontVars
<1>3. CASE TargetGroupLook(w) \/ TargetGroupCreate(w) \/ TargetGroupUpdate(w)
  BY <1>3 DEF TargetGroupLook, TargetGroupCreate, TargetGroupUpdate, SetPath, At, frontVars
<1>4. CASE LoadbalancerCreate(w) \/ RuleDefault(w) \/ RuleLook(w) \/ RuleCreate(w)
  BY <1>4 DEF LoadbalancerCreate, RuleDefault, RuleLook, RuleCreate, At, frontVars
<1>. QED BY <1>1, <1>2, <1>3, <1>4 DEF FrontendStep

LEMMA StepPart ==
  ASSUME NEW w \in Workers, Step(w) \/ UpdateIgnored(w)
  PROVE  /\ UNCHANGED <<runs, slice>>
         /\ faults' = faults \/ (faults' = faults + 1 /\ TargetGroupUpdateFails(w))
         /\ exec[w].part # "vpc" => UNCHANGED <<vpcs, named>>
         /\ exec[w].part # "cert" => certs' = certs
         /\ exec[w].part # "listener" => listeners' = listeners
         /\ exec[w].part # "tg" => tgs' = tgs
         /\ exec[w].part = "vpc" => VpcLook(w) \/ VpcCreate(w) \/ VpcModify(w) \/ VpcRead(w)
         /\ exec[w].part = "cert" =>
              \/ CertLook(w) \/ CertLookAgain(w) \/ CertRequest(w) \/ CertValidation(w)
              \/ CertRecord(w) \/ CertWait(w) \/ CertRead(w)
         /\ exec[w].part = "listener" =>
              ListenerLook(w) \/ ListenerCreate(w) \/ ListenerRedirect(w)
         /\ exec[w].part = "tg" =>
              \/ TargetGroupLook(w) \/ TargetGroupCreate(w) \/ TargetGroupUpdate(w)
              \/ faults' = faults + 1
<1>1. CASE NetworkStep(w) /\ UNCHANGED <<frontVars, serverVars, engine>>
  BY <1>1, NetworkPart DEF frontVars, engine
<1>2. CASE FrontendStep(w) /\ UNCHANGED <<networkVars, serverVars, engine>>
  BY <1>2, FrontendPart DEF networkVars, engine
<1>3. CASE ServerStep(w) /\ UNCHANGED <<networkVars, frontVars, engine>>
  <2>1. exec[w].part \in {"node", "cleanup", "target"}
    BY <1>3 DEF ServerStep, NodeLook, NodeCreate, CleanupLook, CleanupWith, CleanupDelete,
       TargetRegister, At
  <2>. QED BY <1>3, <2>1 DEF networkVars, frontVars, engine
<1>4. CASE UpdateIgnored(w)
  <2>1. exec[w].part = "tg" /\ UNCHANGED <<certs, listeners, tgs, vpcs, named>>
    BY <1>4 DEF UpdateIgnored, TargetGroupUpdateFails, At, frontVars, networkVars
  <2>. QED BY <1>4, <2>1 DEF UpdateIgnored
<1>. QED BY <1>1, <1>2, <1>3, <1>4 DEF Step

(* Any step: nobody moves, or one worker begins, stops or goes on.         *)
LEMMA Moves ==
  ASSUME IInv, JInv, [Next]_vars
  PROVE  \/ /\ exec' = exec /\ UNCHANGED <<faults, vpcs, named, listeners, tgs>>
            /\ \/ UNCHANGED <<runs, results, certs>>
               \/ UNCHANGED <<runs, results>> /\ \E i \in DOMAIN certs : Validated(i)
               \/ UNCHANGED certs /\ \E c \in Clusters : Provision(c)
         \/ \E w \in Workers :
              /\ \A u \in Workers \ {w} : exec'[u] = exec[u]
              /\ UNCHANGED <<runs, results, vpcs, named, listeners, tgs, certs>>
              /\ \/ exec[w] = Idle /\ exec'[w].at = "start" /\ exec'[w].got = <<>>
                    /\ faults' = faults
                 \/ exec'[w] = Idle /\ faults' = faults + 1
         \/ \E w \in Workers : Step(w) \/ UpdateIgnored(w)
<1>1. CASE \E c \in Clusters : Provision(c) /\ UNCHANGED account
  BY <1>1 DEF Provision, account, networkVars, frontVars
<1>2. ASSUME NEW w \in Workers, NEW c \in Clusters, NEW p \in Parts,
             Begin(w, c, p), UNCHANGED account
      PROVE  /\ \A u \in Workers \ {w} : exec'[u] = exec[u]
             /\ UNCHANGED <<runs, results, vpcs, named, listeners, tgs, certs>>
             /\ exec[w] = Idle /\ exec'[w].at = "start" /\ exec'[w].got = <<>>
             /\ faults' = faults
  <2>1. PICK e : e.at = "start" /\ e.got = <<>> /\ exec' = [exec EXCEPT ![w] = e]
    BY <1>2 DEF Begin
  <2>2. exec'[w] = e /\ \A u \in Workers \ {w} : exec'[u] = exec[u]
    BY <2>1 DEF IInv, Forms
  <2>. QED BY <1>2, <2>1, <2>2 DEF Begin, account, networkVars, frontVars
<1>3. ASSUME NEW w \in Workers, Stop(w), UNCHANGED account
      PROVE  /\ \A u \in Workers \ {w} : exec'[u] = exec[u]
             /\ UNCHANGED <<runs, results, vpcs, named, listeners, tgs, certs>>
             /\ exec'[w] = Idle /\ faults' = faults + 1
  <2>1. exec'[w] = Idle /\ \A u \in Workers \ {w} : exec'[u] = exec[u]
    BY <1>3 DEF Stop, IInv, Forms
  <2>. QED BY <1>3, <2>1 DEF Stop, account, networkVars, frontVars
<1>4. CASE Aws
  BY <1>4 DEF Aws, Validated, networkVars, frontVars, engine
<1>5. CASE UNCHANGED vars
  BY <1>5 DEF vars, account, networkVars, frontVars, engine
<1>. QED BY <1>1, <1>2, <1>3, <1>4, <1>5 DEF Next

(* DNS names of a VPC, and the redirection of port 80.                     *)
NamedInv ==
  \A v \in 1 .. vpcs :
    \/ v \in named \/ faults > 0
    \/ \E w \in Workers : At(w, "vpc", "modify") /\ exec[w].got = <<v>>

RedirectInv ==
  \A c \in Clusters : 443 \in listeners[c] =>
    \/ 80 \in listeners[c] \/ faults > 0
    \/ \E w \in Workers : At(w, "listener", "redirect") /\ exec[w].cluster = c

(* A worker elsewhere, or one that stops, takes nothing from either.       *)
LEMMA NamedElsewhere ==
  ASSUME IInv, JInv, NamedInv, NEW w \in Workers, UNCHANGED <<vpcs, named>>,
         \A u \in Workers \ {w} : exec'[u] = exec[u],
         faults' = faults \/ faults' = faults + 1,
         ~At(w, "vpc", "modify") \/ faults' = faults + 1
  PROVE  NamedInv'
<1>1. faults \in Nat
  BY DEF JInv, Types, EngineTypes
<1>2. ASSUME NEW v \in 1 .. vpcs
      PROVE  \/ v \in named \/ faults' > 0
             \/ \E u \in Workers : At(u, "vpc", "modify")' /\ exec'[u].got = <<v>>
  <2>1. CASE v \in named \/ faults > 0 \/ faults' = faults + 1
    BY <1>1, <2>1
  <2>2. ASSUME NEW u \in Workers, At(u, "vpc", "modify"), exec[u].got = <<v>>, u # w
        PROVE  At(u, "vpc", "modify")' /\ exec'[u].got = <<v>>
    BY <2>2 DEF At
  <2>. QED BY <1>2, <2>1, <2>2 DEF NamedInv
<1>. QED BY <1>2 DEF NamedInv, At

LEMMA NextNamed == IInv /\ JInv /\ NamedInv /\ [Next]_vars => NamedInv'
<1> SUFFICES ASSUME IInv, JInv, NamedInv, [Next]_vars PROVE NamedInv'
  OBVIOUS
<1>0. faults \in Nat /\ vpcs \in Nat /\ named \subseteq 1 .. vpcs
  BY DEF JInv, Types, EngineTypes, NetworkTypes
<1>1. CASE exec' = exec /\ UNCHANGED <<faults, vpcs, named>>
  BY <1>1 DEF NamedInv, At
<1>2. ASSUME NEW w \in Workers, \A u \in Workers \ {w} : exec'[u] = exec[u],
             UNCHANGED <<vpcs, named>>,
             (exec[w] = Idle /\ faults' = faults) \/ faults' = faults + 1
      PROVE  NamedInv'
  BY <1>2, NamedElsewhere DEF At, Idle
<1>3. ASSUME NEW w \in Workers, Step(w) \/ UpdateIgnored(w)
      PROVE  NamedInv'
  <2>1. Works(w) /\ exec[w].at # "idle" /\ \A u \in Workers \ {w} : exec'[u] = exec[u]
    BY <1>3, StepWorks DEF Works
  <2>2. CASE exec[w].part # "vpc" \/ VpcLook(w) \/ VpcRead(w)
    <3>1. UNCHANGED <<vpcs, named>> /\ ~At(w, "vpc", "modify")
          /\ (faults' = faults \/ faults' = faults + 1)
      BY <1>3, <2>2, StepPart DEF VpcLook, VpcRead, At, networkVars
    <3>. QED BY <2>1, <3>1, NamedElsewhere
  <2>. PICK n : n = vpcs + 1
    OBVIOUS
  <2>3. CASE VpcCreate(w)
    <3>1. vpcs' = n /\ named' = named /\ Go(w, "modify", <<n>>) /\ exec[w].at = "create"
          /\ exec[w].part = "vpc" /\ faults' = faults
      BY <1>3, <2>3, StepPart DEF VpcCreate, At, TargetGroupUpdateFails
    <3>2. exec'[w].at = "modify" /\ exec'[w].part = "vpc" /\ exec'[w].got = <<n>>
      BY <1>0, <2>1, <3>1, GoWorks
    <3>3. ASSUME NEW v \in 1 .. vpcs', v # n
          PROVE  \/ v \in named' \/ faults' > 0
                 \/ \E u \in Workers : At(u, "vpc", "modify")' /\ exec'[u].got = <<v>>
      <4>1. v \in 1 .. vpcs
        BY <1>0, <3>1, <3>3
      <4>. QED BY <2>1, <3>1, <4>1 DEF NamedInv, At
    <3>. QED BY <3>2, <3>3 DEF NamedInv, At
  <2>4. CASE VpcModify(w)
    <3>1. vpcs' = vpcs /\ named' = named \cup {exec[w].got[1]} /\ faults' = faults
      BY <1>3, <2>4, StepPart DEF VpcModify, At, TargetGroupUpdateFails
    <3>2. ASSUME NEW v \in 1 .. vpcs'
          PROVE  \/ v \in named' \/ faults' > 0
                 \/ \E u \in Workers : At(u, "vpc", "modify")' /\ exec'[u].got = <<v>>
      <4>1. exec[w].got = <<v>> => v \in named'
        BY <3>1
      <4>. QED BY <2>1, <3>1, <3>2, <4>1 DEF NamedInv, At
    <3>. QED BY <3>2 DEF NamedInv, At
  <2>. QED BY <1>3, <2>2, <2>3, <2>4, StepPart
<1>. QED BY <1>1, <1>2, <1>3, Moves

LEMMA RedirectElsewhere ==
  ASSUME IInv, JInv, RedirectInv, NEW w \in Workers, UNCHANGED listeners,
         \A u \in Workers \ {w} : exec'[u] = exec[u],
         faults' = faults \/ faults' = faults + 1,
         ~At(w, "listener", "redirect") \/ faults' = faults + 1
  PROVE  RedirectInv'
<1>1. faults \in Nat
  BY DEF JInv, Types, EngineTypes
<1>2. ASSUME NEW c \in Clusters, 443 \in listeners[c]
      PROVE  \/ 80 \in listeners[c] \/ faults' > 0
             \/ \E u \in Workers : At(u, "listener", "redirect")' /\ exec'[u].cluster = c
  <2>1. CASE 80 \in listeners[c] \/ faults > 0 \/ faults' = faults + 1
    BY <1>1, <2>1
  <2>2. ASSUME NEW u \in Workers, At(u, "listener", "redirect"), exec[u].cluster = c, u # w
        PROVE  At(u, "listener", "redirect")' /\ exec'[u].cluster = c
    BY <2>2 DEF At
  <2>. QED BY <1>2, <2>1, <2>2 DEF RedirectInv
<1>. QED BY <1>2 DEF RedirectInv, At

LEMMA NextRedirect == IInv /\ JInv /\ RedirectInv /\ [Next]_vars => RedirectInv'
<1> SUFFICES ASSUME IInv, JInv, RedirectInv, [Next]_vars PROVE RedirectInv'
  OBVIOUS
<1>0. faults \in Nat /\ vpcs \in Nat /\ vpcs' \in Nat
      /\ listeners \in [Clusters -> SUBSET {80, 443}]
  <2>1. Types'
    BY NextJInv DEF JInv
  <2>2. listeners \in [Clusters -> SUBSET {80, 443}]
    BY Zenon DEF JInv, Types, FrontendTypes
  <2>. QED BY <2>1, <2>2 DEF JInv, Types, EngineTypes, NetworkTypes
<1>1. CASE exec' = exec /\ UNCHANGED <<faults, listeners>>
  BY <1>1 DEF RedirectInv, At
<1>2. ASSUME NEW w \in Workers, \A u \in Workers \ {w} : exec'[u] = exec[u],
             UNCHANGED listeners,
             (exec[w] = Idle /\ faults' = faults) \/ faults' = faults + 1
      PROVE  RedirectInv'
  BY <1>2, RedirectElsewhere DEF At, Idle
<1>3. ASSUME NEW w \in Workers, Step(w) \/ UpdateIgnored(w)
      PROVE  RedirectInv'
  <2>1. Works(w) /\ exec[w].at # "idle" /\ \A u \in Workers \ {w} : exec'[u] = exec[u]
    BY <1>3, StepWorks DEF Works
  <2>2. CASE exec[w].part # "listener" \/ (listeners' = listeners /\ exec[w].at # "redirect")
    <3>1. UNCHANGED listeners /\ ~At(w, "listener", "redirect")
          /\ (faults' = faults \/ faults' = faults + 1)
      BY <1>3, <2>2, StepPart DEF At
    <3>. QED BY <2>1, <3>1, RedirectElsewhere
  <2>. PICK d : d = exec[w].cluster
    OBVIOUS
  <2>3. ASSUME NEW port, Listen(w, port), faults' = faults,
               \/ /\ port = 80
               \/ /\ port = 443 /\ exec[w].at = "create" /\ exec[w].part = "listener"
                  /\ Go(w, "redirect", <<>>)
        PROVE  RedirectInv'
    <3>1. listeners' = [listeners EXCEPT ![d] = @ \cup {port}]
      BY <2>3 DEF Listen
    <3>2. ASSUME NEW c \in Clusters \ {d}, 443 \in listeners'[c]
          PROVE  \/ 80 \in listeners'[c] \/ faults' > 0
                 \/ \E u \in Workers : At(u, "listener", "redirect")' /\ exec'[u].cluster = c
      <4>1. listeners'[c] = listeners[c]
        BY <1>0, <3>1
      <4>. QED BY <2>1, <2>3, <3>2, <4>1 DEF RedirectInv, At
    <3>3. ASSUME d \in Clusters
          PROVE  \/ 80 \in listeners'[d]
                 \/ \E u \in Workers : At(u, "listener", "redirect")' /\ exec'[u].cluster = d
      <4>1. CASE port = 80
        BY <1>0, <3>1, <3>3, <4>1
      <4>2. CASE port # 80
        <5>1. exec'[w].at = "redirect" /\ exec'[w].part = "listener" /\ exec'[w].cluster = d
          BY <1>0, <2>1, <2>3, <4>2, GoFacts
        <5>. QED BY <5>1 DEF At
      <4>. QED BY <4>1, <4>2
    <3>. QED BY <3>2, <3>3 DEF RedirectInv, At
  <2>4. CASE exec[w].part = "listener"
    <3>1. faults' = faults
      BY <1>3, <2>4, StepPart DEF TargetGroupUpdateFails, At
    <3>2. \/ listeners' = listeners /\ exec[w].at # "redirect"
          \/ Listen(w, 443) /\ exec[w].at = "create" /\ Go(w, "redirect", <<>>)
          \/ Listen(w, 80)
      BY <1>3, <2>4, StepPart
      DEF ListenerLook, ListenerCreate, ListenerRedirect, At, frontVars
    <3>. QED BY <2>2, <2>3, <2>4, <3>1, <3>2
  <2>. QED BY <2>2, <2>4
<1>. QED BY <1>1, <1>2, <1>3, Moves

(* A certificate that is issued, the path of a target group.               *)
CertInv ==
  /\ \A w \in Workers : At(w, "cert", "read") => \E i \in DOMAIN certs : certs[i] = "issued"
  /\ "cert" \in slice.parts =>
       \A c \in Clusters : \A r \in results[c]["cert"] :
         certs[r[1]] = "issued" \/ Len(certs) > 1

OnPaths(c, g, n) == \A i \in 1 .. n : tgs[c][g.services[i]] = g.path

PathsMade(c) ==
  /\ "tg" \in slice.parts /\ results[c]["tg"] # {} =>
       OnPaths(c, Current(c), Len(Current(c).services))
  /\ \A w \in Workers :
       exec[w].at # "idle" /\ exec[w].part = "tg" /\ exec[w].cluster = c =>
         OnPaths(c, Config(w), Done(w))

PathInv == \A c \in Clusters : OnePath(c) /\ faults = 0 => PathsMade(c)

CertsKept ==
  /\ Len(certs) <= Len(certs')
  /\ \A i \in DOMAIN certs :
       i \in DOMAIN certs' /\ (certs[i] = "issued" => certs'[i] = "issued")

LEMMA CertsStay == JInv /\ [Next]_vars => CertsKept
<1> SUFFICES ASSUME JInv, [Next]_vars PROVE CertsKept
  OBVIOUS
<1>0. PICK S : S = {"pending", "issued", "timed out"}
  OBVIOUS
<1>1. certs \in Seq(S)
  BY <1>0, Zenon DEF JInv, Types, FrontendTypes
<1>2. DOMAIN certs = 1 .. Len(certs) /\ Len(certs) \in Nat
  BY <1>1, SeqDomain, Zenon
<1>3. CASE certs' = certs
  BY <1>2, <1>3 DEF CertsKept
<1>4. ASSUME NEW i \in DOMAIN certs, Validated(i) PROVE CertsKept
  <2>1. PICK st : certs[i] = "pending" /\ certs' = [certs EXCEPT ![i] = st]
    BY <1>4 DEF Validated
  <2>2. Len(certs') = Len(certs) /\ DOMAIN certs' = DOMAIN certs
        /\ \A j \in DOMAIN certs \ {i} : certs'[j] = certs[j]
    BY <1>2, <2>1
  <2>. QED BY <1>2, <2>1, <2>2 DEF CertsKept
<1>5. ASSUME certs' = Append(certs, "pending") PROVE CertsKept
  <2>1. "pending" \in S
    BY <1>0
  <2>2. certs' \in Seq(S) /\ Len(certs') = Len(certs) + 1
        /\ \A i \in 1 .. Len(certs) : certs'[i] = certs[i]
    BY <1>1, <1>5, <2>1, Longer, ZenonT(30)
  <2>3. DOMAIN certs' = 1 .. Len(certs')
    BY <2>2, SeqDomain, Zenon
  <2>. QED BY <1>2, <2>2, <2>3 DEF CertsKept
<1>6. ASSUME NEW w \in Workers, Step(w) \/ UpdateIgnored(w) PROVE CertsKept
  <2>1. certs' = certs \/ certs' = Append(certs, "pending")
    BY <1>6, StepPart
    DEF CertLook, CertLookAgain, CertRequest, CertValidation, CertRecord, CertWait, CertRead,
        frontVars
  <2>. QED BY <1>3, <1>5, <2>1
<1>7. CASE Aws
  BY <1>3, <1>4, <1>7 DEF Aws, frontVars
<1>8. CASE UNCHANGED account
  BY <1>3, <1>8 DEF account, frontVars
<1>. QED BY <1>6, <1>7, <1>8 DEF Next, vars

LEMMA CertStep ==
  ASSUME IInv, JInv, CertInv, NEW w \in Workers, vpcs' = vpcs,
         \/ CertLook(w) \/ CertLookAgain(w) \/ CertRequest(w) \/ CertValidation(w)
         \/ CertRecord(w) \/ CertWait(w) \/ CertRead(w)
  PROVE  /\ exec'[w].at = "read" => \E i \in DOMAIN certs : certs[i] = "issued"
         /\ \/ results' = results
            \/ \E i \in DOMAIN certs :
                 Finish(w, <<i>>) /\ (certs[i] = "issued" \/ Len(certs) > 1)
<1>0. exec[w].at # "idle" /\ exec[w].part = "cert" /\ vpcs \in Nat
  BY DEF CertLook, CertLookAgain, CertRequest, CertValidation, CertRecord, CertWait,
     CertRead, At, IInv, VpcsReal
<1>1. DOMAIN certs = 1 .. Len(certs) /\ Len(certs) \in Nat
  BY SeqDomain, Zenon DEF JInv, Types, FrontendTypes
<1>2. ASSUME Refused(w) PROVE exec'[w].at # "read" /\ results' = results
  <2>1. exec'[w] = Idle
    BY <1>2, IdleForms DEF Refused, IInv, Forms
  <2>. QED BY <1>2, <2>1 DEF Idle, Refused
<1>3. ASSUME NEW at, at # "idle", NEW got, Go(w, at, got), vpcs' = vpcs
      PROVE  exec'[w].at = at /\ results' = results
  <2>1. exec'[w].at = at
    BY <1>0, <1>3, GoWorks
  <2>. QED BY <1>3, <2>1 DEF Go
<1>4. ASSUME NEW i, Finish(w, <<i>>) PROVE exec'[w].at # "read"
  BY <1>4 DEF Finish, Idle, IInv, Forms
<1>5. CASE CertLook(w)
  <2>1. \/ Go(w, "request", <<>>)
        \/ \E i \in DOMAIN certs : certs[i] = "issued" /\ Finish(w, <<i>>)
    BY <1>5 DEF CertLook
  <2>2. Go(w, "request", <<>>) => exec'[w].at = "request" /\ results' = results
    BY <1>3, <1>5 DEF CertLook, frontVars
  <2>. QED BY <1>4, <2>1, <2>2
<1>6. CASE CertLookAgain(w)
  <2>1. \E got : Go(w, "new", got) \/ Go(w, "validation", got)
    BY <1>6 DEF CertLookAgain
  <2>. QED BY <1>3, <2>1
<1>7. CASE CertRequest(w)
  BY <1>3, <1>7 DEF CertRequest
<1>8. CASE CertValidation(w) \/ CertRecord(w)
  <2>1. PICK got : Go(w, "wait", got) \/ Go(w, "record", got) \/ Refused(w)
    BY <1>8 DEF CertValidation, CertRecord
  <2>. QED BY <1>2, <1>3, <2>1
<1>10. CASE CertWait(w)
  <2>1. exec[w].got[1] \in DOMAIN certs
    BY <1>0, <1>10, KnownFacts DEF AtFrontend, CertWait, At
  <2>2. \/ certs[exec[w].got[1]] = "issued" /\ Go(w, "read", <<>>)
        \/ Refused(w)
    BY <1>10 DEF CertWait
  <2>. QED BY <1>2, <1>3, <2>1, <2>2
<1>11. CASE CertRead(w)
  <2>1. PICK i \in DOMAIN certs : Finish(w, <<i>>)
    BY <1>11 DEF CertRead
  <2>2. PICK j \in DOMAIN certs : certs[j] = "issued"
    BY <1>11 DEF CertRead, CertInv
  <2>3. i = j \/ Len(certs) > 1
    BY <1>1, <2>1, <2>2
  <2>. QED BY <1>4, <2>1, <2>2, <2>3
<1>. QED
  BY <1>5, <1>6, <1>7, <1>8, <1>10, <1>11

LEMMA NextCert == IInv /\ JInv /\ CertInv /\ [Next]_vars => CertInv'
<1> SUFFICES ASSUME IInv, JInv, CertInv, [Next]_vars PROVE CertInv'
  OBVIOUS
<1>1. CertsKept
  BY CertsStay
<1>2. /\ Len(certs) \in Nat /\ Len(certs') \in Nat
      /\ DOMAIN certs = 1 .. Len(certs)
  <2>1. Types /\ Types'
    BY NextJInv DEF JInv
  <2>. QED BY <2>1, SeqDomain, Zenon DEF Types, FrontendTypes
<1>3. ASSUME NEW i \in DOMAIN certs, certs[i] = "issued" \/ Len(certs) > 1
      PROVE  certs'[i] = "issued" \/ Len(certs') > 1
  BY <1>1, <1>2, <1>3 DEF CertsKept
<1>4. (\E i \in DOMAIN certs : certs[i] = "issued") => \E i \in DOMAIN certs' : certs'[i] = "issued"
  BY <1>1 DEF CertsKept
<1>5. "cert" \in Parts /\ slice' = slice
  BY NextRuns DEF RunsGrow, Parts, Needs
<1>6. ASSUME NEW c \in Clusters, NEW r \in results[c]["cert"]
      PROVE  r[1] \in DOMAIN certs
  BY <1>5, <1>6 DEF JInv, Reported, Promise
<1>7. ASSUME NEW u \in Workers, exec'[u] = exec[u], At(u, "cert", "read")'
      PROVE  \E i \in DOMAIN certs' : certs'[i] = "issued"
  BY <1>4, <1>7 DEF CertInv, At
<1>8. ASSUME "cert" \in slice.parts, NEW c \in Clusters, NEW r \in results[c]["cert"]
      PROVE  certs'[r[1]] = "issued" \/ Len(certs') > 1
  BY <1>3, <1>6, <1>8 DEF CertInv
<1>9. ASSUME NEW w \in Workers, \A u \in Workers \ {w} : exec'[u] = exec[u], results' = results,
             exec'[w] = Idle \/ exec'[w].at = "start"
      PROVE  CertInv'
  BY <1>5, <1>7, <1>8, <1>9 DEF CertInv, At, Idle
<1>10. CASE exec' = exec /\ UNCHANGED results
  BY <1>5, <1>7, <1>8, <1>10 DEF CertInv, At
<1>11. ASSUME NEW d \in Clusters, Provision(d) PROVE CertInv'
  <2>1. exec' = exec /\ results' = [results EXCEPT ![d] = Before]
    BY <1>11 DEF Provision
  <2>2. ASSUME "cert" \in slice.parts, NEW c \in Clusters, NEW r \in results'[c]["cert"]
        PROVE  r \in results[c]["cert"]
    <3>1. "cert" \notin slice.done
      BY <2>2, SliceFacts DEF SliceOk, JInv
    <3>2. Before["cert"] = {}
      BY <1>5, <3>1 DEF Before
    <3>. QED BY <2>1, <2>2, <3>2 DEF IInv, Forms
  <2>. QED BY <1>5, <1>7, <1>8, <2>1, <2>2 DEF CertInv, At
<1>12. ASSUME NEW w \in Workers, Step(w) \/ UpdateIgnored(w) PROVE CertInv'
  <2>1. Works(w)
    BY <1>12, StepWorks
  <2>2. CASE exec[w].part # "cert"
    <3>1. \A c \in Clusters : results'[c]["cert"] = results[c]["cert"]
      BY <1>5, <2>1, <2>2 DEF Works
    <3>2. ~At(w, "cert", "read")'
      BY <2>1, <2>2 DEF Works, At, Idle
    <3>. QED BY <1>5, <1>7, <1>8, <2>1, <3>1, <3>2 DEF CertInv, Works, At
  <2>3. CASE exec[w].part = "cert"
    <3>0. vpcs' = vpcs
      BY <1>12, <2>3, StepPart
    <3>1. /\ exec'[w].at = "read" => \E i \in DOMAIN certs : certs[i] = "issued"
          /\ \/ results' = results
             \/ \E i \in DOMAIN certs :
                  Finish(w, <<i>>) /\ (certs[i] = "issued" \/ Len(certs) > 1)
      BY <1>12, <2>3, <3>0, StepPart, CertStep
    <3>2. ASSUME NEW c \in Clusters, NEW r \in results'[c]["cert"]
          PROVE  \/ r \in results[c]["cert"]
                 \/ r[1] \in DOMAIN certs /\ (certs[r[1]] = "issued" \/ Len(certs) > 1)
      <4>1. ASSUME NEW i \in DOMAIN certs, Finish(w, <<i>>), r \notin results[c]["cert"]
            PROVE  r = <<i>>
        <5>1. Returns(w, <<i>>)
          BY <2>3, <3>0, <4>1, FinishWorks
        <5>2. results'[c]["cert"] = results[c]["cert"] \cup {<<i>>}
          BY <1>5, <3>2, <4>1, <5>1 DEF Returns
        <5>. QED BY <3>2, <4>1, <5>2
      <4>2. ASSUME NEW i \in DOMAIN certs, Finish(w, <<i>>), certs[i] = "issued" \/ Len(certs) > 1
            PROVE  \/ r \in results[c]["cert"]
                   \/ r[1] \in DOMAIN certs /\ (certs[r[1]] = "issued" \/ Len(certs) > 1)
        <5>1. <<i>>[1] = i
          OBVIOUS
        <5>. QED BY <4>1, <4>2, <5>1
      <4>. QED BY <3>1, <3>2, <4>2
    <3>. QED BY <1>3, <1>4, <1>5, <1>7, <1>8, <2>1, <3>1, <3>2 DEF CertInv, Works, At
  <2>. QED BY <2>2, <2>3
<1>. QED BY <1>9, <1>10, <1>11, <1>12, Moves

LEMMA OnePathBefore ==
  ASSUME Types, Types', RunsGrow, NEW c \in Clusters, OnePath(c)'
  PROVE  OnePath(c)
<1>1. DOMAIN runs[c] = 1 .. Len(runs[c]) /\ DOMAIN runs'[c] = 1 .. Len(runs'[c])
      /\ Len(runs[c]) \in Nat /\ Len(runs'[c]) \in Nat
  BY DEF Types, EngineTypes
<1>. QED BY <1>1 DEF OnePath, RunsGrow

(* The step of a worker at a target group.                                 *)
PathsGoOn(w, c, g, got, s) ==
  /\ tgs' = tgs \/ tgs' = [tgs EXCEPT ![c][s] = g.path]
  /\ \/ exec'[w] = Idle /\ results' = results
     \/ exec'[w].got = got /\ results' = results
     \/ /\ tgs'[c][s] = g.path
        /\ \/ exec'[w].got = Append(got, 1) /\ results' = results
           \/ /\ Len(Append(got, 1)) = Len(g.services) /\ exec'[w] = Idle
              /\ Returns(w, << 1 >>)

LEMMA PathStep ==
  ASSUME IInv, JInv, vpcs' = vpcs, NEW w \in Workers,
         TargetGroupLook(w) \/ TargetGroupCreate(w) \/ TargetGroupUpdate(w),
         NEW c, NEW g, NEW got, NEW s,
         c = exec[w].cluster, g = Config(w), got = exec[w].got, s = g.services[Len(got) + 1]
  PROVE  PathsGoOn(w, c, g, got, s)
<1>0. /\ exec[w].at # "idle" /\ exec[w].part = "tg" /\ vpcs' \in Nat
  BY DEF TargetGroupLook, TargetGroupCreate, TargetGroupUpdate, At, IInv, VpcsReal
<1>1. c \in Clusters /\ s \in Services
  <2>1. got \in Seq(Nat) /\ Len(got) < Len(g.services)
    BY <1>0, KnownFacts DEF AtFrontend, Done
  <2>2. Len(got) + 1 \in 1 .. Len(g.services)
    BY <1>0, <2>1, ServiceFacts
  <2>. QED BY <1>0, <2>2, ServiceFacts
<1>2. tgs \in [Clusters -> [Services -> Paths \cup {None}]] /\ s = Service(w)
  BY DEF JInv, Types, FrontendTypes, Service
<1>3. tgs' = [tgs EXCEPT ![c][s] = g.path] => tgs'[c][s] = g.path
  BY <1>1, <1>2
<1>4. ASSUME Refused(w) PROVE exec'[w] = Idle /\ results' = results
  BY <1>4, IdleForms DEF Refused, IInv, Forms
<1>5. ASSUME NEW at, at # "idle", NEW to, Go(w, at, to)
      PROVE  exec'[w].got = to /\ results' = results
  <2>1. exec'[w].got = to
    BY <1>0, <1>5, GoWorks
  <2>. QED BY <1>5, <2>1 DEF Go
<1>6. ASSUME NextService(w)
      PROVE  \/ exec'[w].got = Append(got, 1) /\ results' = results
             \/ /\ Len(Append(got, 1)) = Len(g.services) /\ exec'[w] = Idle
                /\ Returns(w, << 1 >>)
  <2>1. ASSUME Finish(w, << 1 >>) PROVE exec'[w] = Idle /\ Returns(w, << 1 >>)
    BY <1>0, <2>1, FinishWorks
  <2>2. ASSUME Go(w, "start", Append(got, 1))
        PROVE  exec'[w].got = Append(got, 1) /\ results' = results
    BY <1>5, <2>2
  <2>. QED BY <1>6, <2>1, <2>2 DEF NextService, After
<1>7. CASE TargetGroupLook(w)
  <2>1. /\ tgs' = tgs
        /\ \/ tgs[c][s] = g.path /\ NextService(w)
           \/ Go(w, "create", got) \/ Go(w, "update", got)
    BY <1>2, <1>7 DEF TargetGroupLook, frontVars
  <2>2. Go(w, "create", got) \/ Go(w, "update", got) => exec'[w].got = got /\ results' = results
    BY <1>5
  <2>. QED BY <1>6, <2>1, <2>2 DEF PathsGoOn
<1>8. CASE TargetGroupCreate(w) \/ TargetGroupUpdate(w)
  <2>1. \/ tgs' = [tgs EXCEPT ![c][s] = g.path] /\ NextService(w)
        \/ Refused(w) /\ tgs' = tgs
    BY <1>2, <1>8 DEF TargetGroupCreate, TargetGroupUpdate, SetPath, frontVars
  <2>. QED BY <1>3, <1>4, <1>6, <2>1 DEF PathsGoOn
<1>. QED BY <1>7, <1>8

LEMMA NextPath == IInv /\ JInv /\ PathInv /\ [Next]_vars => PathInv'
<1> SUFFICES ASSUME IInv, JInv, PathInv, [Next]_vars,
                    NEW c \in Clusters, OnePath(c)', faults' = 0
             PROVE  PathsMade(c)'
  BY DEF PathInv
<1>1. Types /\ Types' /\ RunsGrow /\ slice' = slice
  BY NextJInv, NextRuns DEF JInv, RunsGrow
<1>2. OnePath(c) /\ "tg" \in Parts
  BY <1>1, OnePathBefore DEF Parts, Needs
<1>3. ASSUME faults' = faults \/ faults' = faults + 1
      PROVE  faults' = faults /\ PathsMade(c)
  <2>1. faults \in Nat
    BY <1>1 DEF Types, EngineTypes
  <2>. QED BY <1>2, <1>3, <2>1 DEF PathInv
<1>4. ASSUME NEW w \in Workers, exec[w].at # "idle", exec'[w] = exec[w]
      PROVE  Config(w)' = Config(w)
  BY <1>1, <1>4, KnownFacts, ConfigKept
<1>5. CASE exec' = exec /\ UNCHANGED <<faults, tgs, runs, results>>
  BY <1>1, <1>3, <1>5
  DEF PathsMade, OnPaths, Current, Config, Done
<1>6. ASSUME NEW d \in Clusters, Provision(d), UNCHANGED tgs
      PROVE  PathsMade(c)'
  <2>1. exec' = exec /\ faults' = faults /\ results' = [results EXCEPT ![d] = Before]
    BY <1>6 DEF Provision
  <2>2. PathsMade(c)
    BY <1>3, <2>1
  <2>3. ASSUME "tg" \in slice.parts, results'[c]["tg"] # {}
        PROVE  results'[c] = results[c] /\ runs'[c] = runs[c]
    <3>1. Before["tg"] = {}
      BY <1>1, <1>2, <2>3, SliceFacts DEF SliceOk, Before
    <3>2. c # d
      BY <2>1, <2>3, <3>1 DEF IInv, Forms
    <3>. QED BY <1>1, <1>6, <2>1, <3>2 DEF IInv, Forms, Types, EngineTypes, Provision
  <2>4. ASSUME NEW w \in Workers, exec[w].at # "idle" PROVE Config(w)' = Config(w)
    BY <1>4, <2>1, <2>4
  <2>. QED BY <1>1, <1>6, <2>1, <2>2, <2>3, <2>4 DEF PathsMade, OnPaths, Current, Done
<1>7. ASSUME NEW w \in Workers, \A u \in Workers \ {w} : exec'[u] = exec[u],
             UNCHANGED <<runs, results, tgs>>, faults' = faults,
             exec'[w].got = <<>>
      PROVE  PathsMade(c)'
  <2>1. PathsMade(c)
    BY <1>3, <1>7
  <2>2. \A u \in Workers \ {w} : exec[u].at # "idle" => Config(u)' = Config(u)
    BY <1>4, <1>7
  <2>3. Done(w)' = 0
    BY <1>7 DEF Done
  <2>. QED BY <1>1, <1>7, <2>1, <2>2, <2>3 DEF PathsMade, OnPaths, Current, Done
<1>8. ASSUME NEW w \in Workers, Step(w) \/ UpdateIgnored(w)
      PROVE  PathsMade(c)'
  <2>1. Works(w) /\ exec[w].at # "idle" /\ runs' = runs
    BY <1>8, StepWorks, StepPart
  <2>2. PathsMade(c) /\ faults' = faults
    BY <1>3, <1>8, StepPart
  <2>3. \A u \in Workers \ {w} : exec[u].at # "idle" => Config(u)' = Config(u)
    BY <1>4, <2>1 DEF Works
  <2>4. CASE exec[w].part # "tg"
    <3>1. tgs' = tgs /\ results'[c]["tg"] = results[c]["tg"]
      BY <1>2, <1>8, <2>1, <2>4, StepPart DEF Works
    <3>2. exec'[w].at # "idle" => exec'[w].part # "tg"
      BY <2>1, <2>4 DEF Works, Idle
    <3>. QED BY <1>1, <2>1, <2>2, <2>3, <3>1, <3>2 DEF PathsMade, OnPaths, Current, Done, Works
  <2>. PICK d, g, got, s : d = exec[w].cluster /\ g = Config(w) /\ got = exec[w].got
                           /\ s = g.services[Len(got) + 1]
    OBVIOUS
  <2>5. CASE exec[w].part = "tg"
    <3>0. PathsGoOn(w, d, g, got, s)
      <4>1. TargetGroupLook(w) \/ TargetGroupCreate(w) \/ TargetGroupUpdate(w)
        <5>1. faults \in Nat
          BY <1>1 DEF Types, EngineTypes
        <5>. QED BY <1>8, <2>2, <2>5, <5>1, StepPart
      <4>2. vpcs' = vpcs
        BY <1>8, <2>5, StepPart
      <4>. QED BY <4>1, <4>2, PathStep
    <3>1. /\ tgs' = tgs \/ tgs' = [tgs EXCEPT ![d][s] = g.path]
          /\ \/ exec'[w] = Idle /\ results' = results
             \/ exec'[w].got = got /\ results' = results
             \/ /\ tgs'[d][s] = g.path
                /\ \/ exec'[w].got = Append(got, 1) /\ results' = results
                   \/ /\ Len(Append(got, 1)) = Len(g.services) /\ exec'[w] = Idle
                      /\ Returns(w, << 1 >>)
      BY <3>0 DEF PathsGoOn
    <3>2. ASSUME NEW u \in Workers, exec[u].at # "idle", exec[u].part = "tg"
          PROVE  /\ Config(u) = runs[exec[u].cluster][exec[u].run] /\ exec[u].cluster \in Clusters
                 /\ exec[u].run \in 1 .. Len(runs[exec[u].cluster])
                 /\ exec[u].got \in Seq(Nat) /\ Done(u) \in Nat
                 /\ Done(u) < Len(Config(u).services)
      <4>1. exec[u].got \in Seq(Nat) /\ Done(u) < Len(Config(u).services)
        BY <3>2, KnownFacts DEF AtFrontend
      <4>. QED BY <3>2, <4>1, KnownFacts DEF Working, Config, Done
    <3>3. ASSUME NEW j \in 1 .. Len(runs[c]), NEW h, h = runs[c][j], NEW n \in Nat,
                 n <= Len(h.services), OnPaths(c, h, n)
          PROVE  \A i \in 1 .. n : tgs'[c][h.services[i]] = h.path
      <4>1. d = c => g.path = h.path
        <5>1. DOMAIN runs[c] = 1 .. Len(runs[c])
          BY <1>1 DEF Types, EngineTypes
        <5>2. g = runs[d][exec[w].run] /\ exec[w].run \in 1 .. Len(runs[d])
          BY <2>1, <2>5, <3>2
        <5>. QED BY <1>2, <3>3, <5>1, <5>2 DEF OnePath
      <4>2. \A i \in 1 .. n : h.services[i] \in Services
        <5>1. h.services \in Seq(Services)
          BY <1>1, <3>3, ConfigFacts
        <5>. QED BY <3>3, <5>1
      <4>3. tgs \in [Clusters -> [Services -> Paths \cup {None}]]
        BY <1>1 DEF Types, FrontendTypes
      <4>4. \A r \in Services : tgs[c][r] = h.path => tgs'[c][r] = h.path
        BY SMTT(30), <3>1, <4>1, <4>3
      <4>. QED BY <3>3, <4>2, <4>4 DEF OnPaths
    <3>4. ASSUME d = c
          PROVE  OnPaths(c, g, Len(got))' /\ Len(got) \in Nat
      <4>1. OnPaths(c, g, Len(got))
        BY <2>1, <2>2, <2>5, <3>4 DEF PathsMade, Done
      <4>2. /\ exec[w].run \in 1 .. Len(runs[c]) /\ g = runs[c][exec[w].run]
            /\ Len(got) \in Nat /\ Len(got) < Len(g.services)
        BY <2>1, <2>5, <3>2, <3>4 DEF Done
      <4>3. PICK j, n : j = exec[w].run /\ n = Len(got)
        OBVIOUS
      <4>4. Len(g.services) \in Nat
        BY <1>1, <3>4, <4>2, ConfigFacts
      <4>5. /\ j \in 1 .. Len(runs[c]) /\ g = runs[c][j]
            /\ n \in Nat /\ n <= Len(g.services) /\ OnPaths(c, g, n)
        BY <4>1, <4>2, <4>3, <4>4
      <4>6. \A i \in 1 .. n : tgs'[c][g.services[i]] = g.path
        BY <3>3, <4>5, Zenon
      <4>. QED BY <4>2, <4>3, <4>6 DEF OnPaths
    <3>5. ASSUME d = c, tgs'[d][s] = g.path
          PROVE  OnPaths(c, g, Len(got) + 1)'
      <4>1. \A i \in 1 .. Len(got) + 1 : i \in 1 .. Len(got) \/ i = Len(got) + 1
        BY <3>5, <3>4
      <4>. QED BY <3>5, <3>4, <4>1 DEF OnPaths
    <3>6. Len(Append(got, 1)) = Len(got) + 1
      BY <2>1, <2>5, <3>2
    <3>7. ASSUME "tg" \in slice.parts, results'[c]["tg"] # {}
          PROVE  OnPaths(c, Current(c), Len(Current(c).services))'
      <4>. PICK h, m : h = Current(c) /\ m = Len(Current(c).services)
        OBVIOUS
      <4>1. Current(c)' = h /\ Len(Current(c).services)' = m
        BY <2>1 DEF Current
      <4>2. CASE results[c]["tg"] # {}
        <5>1. OnPaths(c, h, m)
          BY <2>2, <3>7, <4>2 DEF PathsMade
        <5>2. runs[c] # <<>>
          BY <1>2, <3>7, <4>2 DEF JInv, Reported
        <5>3. Len(runs[c]) \in 1 .. Len(runs[c])
          BY <1>1, <5>2 DEF Types, EngineTypes
        <5>4. h = runs[c][Len(runs[c])] /\ m = Len(h.services) /\ m \in Nat
          BY <1>1, <5>3, ConfigFacts DEF Current
        <5>5. m <= Len(h.services)
          BY <5>4
        <5>6. \A i \in 1 .. m : tgs'[c][h.services[i]] = h.path
          BY <3>3, <5>1, <5>3, <5>4, <5>5, Zenon
        <5>. QED BY <4>1, <5>6 DEF OnPaths
      <4>3. CASE results[c]["tg"] = {}
        <5>1. /\ tgs'[d][s] = g.path /\ Len(got) + 1 = Len(g.services)
              /\ d = c /\ exec[w].run = Len(runs[c])
          BY <1>2, <3>1, <3>6, <3>7, <4>3 DEF Returns
        <5>2. g = h /\ Len(got) + 1 = m
          BY <2>1, <2>5, <3>2, <5>1 DEF Current
        <5>3. OnPaths(c, g, Len(got) + 1)'
          BY <3>5, <5>1
        <5>. QED BY <4>1, <5>2, <5>3 DEF OnPaths
      <4>. QED BY <4>2, <4>3
    <3>8. ASSUME NEW u \in Workers, exec'[u].at # "idle", exec'[u].part = "tg",
                 exec'[u].cluster = c
          PROVE  OnPaths(c, Config(u), Done(u))'
      <4>1. CASE u # w
        <5>. PICK h, n : h = Config(u) /\ n = Done(u)
          OBVIOUS
        <5>1. exec'[u] = exec[u] /\ Config(u)' = h /\ Done(u)' = n
          BY <2>1, <2>3, <3>8, <4>1 DEF Works, Done
        <5>2. OnPaths(c, h, n)
          BY <2>2, <3>8, <5>1 DEF PathsMade
        <5>3. /\ exec[u].run \in 1 .. Len(runs[c]) /\ h = runs[c][exec[u].run]
              /\ n \in Nat /\ n < Len(h.services)
          BY <3>2, <3>8, <5>1
        <5>4. n <= Len(h.services)
          BY <1>1, <5>3, ConfigFacts
        <5>5. \A i \in 1 .. n : tgs'[c][h.services[i]] = h.path
          BY <3>3, <5>2, <5>3, <5>4, Zenon
        <5>. QED BY <5>1, <5>5 DEF OnPaths
      <4>2. CASE u = w
        <5>1. d = c /\ Config(w)' = g /\ exec'[w] # Idle
          BY <2>1, <3>8, <4>2 DEF Works, Config, Idle
        <5>2. OnPaths(c, g, Len(got))'
          BY <3>4, <5>1
        <5>3. \/ Done(w)' = Len(got)
              \/ Done(w)' = Len(got) + 1 /\ tgs'[d][s] = g.path
          BY <3>1, <3>6, <5>1 DEF Done
        <5>. QED BY <3>5, <4>2, <5>1, <5>2, <5>3 DEF OnPaths
      <4>. QED BY <4>1, <4>2
    <3>. QED BY <1>1, <3>7, <3>8 DEF PathsMade
  <2>. QED BY <2>4, <2>5
<1>9. faults' # faults + 1
  BY <1>1 DEF Types, EngineTypes
<1>. QED BY <1>5, <1>6, <1>7, <1>8, <1>9, Moves

CInv == NamedInv /\ RedirectInv /\ CertInv /\ PathInv

LEMMA InitCInv == Init => CInv
<1> SUFFICES ASSUME Init PROVE CInv
  OBVIOUS
<1>1. /\ slice \in Slices /\ results = [c \in Clusters |-> Before]
      /\ \A w \in Workers : exec[w] = Idle
  BY DEF Init, InitEngine
<1>2. \A p \in Parts : p \in slice.parts => \A c \in Clusters : results[c][p] = {}
  BY <1>1, ProvisioningAssumption DEF SliceOk, Before
<1>3. "cert" \in Parts /\ "tg" \in Parts
  BY DEF Parts, Needs
<1>4. NamedInv
  <2>1. named = 1 .. vpcs
    BY DEF Init, InitNetwork
  <2>. QED BY <2>1 DEF NamedInv
<1>5. RedirectInv
  BY DEF Init, InitFrontend, RedirectInv
<1>6. CertInv
  BY <1>1, <1>2, <1>3 DEF CertInv, At, Idle
<1>7. PathInv
  BY <1>1, <1>2, <1>3 DEF PathInv, PathsMade, Idle
<1>. QED BY <1>4, <1>5, <1>6, <1>7 DEF CInv

(* What is made in two steps is made completely, unless an execution was   *)
(* stopped in between or is at it still: the DNS names of a VPC (vpc.go),  *)
(* the redirection of port 80 (listener.go), the path of a target group    *)
(* (tg/execute.go), a certificate that is issued (cert/execute.go).        *)
THEOREM MadeCompletely == Spec => []CompleteUnlessStopped
<1>1. IInv /\ JInv /\ CInv => CompleteUnlessStopped
  <2> SUFFICES ASSUME IInv, JInv, CInv, NEW c \in Clusters
      PROVE
        /\ \A v \in Returned(c, "vpc") :
             \/ v \in named \/ faults > 0
             \/ \E w \in Workers : At(w, "vpc", "modify") /\ exec[w].got = <<v>>
        /\ Returned(c, "listener") # {} =>
             \/ 80 \in listeners[c] \/ faults > 0
             \/ \E w \in Workers : At(w, "listener", "redirect") /\ exec[w].cluster = c
        /\ Returned(c, "tg") # {} =>
             \/ ~OnePath(c) \/ faults > 0
             \/ \A s \in ServicesOf(c) : tgs[c][s] = Current(c).path
        /\ \A i \in Returned(c, "cert") : certs[i] = "issued" \/ Len(certs) > 1
    BY DEF CompleteUnlessStopped
  <2>1. /\ \A p : Returned(c, p) # {} => p \in slice.parts /\ results[c][p] # {}
        /\ \A p : \A v \in Returned(c, p) : \E r \in results[c][p] : v = r[1]
    BY DEF Returned, Result
  <2>2. {"vpc", "listener", "tg", "cert"} \subseteq Parts
    BY DEF Parts, Needs
  <2>3. faults \in Nat
    BY DEF JInv, Types, EngineTypes
  <2>4. \A v \in Returned(c, "vpc") :
          \/ v \in named \/ faults > 0
          \/ \E w \in Workers : At(w, "vpc", "modify") /\ exec[w].got = <<v>>
    <3>1. \A v \in Returned(c, "vpc") : v \in 1 .. vpcs
      BY <2>1, <2>2 DEF JInv, Reported, Promise
    <3>. QED BY <3>1 DEF CInv, NamedInv
  <2>5. Returned(c, "listener") # {} =>
          \/ 80 \in listeners[c] \/ faults > 0
          \/ \E w \in Workers : At(w, "listener", "redirect") /\ exec[w].cluster = c
    <3>1. Returned(c, "listener") # {} => 443 \in listeners[c]
      BY <2>1, <2>2 DEF JInv, Reported, RunPromise
    <3>. QED BY <3>1 DEF CInv, RedirectInv
  <2>6. ASSUME Returned(c, "tg") # {}, OnePath(c), ~(faults > 0), NEW s \in ServicesOf(c)
        PROVE  tgs[c][s] = Current(c).path
    <3>1. OnPaths(c, Current(c), Len(Current(c).services))
      BY <2>1, <2>3, <2>6 DEF CInv, PathInv, PathsMade
    <3>2. runs[c] # <<>>
      BY <2>1, <2>2, <2>6 DEF JInv, Reported
    <3>3. Types /\ Len(runs[c]) \in 1 .. Len(runs[c])
      BY <3>2 DEF JInv, Types, EngineTypes
    <3>4. Current(c).services \in Seq(Services)
      BY <3>3, ConfigFacts DEF Current
    <3>5. DOMAIN Current(c).services = 1 .. Len(Current(c).services)
      BY <3>4, SeqDomain, Zenon
    <3>. QED BY <2>6, <3>1, <3>5 DEF ServicesOf, OnPaths
  <2>7. \A i \in Returned(c, "cert") : certs[i] = "issued" \/ Len(certs) > 1
    BY <2>1 DEF CInv, CertInv
  <2>. QED BY <2>4, <2>5, <2>6, <2>7
<1>2. Init => IInv /\ JInv /\ CInv
  BY InitIInv, InitJInv, InitCInv
<1>3. IInv /\ JInv /\ CInv /\ [Next]_vars => (IInv /\ JInv /\ CInv)'
  BY NextIInv, NextJInv, NextNamed, NextRedirect, NextCert, NextPath DEF CInv
<1>. QED BY <1>1, <1>2, <1>3, PTL DEF Spec

-----------------------------------------------------------------------------
(* No more is created than is looked for at the same time.                 *)

(* Those who are about to create, having found nothing. *)
Creators(p, at) == {w \in Workers : At(w, p, at)}

(* The VPCs that have a gateway, and who creates one for another VPC: each *)
(* of these is behind one gateway at most, and when the VPC has its own,   *)
(* no others begin to create one.                                          *)
Provided == {igs[i] : i \in DOMAIN igs} \ {0}
Wanting ==
  {w \in Workers : /\ exec[w].at \in {"create", "attach"} /\ exec[w].part = "ig"
                   /\ Arg(w, "vpc") \notin Provided}

VpcsFew  == vpcs + Cardinality(Creators("vpc", "create")) <= Cardinality(Workers)
CertsFew == Len(certs) + Cardinality(Creators("cert", "new")) <= Cardinality(Workers)
GatewaysFew ==
  Len(igs) + Cardinality(Creators("ig", "create"))
    <= Cardinality(Provided) * Cardinality(Workers) + Cardinality(Wanting) + faults

(* Cardinalities of sets that differ by an element at most.                *)
LEMMA Sizes3 ==
  ASSUME NEW S, IsFiniteSet(S), NEW T, NEW w
  PROVE  /\ Cardinality(S) \in Nat
         /\ T \subseteq S => IsFiniteSet(T) /\ Cardinality(T) \in Nat
                             /\ Cardinality(T) <= Cardinality(S)
         /\ T \subseteq S \ {w} /\ w \in S => Cardinality(T) + 1 <= Cardinality(S)
         /\ T \subseteq S \cup {w} => Cardinality(T) <= Cardinality(S) + 1
<1>1. Cardinality(S) \in Nat
  BY FS_CardinalityType
<1>2. ASSUME T \subseteq S
      PROVE  IsFiniteSet(T) /\ Cardinality(T) \in Nat /\ Cardinality(T) <= Cardinality(S)
  BY <1>2, FS_Subset, FS_CardinalityType
<1>3. ASSUME T \subseteq S \ {w}, w \in S PROVE Cardinality(T) + 1 <= Cardinality(S)
  <2>1. IsFiniteSet(S \ {w}) /\ Cardinality(S \ {w}) = Cardinality(S) - 1
    BY <1>3, FS_RemoveElement
  <2>2. Cardinality(T) <= Cardinality(S \ {w}) /\ IsFiniteSet(T)
    BY <1>3, <2>1, FS_Subset
  <2>3. Cardinality(T) \in Nat
    BY <2>2, FS_CardinalityType
  <2>. QED BY <1>1, <2>1, <2>2, <2>3
<1>4. ASSUME T \subseteq S \cup {w} PROVE Cardinality(T) <= Cardinality(S) + 1
  <2>1. IsFiniteSet(S \cup {w}) /\ Cardinality(S \cup {w}) <= Cardinality(S) + 1
    BY <1>1, FS_AddElement
  <2>2. Cardinality(T) <= Cardinality(S \cup {w}) /\ IsFiniteSet(T)
    BY <1>4, <2>1, FS_Subset
  <2>3. Cardinality(T) \in Nat /\ Cardinality(S \cup {w}) \in Nat
    BY <2>1, <2>2, FS_CardinalityType
  <2>. QED BY <1>1, <2>1, <2>2, <2>3
<1>. QED BY <1>1, <1>2, <1>3, <1>4

LEMMA CreatorsFinite ==
  ASSUME NEW p, NEW at
  PROVE  /\ Creators(p, at) \subseteq Workers
         /\ IsFiniteSet(Workers) /\ Cardinality(Workers) \in Nat \ {0}
         /\ IsFiniteSet(Creators(p, at)) /\ Cardinality(Creators(p, at)) \in Nat
         /\ Cardinality(Creators(p, at)) <= Cardinality(Workers)
<1>1. Creators(p, at) \subseteq Workers
  BY DEF Creators
<1>2. IsFiniteSet(Workers) /\ Workers # {}
  BY ProvisioningAssumption
<1>3. Cardinality(Workers) # 0 /\ Cardinality(Workers) \in Nat
  BY <1>2, FS_EmptySet, FS_CardinalityType
<1>. QED BY <1>1, <1>2, <1>3, Sizes3

(* Of two counts: something is created by who was about to, or nothing is  *)
(* and nobody comes to be about to, or there is nothing yet.               *)
LEMMA FewStay ==
  ASSUME NEW n \in Nat, NEW m \in Nat, NEW S, NEW T, S \subseteq Workers, T \subseteq Workers,
         n + Cardinality(S) <= Cardinality(Workers),
         \/ m = n /\ T \subseteq S
         \/ m = 0
         \/ m = n + 1 /\ \E w \in S : T \subseteq S \ {w}
  PROVE  m + Cardinality(T) <= Cardinality(Workers)
<1>0. IsFiniteSet(Workers)
  BY ProvisioningAssumption
<1>1. IsFiniteSet(S) /\ Cardinality(S) \in Nat /\ Cardinality(Workers) \in Nat
      /\ Cardinality(T) \in Nat /\ Cardinality(T) <= Cardinality(Workers)
  BY <1>0, Sizes3
<1>2. CASE m = n /\ T \subseteq S
  <2>1. Cardinality(T) <= Cardinality(S)
    BY <1>1, <1>2, Sizes3
  <2>. QED BY <1>1, <1>2, <2>1
<1>3. CASE m = 0
  BY <1>1, <1>3
<1>4. CASE m = n + 1 /\ \E w \in S : T \subseteq S \ {w}
  <2>1. Cardinality(T) + 1 <= Cardinality(S)
    BY <1>1, <1>4, Sizes3
  <2>. QED BY <1>1, <1>4, <2>1
<1>. QED BY <1>2, <1>3, <1>4

LEMMA CreatorsStay ==
  ASSUME NEW p, NEW at
  PROVE  /\ exec' = exec => Creators(p, at)' \subseteq Creators(p, at)
         /\ \A w \in Workers :
              (\A u \in Workers \ {w} : exec'[u] = exec[u]) =>
                /\ Creators(p, at)' \ {w} \subseteq Creators(p, at) \ {w}
                /\ ~(exec'[w].at = at /\ exec'[w].part = p) =>
                     Creators(p, at)' \subseteq Creators(p, at) \ {w}
  BY DEF Creators, At

LEMMA NextVpcsFew == IInv /\ JInv /\ VpcsFew /\ [Next]_vars => VpcsFew'
<1> SUFFICES ASSUME IInv, JInv, VpcsFew, [Next]_vars PROVE VpcsFew'
  OBVIOUS
<1>. PICK S, n : S = Creators("vpc", "create") /\ n = vpcs
  OBVIOUS
<1>. DEFINE T == Creators("vpc", "create")'
<1>1. /\ S \subseteq Workers /\ T \subseteq Workers /\ n \in Nat
      /\ n + Cardinality(S) <= Cardinality(Workers)
  BY DEF Creators, VpcsFew, IInv, VpcsReal
<1>2. ASSUME NEW m \in Nat, vpcs' = m,
             \/ m = n /\ T \subseteq S
             \/ m = 0
             \/ m = n + 1 /\ \E w \in S : T \subseteq S \ {w}
      PROVE  VpcsFew'
  BY <1>1, <1>2, FewStay DEF VpcsFew
<1>3. CASE exec' = exec /\ vpcs' = vpcs
  BY <1>1, <1>2, <1>3, CreatorsStay
<1>4. ASSUME NEW w \in Workers, \A u \in Workers \ {w} : exec'[u] = exec[u],
             vpcs' = vpcs, exec'[w].at # "create" \/ exec'[w].part # "vpc"
      PROVE  VpcsFew'
  <2>1. T \subseteq S
    BY <1>4, CreatorsStay
  <2>. QED BY <1>1, <1>2, <1>4, <2>1
<1>5. ASSUME NEW w \in Workers, Step(w) \/ UpdateIgnored(w) PROVE VpcsFew'
  <2>1. Works(w) /\ exec[w].at # "idle" /\ \A u \in Workers \ {w} : exec'[u] = exec[u]
    BY <1>5, StepWorks DEF Works
  <2>2. CASE exec[w].part # "vpc"
    BY <1>4, <1>5, <2>1, <2>2, StepPart DEF Works, Idle
  <2>3. CASE VpcLook(w)
    <3>1. vpcs' = vpcs /\ Go(w, IF vpcs > 0 THEN "read" ELSE "create", <<>>)
      BY <2>3 DEF VpcLook, networkVars
    <3>2. CASE vpcs > 0
      BY <1>1, <1>4, <2>1, <3>1, <3>2, GoFacts
    <3>3. CASE ~(vpcs > 0)
      BY <1>1, <1>2, <3>1, <3>3
    <3>. QED BY <3>2, <3>3
  <2>4. CASE VpcCreate(w)
    <3>1. vpcs' = n + 1 /\ w \in S /\ Go(w, "modify", <<vpcs + 1>>)
      BY <2>4 DEF VpcCreate, Creators
    <3>2. exec'[w].at = "modify"
      BY <1>1, <2>1, <3>1, GoFacts
    <3>3. T \subseteq S \ {w}
      BY <2>1, <3>2, CreatorsStay
    <3>. QED BY <1>1, <1>2, <3>1, <3>3
  <2>5. CASE VpcModify(w)
    <3>1. vpcs' = vpcs /\ Go(w, "read", <<>>)
      BY <2>5 DEF VpcModify
    <3>. QED BY <1>1, <1>4, <2>1, <3>1, GoFacts
  <2>6. CASE VpcRead(w)
    <3>1. vpcs' = vpcs /\ exec'[w] = Idle
      BY <2>6 DEF VpcRead, networkVars, Finish, IInv, Forms
    <3>. QED BY <1>4, <2>1, <3>1 DEF Idle
  <2>. QED BY <1>5, <2>2, <2>3, <2>4, <2>5, <2>6, StepPart
<1>. QED BY <1>3, <1>4, <1>5, Moves DEF Idle

LEMMA NextCertsFew == IInv /\ JInv /\ CertsFew /\ [Next]_vars => CertsFew'
<1> SUFFICES ASSUME IInv, JInv, CertsFew, [Next]_vars PROVE CertsFew'
  OBVIOUS
<1>. PICK S, n : S = Creators("cert", "new") /\ n = Len(certs)
  OBVIOUS
<1>. DEFINE T == Creators("cert", "new")'
<1>1. /\ S \subseteq Workers /\ T \subseteq Workers /\ n \in Nat
      /\ n + Cardinality(S) <= Cardinality(Workers)
      /\ DOMAIN certs = 1 .. n /\ vpcs \in Nat /\ vpcs' \in Nat
  <2>1. Types /\ Types'
    BY NextJInv DEF JInv
  <2>2. Len(certs) \in Nat /\ DOMAIN certs = 1 .. Len(certs)
    BY <2>1, SeqDomain, Zenon DEF Types, FrontendTypes
  <2>3. vpcs \in Nat /\ vpcs' \in Nat
    BY <2>1 DEF Types, NetworkTypes
  <2>. QED BY <2>2, <2>3 DEF Creators, CertsFew
<1>2. ASSUME NEW m \in Nat, Len(certs') = m,
             \/ m = n /\ T \subseteq S
             \/ m = 0
             \/ m = n + 1 /\ \E w \in S : T \subseteq S \ {w}
      PROVE  CertsFew'
  BY <1>1, <1>2, FewStay DEF CertsFew
<1>3. ASSUME exec' = exec, NEW i \in DOMAIN certs, Validated(i) PROVE CertsFew'
  <2>1. PICK st : certs' = [certs EXCEPT ![i] = st]
    BY <1>3 DEF Validated
  <2>2. Len(certs') = n
    BY <1>1, <2>1
  <2>. QED BY <1>1, <1>2, <1>3, <2>2, CreatorsStay
<1>4. CASE exec' = exec /\ certs' = certs
  BY <1>1, <1>2, <1>4, CreatorsStay
<1>5. ASSUME NEW w \in Workers, \A u \in Workers \ {w} : exec'[u] = exec[u],
             certs' = certs, exec'[w].at # "new" \/ exec'[w].part # "cert"
      PROVE  CertsFew'
  <2>1. T \subseteq S
    BY <1>5, CreatorsStay
  <2>. QED BY <1>1, <1>2, <1>5, <2>1
<1>6. ASSUME NEW w \in Workers, Step(w) \/ UpdateIgnored(w) PROVE CertsFew'
  <2>1. Works(w) /\ exec[w].at # "idle" /\ \A u \in Workers \ {w} : exec'[u] = exec[u]
    BY <1>6, StepWorks DEF Works
  <2>2. CASE exec[w].part # "cert"
    BY <1>5, <1>6, <2>1, <2>2, StepPart DEF Works, Idle
  <2>3. ASSUME certs' = certs, NEW at, at # "idle", at # "new", NEW got, Go(w, at, got)
        PROVE  CertsFew'
    <3>1. exec'[w].at = at
      BY <1>1, <2>1, <2>3, GoFacts
    <3>. QED BY <1>5, <2>1, <2>3, <3>1
  <2>4. ASSUME certs' = certs, exec' = [exec EXCEPT ![w] = Idle]
        PROVE  CertsFew'
    <3>1. exec'[w].at = "idle"
      BY <2>4 DEF Idle, IInv, Forms
    <3>. QED BY <1>5, <2>1, <2>4, <3>1
  <2>5. CASE CertLook(w)
    <3>1. certs' = certs /\ (Go(w, "request", <<>>) \/ exec' = [exec EXCEPT ![w] = Idle])
      BY <2>5 DEF CertLook, Finish, frontVars
    <3>. QED BY <2>3, <2>4, <3>1
  <2>6. CASE CertLookAgain(w)
    <3>1. CASE certs = <<>>
      <4>1. Len(certs') = 0
        BY <2>6, <3>1 DEF CertLookAgain, frontVars
      <4>. QED BY <1>2, <4>1
    <3>2. CASE certs # <<>>
      <4>1. certs' = certs /\ \E got : Go(w, "validation", got)
        BY <2>6, <3>2 DEF CertLookAgain, frontVars
      <4>. QED BY <2>3, <4>1
    <3>. QED BY <3>1, <3>2
  <2>7. CASE CertRequest(w)
    <3>1. /\ certs' = Append(certs, "pending") /\ w \in S
          /\ Go(w, "validation", <<Len(certs) + 1>>)
      BY <2>7 DEF CertRequest, Creators
    <3>2. exec'[w].at = "validation"
      BY <1>1, <2>1, <3>1, GoFacts
    <3>3. T \subseteq S \ {w}
      BY <2>1, <3>2, CreatorsStay
    <3>4. Len(certs') = n + 1
      <4>1. PICK R : R = {"pending", "issued", "timed out"}
        OBVIOUS
      <4>2. certs \in Seq(R) /\ "pending" \in R
        BY <4>1, Zenon DEF JInv, Types, FrontendTypes
      <4>. QED BY <3>1, <4>2, Longer
    <3>. QED BY <1>1, <1>2, <3>1, <3>3, <3>4
  <2>8. CASE CertValidation(w) \/ CertRecord(w) \/ CertWait(w)
    <3>1. /\ certs' = certs
          /\ \/ \E got : Go(w, "wait", got) \/ Go(w, "record", got) \/ Go(w, "read", got)
             \/ exec' = [exec EXCEPT ![w] = Idle]
      BY <2>8 DEF CertValidation, CertRecord, CertWait, Refused, frontVars
    <3>. QED BY <2>3, <2>4, <3>1
  <2>9. CASE CertRead(w)
    <3>1. certs' = certs /\ exec' = [exec EXCEPT ![w] = Idle]
      BY <2>9 DEF CertRead, Finish, frontVars
    <3>. QED BY <2>4, <3>1
  <2>. QED BY <1>6, <2>2, <2>5, <2>6, <2>7, <2>8, <2>9, StepPart
<1>. QED BY <1>3, <1>4, <1>5, <1>6, Moves DEF Idle

LEMMA GatewayPart ==
  ASSUME IInv, NEW w \in Workers, Step(w) \/ UpdateIgnored(w)
  PROVE  /\ exec[w].part # "ig" => igs' = igs
         /\ exec[w].part = "ig" =>
              \/ GatewayLook(w) \/ GatewayCreate(w) \/ GatewayAttach(w)
              \/ igs' = igs /\ exec[w].at \in {"table", "route"}
                 /\ exec'[w].at \in {"route", "idle"}
<1>1. CASE FrontendStep(w) /\ UNCHANGED <<networkVars, serverVars>>
  BY <1>1, FrontendWorks DEF Elsewhere
<1>2. CASE ServerStep(w) /\ UNCHANGED <<networkVars, frontVars>>
  BY <1>2, ServersWork DEF Elsewhere
<1>3. CASE UpdateIgnored(w)
  BY <1>3 DEF UpdateIgnored, TargetGroupUpdateFails, At, networkVars
<1>4. CASE \/ VpcLook(w) \/ VpcCreate(w) \/ VpcModify(w) \/ VpcRead(w)
           \/ SubnetLook(w) \/ SubnetCreate(w) \/ SubnetRead(w)
           \/ GroupLook(w) \/ GroupCreate(w) \/ GroupRules(w) \/ GroupOpen(w)
           \/ UniqueLook(w) \/ UniqueCreate(w)
  BY <1>4, VpcWorks, OthersWork DEF Elsewhere
<1>5. CASE GatewayLook(w) \/ GatewayCreate(w) \/ GatewayAttach(w)
  BY <1>5 DEF GatewayLook, GatewayCreate, GatewayAttach, At
<1>6. ASSUME TableRead(w) \/ RouteCreate(w)
      PROVE  /\ igs' = igs /\ exec[w].part = "ig" /\ exec[w].at \in {"table", "route"}
             /\ exec'[w].at \in {"route", "idle"}
  <2>1. /\ igs' = igs /\ exec[w].part = "ig" /\ exec[w].at \in {"table", "route"}
        /\ vpcs' = vpcs /\ exec[w].at # "idle"
    BY <1>6 DEF TableRead, RouteCreate, At, networkVars
  <2>2. \/ \E got : Go(w, "route", got)
        \/ exec' = [exec EXCEPT ![w] = Idle]
    BY <1>6 DEF TableRead, RouteCreate, Finish, Refused
  <2>3. vpcs' \in Nat
    BY <2>1 DEF IInv, VpcsReal
  <2>4. ASSUME NEW got, Go(w, "route", got) PROVE exec'[w].at = "route"
    BY <2>1, <2>3, <2>4, GoFacts
  <2>5. exec' = [exec EXCEPT ![w] = Idle] => exec'[w].at = "idle"
    BY DEF IInv, Forms, Idle
  <2>. QED BY <2>1, <2>2, <2>4, <2>5
<1>. QED
  BY <1>1, <1>2, <1>3, <1>4, <1>5, <1>6 DEF Step, NetworkStep

LEMMA Multiply ==
  ASSUME NEW a \in Nat, NEW b \in Nat, NEW m \in Nat, a <= b
  PROVE  a * m \in Nat /\ b * m \in Nat /\ a * m <= b * m /\ (a + 1) * m = a * m + m
  OBVIOUS

LEMMA ProvidedFinite ==
  ASSUME Types
  PROVE  /\ Provided \subseteq 1 .. vpcs /\ IsFiniteSet(Provided)
         /\ Cardinality(Provided) \in Nat
         /\ \A v \in 1 .. vpcs : Attached(v) = {} <=> v \notin Provided
         /\ igs' = igs => Provided' = Provided
         /\ Cardinality(Provided) <= vpcs
<1>1. vpcs \in Nat /\ igs \in Seq(0 .. vpcs)
  BY DEF Types, NetworkTypes
<1>2. Provided \subseteq 1 .. vpcs
  BY <1>1 DEF Provided
<1>3. IsFiniteSet(1 .. vpcs) /\ Cardinality(1 .. vpcs) = vpcs
  BY <1>1, FS_Interval
<1>4. IsFiniteSet(Provided) /\ Cardinality(Provided) \in Nat /\ Cardinality(Provided) <= vpcs
  BY <1>2, <1>3, Sizes3
<1>5. \A v \in 1 .. vpcs : Attached(v) = {} <=> v \notin Provided
  BY <1>1 DEF Attached, Provided
<1>. QED BY <1>2, <1>4, <1>5 DEF Provided

(* What each step does to the two sets of workers.                         *)
LEMMA WantingStay ==
  ASSUME Provided' = Provided
  PROVE  /\ exec' = exec => Wanting \subseteq Wanting'
         /\ \A w \in Workers :
              (\A u \in Workers \ {w} : exec'[u] = exec[u]) =>
                /\ Wanting \subseteq Wanting' \cup {w}
                /\ w \notin Wanting => Wanting \subseteq Wanting' \ {w}
<1>1. ASSUME NEW u \in Workers, exec'[u] = exec[u] PROVE u \in Wanting <=> u \in Wanting'
  BY <1>1 DEF Wanting, Arg
<1>2. Wanting \subseteq Workers /\ Wanting' \subseteq Workers
  BY DEF Wanting
<1>. QED BY <1>1, <1>2

LEMMA NextGatewaysFew == IInv /\ JInv /\ GatewaysFew /\ [Next]_vars => GatewaysFew'
<1> SUFFICES ASSUME IInv, JInv, GatewaysFew, [Next]_vars PROVE GatewaysFew'
  OBVIOUS
<1>. PICK C, C1, P, P1, A, A1 :
       /\ C = Creators("ig", "create") /\ C1 = Creators("ig", "create")'
       /\ P = Wanting /\ P1 = Wanting' /\ A = Provided /\ A1 = Provided'
  OBVIOUS
<1>. PICK k, k1, f, f1, m :
       /\ k = Len(igs) /\ k1 = Len(igs') /\ f = faults /\ f1 = faults'
       /\ m = Cardinality(Workers)
  OBVIOUS
<1>1. /\ Types /\ Types' /\ k \in Nat /\ k1 \in Nat /\ f \in Nat /\ f1 \in Nat
      /\ IsFiniteSet(Workers) /\ m \in Nat
      /\ igs \in Seq(0 .. vpcs) /\ vpcs' \in Nat
  <2>1. Types /\ Types'
    BY NextJInv DEF JInv
  <2>2. IsFiniteSet(Workers) /\ m \in Nat
    BY ProvisioningAssumption, Sizes3
  <2>. QED BY SMTT(30), <2>1, <2>2 DEF Types, EngineTypes, NetworkTypes
<1>2. /\ IsFiniteSet(C) /\ IsFiniteSet(C1) /\ IsFiniteSet(P) /\ IsFiniteSet(P1)
      /\ Cardinality(C) \in Nat /\ Cardinality(C1) \in Nat
      /\ Cardinality(P) \in Nat /\ Cardinality(P1) \in Nat
      /\ Cardinality(P) <= m
  <2>1. C \subseteq Workers /\ C1 \subseteq Workers /\ P \subseteq Workers /\ P1 \subseteq Workers
    BY DEF Creators, Wanting
  <2>. QED BY <1>1, <2>1, Sizes3
<1>3. IsFiniteSet(A) /\ Cardinality(A) \in Nat
  BY <1>1, ProvidedFinite
<1>4. k + Cardinality(C) <= Cardinality(A) * m + Cardinality(P) + f
      /\ Cardinality(A) * m \in Nat
  BY <1>1, <1>3, Multiply DEF GatewaysFew
<1>5. ASSUME A1 = A,
             k1 + Cardinality(C1) + Cardinality(P) + f <= k + Cardinality(C) + Cardinality(P1) + f1
      PROVE  GatewaysFew'
  <2>1. k1 + Cardinality(C1) <= Cardinality(A) * m + Cardinality(P1) + f1
    <3>1. PICK q : q = Cardinality(A) * m
      OBVIOUS
    <3>2. q \in Nat /\ k + Cardinality(C) <= q + Cardinality(P) + f
      BY <1>4, <3>1
    <3>3. k1 + Cardinality(C1) <= q + Cardinality(P1) + f1
      BY SMTT(30), <1>1, <1>2, <1>5, <3>2
    <3>. QED BY <3>1, <3>3
  <2>. QED BY <1>5, <2>1 DEF GatewaysFew
<1>6. igs' = igs => A1 = A /\ k1 = k
  BY <1>1, ProvidedFinite
<1>7. CASE exec' = exec /\ UNCHANGED <<igs, faults>>
  <2>1. C1 \subseteq C /\ P \subseteq P1
    BY <1>6, <1>7, CreatorsStay, WantingStay
  <2>2. Cardinality(C1) <= Cardinality(C) /\ Cardinality(P) <= Cardinality(P1)
    BY <1>2, <2>1, Sizes3
  <2>. QED BY <1>1, <1>2, <1>5, <1>6, <1>7, <2>2
<1>8. ASSUME NEW w \in Workers, \A u \in Workers \ {w} : exec'[u] = exec[u], igs' = igs,
             exec'[w].at # "create" \/ exec'[w].part # "ig",
             \/ w \notin P /\ faults' = faults
             \/ faults' = faults + 1
      PROVE  GatewaysFew'
  <2>1. C1 \subseteq C
    BY <1>8, CreatorsStay
  <2>2. P \subseteq P1 \cup {w} /\ (w \notin P => P \subseteq P1)
    BY <1>6, <1>8, WantingStay
  <2>3. /\ Cardinality(C1) <= Cardinality(C) /\ Cardinality(P) <= Cardinality(P1) + 1
        /\ w \notin P => Cardinality(P) <= Cardinality(P1)
    BY <1>2, <2>1, <2>2, Sizes3
  <2>. QED BY <1>1, <1>2, <1>5, <1>6, <1>8, <2>3
<1>9. ASSUME NEW w \in Workers, Step(w) \/ UpdateIgnored(w) PROVE GatewaysFew'
  <2>1. Works(w) /\ exec[w].at # "idle" /\ \A u \in Workers \ {w} : exec'[u] = exec[u]
    BY <1>9, StepWorks DEF Works
  <2>2. CASE exec[w].part # "ig"
    <3>1. igs' = igs /\ w \notin P /\ (exec'[w].at # "create" \/ exec'[w].part # "ig")
      BY <1>9, <2>1, <2>2, GatewayPart DEF Works, Wanting, Idle
    <3>. QED BY <1>8, <1>9, <2>1, <3>1, StepPart
  <2>3. exec[w].part = "ig" => faults' = faults
    BY <1>9, StepPart DEF TargetGroupUpdateFails, At
  <2>4. CASE /\ igs' = igs /\ exec[w].at \in {"table", "route"} /\ exec[w].part = "ig"
             /\ exec'[w].at \in {"route", "idle"}
    <3>1. w \notin P /\ exec'[w].at # "create"
      BY <2>4 DEF Wanting
    <3>. QED BY <1>8, <2>1, <2>3, <2>4, <3>1
  <2>. PICK v : v = Arg(w, "vpc")
    OBVIOUS
  <2>5. exec[w].part = "ig" => v \in 1 .. vpcs /\ (Attached(v) = {} <=> v \notin A)
    BY <1>1, <2>1, VpcArg, ProvidedFinite
  <2>6. CASE GatewayLook(w)
    <3>1. /\ igs' = igs /\ exec[w].part = "ig" /\ exec[w].at = "start"
          /\ IF Attached(v) = {} THEN Go(w, "create", <<>>) ELSE \E got : Go(w, "table", got)
      BY <2>6 DEF GatewayLook, At, networkVars
    <3>2. w \notin P
      BY <3>1 DEF Wanting
    <3>3. CASE Attached(v) = {}
      <4>1. /\ exec'[w].at = "create" /\ exec'[w].part = "ig" /\ exec'[w].args = exec[w].args
        BY <1>1, <2>1, <3>1, <3>3, GoFacts
      <4>2. w \in P1
        BY <1>6, <2>5, <3>1, <3>3, <4>1 DEF Wanting, Arg
      <4>3. P \subseteq P1 \ {w} /\ C1 \subseteq C \cup {w}
        BY <1>6, <2>1, <3>1, <3>2, WantingStay, CreatorsStay
      <4>4. Cardinality(P) + 1 <= Cardinality(P1) /\ Cardinality(C1) <= Cardinality(C) + 1
        BY <1>2, <4>2, <4>3, Sizes3
      <4>. QED BY <1>1, <1>2, <1>5, <1>6, <2>3, <3>1, <4>4
    <3>4. CASE Attached(v) # {}
      <4>1. exec'[w].at = "table"
        BY <1>1, <2>1, <3>1, <3>4, GoFacts
      <4>. QED BY <1>8, <2>1, <2>3, <3>1, <3>2, <4>1
    <3>. QED BY <3>3, <3>4
  <2>7. CASE GatewayCreate(w)
    <3>1. /\ igs' = Append(igs, 0) /\ exec[w].part = "ig" /\ exec[w].at = "create" /\ w \in C
          /\ Go(w, "attach", <<Len(igs) + 1>>)
      BY <2>7 DEF GatewayCreate, At, Creators
    <3>2. /\ exec'[w].at = "attach" /\ exec'[w].part = "ig" /\ exec'[w].args = exec[w].args
      BY <1>1, <2>1, <3>1, GoFacts
    <3>3. A1 = A /\ k1 = k + 1
      <4>1. /\ DOMAIN igs = 1 .. Len(igs) /\ Len(igs) \in Nat
            /\ DOMAIN igs' = 1 .. Len(igs) + 1 /\ Len(igs') = Len(igs) + 1
            /\ \A i \in DOMAIN igs : igs'[i] = igs[i]
            /\ igs'[Len(igs) + 1] = 0
        BY <1>1, <3>1
      <4>. QED BY <4>1 DEF Provided
    <3>4. w \in P => w \in P1
      BY <3>1, <3>2, <3>3 DEF Wanting, Arg
    <3>5. P \subseteq P1 /\ C1 \subseteq C \ {w}
      BY <2>1, <3>2, <3>3, <3>4, WantingStay, CreatorsStay
    <3>6. Cardinality(P) <= Cardinality(P1) /\ Cardinality(C1) + 1 <= Cardinality(C)
      BY <1>2, <3>1, <3>5, Sizes3
    <3>. QED BY SMTT(30), <1>1, <1>2, <1>5, <2>3, <3>1, <3>3, <3>6
  <2>8. CASE GatewayAttach(w)
    <3>1. /\ exec[w].part = "ig" /\ exec[w].at = "attach"
          /\ IF Attached(v) # {} THEN Refused(w) /\ igs' = igs
             ELSE igs' = [igs EXCEPT ![exec[w].got[1]] = v] /\ Go(w, "table", exec[w].got)
      BY <2>8 DEF GatewayAttach, At
    <3>2. CASE Attached(v) # {}
      <4>1. exec'[w].at = "idle"
        BY <3>1, <3>2 DEF Refused, IInv, Forms, Idle
      <4>2. w \notin P
        BY <2>5, <3>1, <3>2 DEF Wanting
      <4>. QED BY <1>8, <2>1, <2>3, <3>1, <3>2, <4>1, <4>2
    <3>3. CASE Attached(v) = {}
      <4>. PICK i : i = exec[w].got[1]
        OBVIOUS
      <4>1. i \in 1 .. Len(igs) /\ igs[i] = 0
        BY <3>1 DEF IInv, GatewaysHeld, Busy
      <4>2. /\ DOMAIN igs = 1 .. Len(igs) /\ DOMAIN igs' = DOMAIN igs
            /\ igs'[i] = v /\ \A j \in DOMAIN igs \ {i} : igs'[j] = igs[j]
            /\ k1 = k
        BY <1>1, <3>1, <3>3, <4>1
      <4>3. v # 0 /\ v \notin A
        BY <1>1, <2>5, <3>1, <3>3 DEF Types, NetworkTypes
      <4>4. A1 = A \cup {v}
        BY <4>1, <4>2, <4>3 DEF Provided
      <4>5. Cardinality(A1) = Cardinality(A) + 1
        BY <1>3, <4>3, <4>4, FS_AddElement
      <4>6. Cardinality(A1) * m = Cardinality(A) * m + m
        BY <1>1, <1>3, <4>5, Multiply
      <4>7. exec'[w].at = "table"
        BY <1>1, <2>1, <3>1, <3>3, GoFacts
      <4>8. Cardinality(C1) <= Cardinality(C)
        <5>1. C1 \subseteq C
          BY <2>1, <4>7, CreatorsStay
        <5>. QED BY <1>2, <5>1, Sizes3
      <4>9. k1 + Cardinality(C1) <= Cardinality(A1) * m + Cardinality(P1) + f1
        <5>1. PICK q, q1 : q = Cardinality(A) * m /\ q1 = Cardinality(A1) * m
          OBVIOUS
        <5>2. f1 = f
          BY <2>3, <3>1
        <5>3. q1 = q + m /\ q \in Nat /\ k + Cardinality(C) <= q + Cardinality(P) + f
          BY <1>4, <4>6, <5>1
        <5>4. k1 + Cardinality(C1) <= q1 + Cardinality(P1) + f1
          BY SMTT(30), <1>1, <1>2, <4>2, <4>8, <5>2, <5>3
        <5>. QED BY <5>1, <5>4
      <4>. QED BY <4>9 DEF GatewaysFew
    <3>. QED BY <3>2, <3>3
  <2>. QED BY <1>9, <2>2, <2>4, <2>6, <2>7, <2>8, GatewayPart
<1>10. CASE \E c \in Clusters : Provision(c) /\ UNCHANGED account
  BY <1>7, <1>10 DEF Provision, account, networkVars
<1>11. ASSUME NEW w \in Workers, NEW c \in Clusters, NEW p \in Parts,
              Begin(w, c, p), UNCHANGED account
       PROVE  GatewaysFew'
  <2>1. PICK e : e.at = "start" /\ exec' = [exec EXCEPT ![w] = e]
    BY <1>11 DEF Begin
  <2>2. exec'[w].at = "start" /\ \A u \in Workers \ {w} : exec'[u] = exec[u]
    BY <2>1 DEF IInv, Forms
  <2>3. igs' = igs /\ faults' = faults /\ w \notin P
    BY <1>11 DEF Begin, account, networkVars, Wanting, Idle
  <2>. QED BY <1>8, <2>2, <2>3
<1>12. ASSUME NEW w \in Workers, Stop(w), UNCHANGED account PROVE GatewaysFew'
  <2>1. exec'[w] = Idle /\ \A u \in Workers \ {w} : exec'[u] = exec[u]
    BY <1>12 DEF Stop, IInv, Forms
  <2>2. igs' = igs /\ faults' = faults + 1
    BY <1>12 DEF Stop, account, networkVars
  <2>. QED BY <1>8, <2>1, <2>2 DEF Idle
<1>13. CASE Aws
  BY <1>7, <1>13 DEF Aws, Validated, networkVars, engine, Proceeds
<1>14. CASE UNCHANGED vars
  BY <1>7, <1>14 DEF vars, account, networkVars, engine
<1>. QED BY <1>9, <1>10, <1>11, <1>12, <1>13, <1>14 DEF Next

LEMMA InitFew == Init => VpcsFew /\ CertsFew /\ GatewaysFew
<1> SUFFICES ASSUME Init PROVE VpcsFew /\ CertsFew /\ GatewaysFew
  OBVIOUS
<1>1. \A w \in Workers : exec[w] = Idle
  BY DEF Init, InitEngine
<1>2. /\ Creators("vpc", "create") = {} /\ Creators("cert", "new") = {}
      /\ Creators("ig", "create") = {} /\ Wanting = {}
  BY <1>1 DEF Creators, Wanting, At, Idle
<1>3. Cardinality({}) = 0 /\ Cardinality(Workers) \in Nat \ {0}
  BY FS_EmptySet, CreatorsFinite
<1>4. (vpcs = 0 \/ vpcs = 1) /\ igs = <<>> /\ faults = 0
  BY DEF Init, InitNetwork, InitEngine
<1>5. Len(certs) = 0 \/ Len(certs) = 1
  BY DEF Init, InitFrontend
<1>6. Provided = {} /\ Len(igs) = 0
  BY <1>4 DEF Provided
<1>. PICK m : m = Cardinality(Workers)
  OBVIOUS
<1>7. /\ Cardinality(Creators("vpc", "create")) = 0 /\ Cardinality(Creators("cert", "new")) = 0
      /\ Cardinality(Creators("ig", "create")) = 0 /\ Cardinality(Wanting) = 0
      /\ Cardinality(Provided) = 0 /\ m \in Nat \ {0}
  BY <1>2, <1>3, <1>6, Zenon
<1>8. VpcsFew /\ CertsFew
  <2>1. m \in Nat /\ m # 0
    BY <1>7
  <2>2. vpcs + 0 <= m
    BY <1>4, <2>1
  <2>3. Len(certs) + 0 <= m
    BY <1>5, <2>1
  <2>. QED BY <1>7, <2>2, <2>3 DEF VpcsFew, CertsFew
<1>9. GatewaysFew
  <2>1. 0 * m = 0
    BY <1>7
  <2>. QED BY <1>4, <1>6, <1>7, <2>1 DEF GatewaysFew
<1>. QED BY <1>8, <1>9

(* Executing a part again makes nothing new: as many VPCs and certificates *)
(* as executions that looked for one at the same time, as many gateways    *)
(* for a VPC, and one for each execution that was stopped before it        *)
(* attached its own (vpc.go, acm.go, ig.go).                               *)
THEOREM FewMade == Spec => []NoSurplus
<1>1. IInv /\ JInv /\ VpcsFew /\ CertsFew /\ GatewaysFew => NoSurplus
  <2> SUFFICES ASSUME IInv, JInv, VpcsFew, CertsFew, GatewaysFew PROVE NoSurplus
    OBVIOUS
  <2>. PICK m : m = Cardinality(Workers)
    OBVIOUS
  <2>1. /\ m \in Nat
        /\ \A p, at : Cardinality(Creators(p, at)) \in Nat
    BY CreatorsFinite
  <2>2. Types /\ vpcs \in Nat /\ faults \in Nat /\ Len(igs) \in Nat
    BY DEF JInv, Types, EngineTypes, NetworkTypes
  <2>3. Len(certs) \in Nat
    BY SeqDomain, Zenon DEF JInv, Types, FrontendTypes
  <2>4. vpcs <= m /\ Len(certs) <= m
    BY <2>1, <2>2, <2>3 DEF VpcsFew, CertsFew
  <2>5. Cardinality(Provided) \in Nat /\ Cardinality(Provided) <= vpcs
    BY <2>2, ProvidedFinite
  <2>6. Cardinality(Provided) * m + Cardinality(Wanting) <= vpcs * m
        /\ Cardinality(Provided) * m \in Nat /\ vpcs * m \in Nat
    <3>1. Cardinality(Provided) * m <= vpcs * m
          /\ Cardinality(Provided) * m \in Nat /\ vpcs * m \in Nat
      BY <2>1, <2>2, <2>5, Multiply
    <3>2. CASE Wanting = {}
      BY <3>1, <3>2, FS_EmptySet
    <3>3. CASE Wanting # {}
      <4>1. PICK w \in Workers : w \in Wanting
        BY <3>3 DEF Wanting
      <4>2. Arg(w, "vpc") \in 1 .. vpcs /\ Arg(w, "vpc") \notin Provided
        BY <4>1, VpcArg DEF Wanting
      <4>3. Cardinality(Provided) + 1 <= vpcs
        <5>1. IsFiniteSet(1 .. vpcs) /\ Cardinality(1 .. vpcs) = vpcs
          BY <2>2, FS_Interval
        <5>2. Provided \subseteq (1 .. vpcs) \ {Arg(w, "vpc")}
          BY <2>2, <4>2, ProvidedFinite
        <5>. QED BY <4>2, <5>1, <5>2, Sizes3
      <4>4. (Cardinality(Provided) + 1) * m <= vpcs * m
        BY <2>1, <2>2, <2>5, <4>3, Multiply
      <4>5. (Cardinality(Provided) + 1) * m = Cardinality(Provided) * m + m
        BY <2>1, <2>5, Multiply
      <4>6. Cardinality(Wanting) <= m /\ Cardinality(Wanting) \in Nat
        <5>1. Wanting \subseteq Workers
          BY DEF Wanting
        <5>. QED BY <5>1, ProvisioningAssumption, Sizes3
      <4>. PICK q, r : q = Cardinality(Provided) * m /\ r = vpcs * m
        OBVIOUS
      <4>7. q + m <= r /\ q \in Nat /\ r \in Nat
        BY <3>1, <4>4, <4>5
      <4>8. q + Cardinality(Wanting) <= r
        BY <2>1, <4>6, <4>7
      <4>. QED BY <3>1, <4>8
    <3>. QED BY <3>2, <3>3
  <2>7. Len(igs) <= vpcs * m + faults
    <3>. PICK q, r, n, d : /\ q = Cardinality(Provided) * m /\ r = vpcs * m
                           /\ n = Cardinality(Wanting)
                           /\ d = Cardinality(Creators("ig", "create"))
      OBVIOUS
    <3>1. Len(igs) + d <= q + n + faults
      BY DEF GatewaysFew
    <3>2. q + n <= r /\ q \in Nat /\ r \in Nat /\ d \in Nat
      BY <2>1, <2>6
    <3>3. n \in Nat
      <4>1. Wanting \subseteq Workers
        BY DEF Wanting
      <4>. QED BY <4>1, ProvisioningAssumption, Sizes3
    <3>. QED BY SMTT(30), <2>2, <3>1, <3>2, <3>3
  <2>. QED BY <2>4, <2>7 DEF NoSurplus
<1>2. Init => IInv /\ JInv /\ VpcsFew /\ CertsFew /\ GatewaysFew
  BY InitIInv, InitJInv, InitFew
<1>3. IInv /\ JInv /\ VpcsFew /\ CertsFew /\ GatewaysFew /\ [Next]_vars
        => (IInv /\ JInv /\ VpcsFew /\ CertsFew /\ GatewaysFew)'
  BY NextIInv, NextJInv, NextVpcsFew, NextCertsFew, NextGatewaysFew
<1>. QED BY <1>1, <1>2, <1>3, PTL DEF Spec
=============================================================================
