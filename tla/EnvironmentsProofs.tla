--------------------------- MODULE EnvironmentsProofs ---------------------------
(***************************************************************************)
(* Proofs about the executions of environments, for any number of them and *)
(* of environments, requests and timers, any revisions and any faults.     *)
(***************************************************************************)
EXTENDS Environments, TLAPS

USE EnvironmentsAssumption

-----------------------------------------------------------------------------
(* The inductive invariant.                                                *)

Execution ==
  [env : Env \cup {""}, by : {"", "request", "timer"},
   pc : {"idle", "clone", "reset", "list", "parse", "provision"},
   dirs : Seq([name : STRING, kind : STRING]), todo : SUBSET Nat,
   files : SUBSET STRING, rev : Nat, shared : BOOLEAN]

Types ==
  /\ repo \in [Env -> DOMAIN Revisions]
  /\ dir \in [Env -> Nat]
  /\ last \in [Env -> [SystemNames -> Nat]]
  /\ act \in [Act -> Execution]
  /\ faults \in [FaultKind -> Nat]

Active(a) == act[a].pc # "idle"

(* r is the execution x at another place.                                  *)
Continues(r, x) == r.env = x.env /\ r.by = x.by /\ r.shared = x.shared

(* Two executions of an environment know of each other.                    *)
Alone ==
  /\ \A a \in Act : Active(a) => EnvOf(a) \in Env /\ act[a].by # ""
  /\ \A a, b \in Act : a # b /\ Active(a) /\ Active(b) /\ EnvOf(a) = EnvOf(b) =>
       act[a].shared /\ act[b].shared

(* What an execution x may hold while the revision r is checked out in its *)
(* directory: one that has the directory for itself holds what is there.   *)
Fits(x, r) ==
  /\ x.pc \in {"reset", "list", "parse", "provision"} => r \in DOMAIN Revisions
  /\ x.pc \in {"parse", "provision"} /\ ~x.shared =>
       x.dirs = Revisions[r].dirs /\ x.todo \subseteq DOMAIN x.dirs
  /\ x.pc = "provision" => x.rev <= r /\ (~x.shared => x.rev = r)

Holding == \A a \in Act : Active(a) => Fits(act[a], dir[EnvOf(a)])

(* Nothing is newer than the repository, nor provisioned before it was     *)
(* checked out.                                                            *)
Behind ==
  \A e \in Env : dir[e] <= repo[e] /\ \A s \in SystemNames : last[e][s] <= dir[e]

IInv == Types /\ Alone /\ Holding /\ Behind

-----------------------------------------------------------------------------

LEMMA RevisionFacts ==
  /\ DOMAIN Revisions = 1 .. Len(Revisions) /\ Len(Revisions) \in Nat \ {0}
  /\ \A r \in DOMAIN Revisions :
       /\ Revisions[r].dirs \in Seq([name : STRING, kind : STRING])
       /\ Revisions[r].files \in SUBSET STRING
       /\ r \in Nat \ {0}
<1>1. DOMAIN Revisions = 1 .. Len(Revisions) /\ Len(Revisions) \in Nat \ {0}
      /\ \A r \in DOMAIN Revisions : Revisions[r] \in Revision
  OBVIOUS
<1>. QED
  BY <1>1 DEF Revision

LEMMA IdleType == Idle \in Execution /\ Idle.pc = "idle"
<1>1. <<>> \in Seq([name : STRING, kind : STRING])
  OBVIOUS
<1>2. {} \in SUBSET Nat /\ {} \in SUBSET STRING
  OBVIOUS
<1>3. "idle" \in {"idle", "clone", "reset", "list", "parse", "provision"}
  OBVIOUS
<1>. QED
  BY <1>1, <1>2, <1>3 DEF Idle, Execution

LEMMA InitIInv == Init => IInv
<1> SUFFICES ASSUME Init PROVE IInv
  OBVIOUS
<1>1. Types
  BY RevisionFacts, IdleType DEF Init, Types
<1>2. \A a \in Act : ~Active(a)
  BY IdleType DEF Init, Active
<1>3. Behind
  BY DEF Init, Behind
<1>. QED
  BY <1>1, <1>2, <1>3 DEF IInv, Alone, Holding

(* No execution begins: those that there are know of each other as before.  *)
LEMMA AloneKept ==
  ASSUME IInv,
         \A b \in Act : act'[b].pc # "idle" =>
           act[b].pc # "idle" /\ Continues(act'[b], act[b])
  PROVE  Alone'
  BY ZenonT(60) DEF IInv, Alone, Active, EnvOf, Continues

(* An execution goes on, or ends.                                          *)
LEMMA GoesOn ==
  ASSUME IInv, NEW a \in Act, Active(a), NEW r \in Execution,
         act' = [act EXCEPT ![a] = r],
         r.pc # "idle" =>
           /\ Continues(r, act[a])
           /\ Fits(r, dir[EnvOf(a)]),
         last' \in [Env -> [SystemNames -> Nat]],
         \A e \in Env, s \in SystemNames : last'[e][s] <= dir[e],
         faults' \in [FaultKind -> Nat], UNCHANGED <<repo, dir>>
  PROVE  IInv'
<1>1. \A b \in Act : act'[b] = IF b = a THEN r ELSE act[b]
  BY DEF IInv, Types
<1>2. Types'
  BY DEF IInv, Types
<1>3. \A b \in Act : act'[b].pc # "idle" =>
        act[b].pc # "idle" /\ Continues(act'[b], act[b])
  BY <1>1 DEF Active, Continues
<1>4. Alone'
  BY <1>3, AloneKept
<1>5. Holding'
  BY <1>1 DEF IInv, Holding, Active, EnvOf, Fits, Continues
<1>6. Behind'
  BY DEF IInv, Behind
<1>. QED BY <1>2, <1>4, <1>5, <1>6 DEF IInv

LEMMA Ends ==
  ASSUME IInv, NEW a \in Act, Active(a), End(a),
         faults' \in [FaultKind -> Nat], UNCHANGED <<repo, dir, last>>
  PROVE  IInv'
<1>1. last \in [Env -> [SystemNames -> Nat]]
      /\ \A e \in Env, s \in SystemNames : last[e][s] <= dir[e]
  BY DEF IInv, Types, Behind
<1>. QED BY <1>1, GoesOn, IdleType DEF End

(* The process ends.                                                       *)
LEMMA DownKeeps ==
  ASSUME IInv, Down, faults' \in [FaultKind -> Nat], UNCHANGED <<repo, dir, last>>
  PROVE  IInv'
<1>1. Types' /\ \A a \in Act : ~Active(a)'
  BY IdleType DEF Down, IInv, Types, Active
<1>2. Behind'
  BY DEF IInv, Behind
<1>. QED BY <1>1, <1>2 DEF IInv, Alone, Holding

LEMMA SpendType ==
  ASSUME IInv, NEW k \in FaultKind, Spend(k)
  PROVE  faults' \in [FaultKind -> Nat]
  BY DEF IInv, Types, Spend

(* An execution begins: whoever is busy with its environment is not alone  *)
(* any more.                                                               *)
LEMMA BeginKeeps ==
  ASSUME IInv, NEW a \in Act, NEW e \in Env, NEW by \in {"request", "timer"},
         a \in Free, Begin(a, e, by),
         UNCHANGED <<repo, dir, last, faults>>
  PROVE  IInv'
<1>. DEFINE n == [Idle EXCEPT !.env = e, !.by = by, !.pc = "clone", !.shared = Busy(e) # {}]
<1>1. n \in Execution /\ n.pc = "clone" /\ n.env = e /\ n.by # ""
      /\ n.shared = (Busy(e) # {})
  BY IdleType DEF Idle, Execution
<1>2. ASSUME NEW b \in Act
      PROVE  /\ [act[b] EXCEPT !.shared = TRUE] \in Execution
             /\ [act[b] EXCEPT !.shared = TRUE].shared
             /\ \A f \in {"env", "by", "pc", "dirs", "todo", "files", "rev"} :
                  [act[b] EXCEPT !.shared = TRUE][f] = act[b][f]
  BY DEF IInv, Types, Execution
<1>3. act' = [b \in Act |-> IF b = a THEN n
                            ELSE IF b \in Busy(e) THEN [act[b] EXCEPT !.shared = TRUE]
                            ELSE act[b]]
  BY DEF Begin
<1>. HIDE DEF n
<1>4. Types'
  BY <1>1, <1>2, <1>3 DEF IInv, Types
<1>5. \A b \in Act \ {a} :
        /\ act'[b].pc = act[b].pc /\ act'[b].env = act[b].env
        /\ act'[b].by = act[b].by /\ act'[b].rev = act[b].rev
        /\ act'[b].dirs = act[b].dirs /\ act'[b].todo = act[b].todo
        /\ act[b].shared => act'[b].shared
        /\ act[b].env = e => act'[b].shared
  BY <1>2, <1>3 DEF Busy
<1>6. act'[a] = n
  BY <1>3
<1>7. Alone'
  <2>1. \A b \in Act : Active(b)' => EnvOf(b)' \in Env /\ act'[b].by # ""
    BY <1>1, <1>5, <1>6 DEF IInv, Alone, Active, EnvOf
  <2>2. ASSUME NEW b \in Act, NEW c \in Act, b # c, Active(b)', Active(c)',
               EnvOf(b)' = EnvOf(c)'
        PROVE  act'[b].shared /\ act'[c].shared
    <3>1. CASE b # a /\ c # a
      BY ZenonT(30), <1>5, <2>2, <3>1 DEF IInv, Alone, Active, EnvOf
    <3>2. ASSUME NEW d \in Act \ {a}, EnvOf(d)' = e
          PROVE  n.shared /\ act'[d].shared
      <4>1. d \in Busy(e) /\ act[d].env = e
        BY <1>5, <3>2 DEF EnvOf, Busy
      <4>. QED BY <1>1, <1>5, <4>1
    <3>. QED
      BY <1>1, <1>6, <2>2, <3>1, <3>2 DEF EnvOf
  <2>. QED BY <2>1, <2>2 DEF Alone
<1>8. Holding'
  BY ZenonT(60), <1>1, <1>5, <1>6 DEF IInv, Holding, Active, EnvOf, Fits
<1>9. Behind'
  BY DEF IInv, Behind
<1>. QED BY <1>4, <1>7, <1>8, <1>9 DEF IInv

(* The newest revision is checked out: of the executions that go on in     *)
(* the directory none thinks it is alone.                                  *)
LEMMA CloneKeeps ==
  ASSUME IInv, NEW a \in Act, Clone(a)
  PROVE  IInv'
<1>. DEFINE e  == EnvOf(a)
            pc == IF act[a].by = "request" THEN "reset" ELSE "list"
            r  == [act[a] EXCEPT !.pc = pc]
<1>1. act[a].pc = "clone" /\ e \in Env /\ UNCHANGED <<repo, last, faults>>
  BY DEF Clone, At, IInv, Alone, Active, EnvOf, hist
<1>2. r \in Execution /\ r.pc \in {"reset", "list"} /\ Continues(r, act[a])
  BY DEF IInv, Types, Execution, Continues
<1>3. act' = [act EXCEPT ![a] = r] /\ dir' = [dir EXCEPT ![e] = repo[e]]
  BY DEF Clone, Goto
<1>4. repo[e] \in DOMAIN Revisions /\ repo[e] \in Nat /\ dir[e] \in Nat /\ dir[e] <= repo[e]
  BY <1>1, RevisionFacts DEF IInv, Types, Behind
<1>. HIDE DEF r
<1>5. \A b \in Act : act'[b] = IF b = a THEN r ELSE act[b]
  BY <1>3 DEF IInv, Types
<1>6. dir'[e] = repo[e] /\ \A f \in Env : f # e => dir'[f] = dir[f]
  BY <1>1, <1>3 DEF IInv, Types
<1>7. Types'
  BY <1>1, <1>2, <1>3, <1>4 DEF IInv, Types
<1>8. \A b \in Act : act'[b].pc # "idle" =>
        act[b].pc # "idle" /\ Continues(act'[b], act[b])
  BY <1>1, <1>2, <1>5 DEF Continues
<1>9. Alone'
  BY <1>8, AloneKept
<1>10. Holding'
  <2>1. ASSUME NEW b \in Act, Active(b)'
        PROVE  Fits(act'[b], dir'[EnvOf(b)'])
    <3>1. CASE b = a
      BY <1>2, <1>4, <1>5, <1>6, <3>1 DEF Fits, EnvOf, Continues
    <3>2. CASE b # a /\ EnvOf(b) # e
      BY <1>5, <1>6, <2>1, <3>2 DEF IInv, Alone, Holding, Active, EnvOf
    <3>3. CASE b # a /\ EnvOf(b) = e
      <4>1. Fits(act[b], dir[e]) /\ act[b].shared /\ act'[b] = act[b]
        BY <1>1, <1>5, <2>1, <3>3 DEF IInv, Alone, Holding, Active, EnvOf
      <4>2. act[b].rev \in Nat
        BY DEF IInv, Types, Execution
      <4>3. act[b].rev <= dir[e] => act[b].rev <= repo[e]
        BY <1>4, <4>2
      <4>. QED
        BY <1>4, <1>6, <3>3, <4>1, <4>3 DEF Fits, EnvOf
    <3>. QED BY <3>1, <3>2, <3>3
  <2>. QED BY <2>1 DEF Holding
<1>11. Behind'
  <2>1. \A s \in SystemNames : last[e][s] \in Nat /\ last[e][s] <= dir[e]
    BY <1>1 DEF IInv, Types, Behind
  <2>. QED
    BY <1>1, <1>4, <1>6, <2>1 DEF IInv, Behind
<1>. QED BY <1>7, <1>9, <1>10, <1>11 DEF IInv

(* What an execution that goes on is, and what has been provisioned.       *)
LEMMA ActiveFacts ==
  ASSUME IInv, NEW a \in Act, Active(a)
  PROVE  /\ act[a] \in Execution /\ EnvOf(a) \in Env /\ act[a].by # ""
         /\ Fits(act[a], dir[EnvOf(a)])
         /\ last \in [Env -> [SystemNames -> Nat]]
         /\ \A e \in Env, s \in SystemNames : last[e][s] <= dir[e]
         /\ faults \in [FaultKind -> Nat]
  BY DEF IInv, Types, Alone, Holding, Behind, EnvOf

LEMMA ResetKeeps ==
  ASSUME IInv, NEW a \in Act, Reset(a)
  PROVE  IInv'
<1>1. Active(a) /\ act[a].pc = "reset" /\ UNCHANGED <<repo, dir, last, faults>>
  BY DEF Reset, At, Active, hist
<1>2. CASE End(a)
  BY <1>1, <1>2, ActiveFacts, Ends
<1>3. CASE Goto(a, "list")
  <2>. DEFINE r == [act[a] EXCEPT !.pc = "list"]
  <2>1. r \in Execution /\ Continues(r, act[a]) /\ r.pc = "list"
    BY <1>1, ActiveFacts DEF Execution, Continues
  <2>2. act' = [act EXCEPT ![a] = r]
    BY <1>3 DEF Goto
  <2>. HIDE DEF r
  <2>3. Fits(r, dir[EnvOf(a)])
    BY <1>1, <2>1, ActiveFacts DEF Fits, Continues
  <2>. QED BY <1>1, <2>1, <2>2, <2>3, ActiveFacts, GoesOn
<1>. QED BY <1>2, <1>3 DEF Reset

LEMMA FindKeeps ==
  ASSUME IInv, NEW a \in Act, Find(a)
  PROVE  IInv'
<1>. DEFINE ds == Dir(a).dirs
            todo == {i \in DOMAIN ds : IsSystem(ds[i])}
            r  == [act[a] EXCEPT !.pc = "parse", !.files = Dir(a).files,
                                 !.dirs = ds, !.todo = todo]
<1>1. Active(a) /\ act[a].pc = "list" /\ UNCHANGED <<repo, dir, last, faults>>
  BY DEF Find, At, Active, hist
<1>2. dir[EnvOf(a)] \in DOMAIN Revisions
  BY <1>1, ActiveFacts DEF Fits, Continues
<1>3. ds \in Seq([name : STRING, kind : STRING]) /\ Dir(a).files \in SUBSET STRING
  BY <1>2, RevisionFacts DEF Dir
<1>4. todo \subseteq DOMAIN ds /\ todo \subseteq Nat
  BY <1>3
<1>5. act' = [act EXCEPT ![a] = r]
  BY DEF Find
<1>. HIDE DEF todo
<1>6. Continues(r, act[a]) /\ r.pc = "parse"
      /\ r.dirs = ds /\ r.todo = todo
  BY <1>1, ActiveFacts DEF Execution, Continues
<1>7. r \in Execution
  BY ZenonT(30), <1>1, <1>3, <1>4, ActiveFacts DEF Execution
<1>. HIDE DEF r
<1>8. Fits(r, dir[EnvOf(a)])
  BY <1>2, <1>4, <1>6 DEF Fits, Dir, Continues
<1>. QED BY <1>1, <1>5, <1>6, <1>7, <1>8, ActiveFacts, GoesOn

LEMMA ParseKeeps ==
  ASSUME IInv, NEW a \in Act, Parse(a)
  PROVE  IInv'
<1>1. Active(a) /\ act[a].pc = "parse" /\ UNCHANGED <<repo, dir, last, faults>>
  BY DEF Parse, At, Active, hist
<1>2. CASE End(a)
  BY <1>1, <1>2, ActiveFacts, Ends
<1>3. CASE act' = [act EXCEPT ![a].pc = "provision", ![a].rev = dir[EnvOf(a)]]
  <2>. DEFINE r == [act[a] EXCEPT !.pc = "provision", !.rev = dir[EnvOf(a)]]
  <2>1. dir[EnvOf(a)] \in DOMAIN Revisions /\ dir[EnvOf(a)] \in Nat
    BY <1>1, ActiveFacts, RevisionFacts DEF Fits
  <2>2. r \in Execution
    BY <1>1, <2>1, ActiveFacts DEF Execution
  <2>3. Continues(r, act[a]) /\ r.pc = "provision"
        /\ r.dirs = act[a].dirs /\ r.todo = act[a].todo /\ r.rev = dir[EnvOf(a)]
    BY <1>1, ActiveFacts DEF Execution, Continues
  <2>4. act' = [act EXCEPT ![a] = r]
    BY <1>3
  <2>. HIDE DEF r
  <2>5. Fits(act[a], dir[EnvOf(a)])
    BY <1>1, ActiveFacts
  <2>6. Fits(r, dir[EnvOf(a)])
    BY <1>1, <2>1, <2>3, <2>5 DEF Fits, Continues
  <2>. QED BY <1>1, <2>2, <2>3, <2>4, <2>6, ActiveFacts, GoesOn
<1>. QED BY <1>2, <1>3 DEF Parse

(* What an execution has read is not newer than the directory.             *)
LEMMA ProvisionKeeps ==
  ASSUME IInv, NEW a \in Act, Provision(a)
  PROVE  IInv'
<1>. DEFINE e == EnvOf(a)
            r == [act[a] EXCEPT !.pc = "parse", !.todo = @ \ First(a)]
<1>1. Active(a) /\ act[a].pc = "provision" /\ UNCHANGED <<repo, dir, faults>>
  BY DEF Provision, At, Active
<1>2. /\ act[a] \in Execution /\ act[a].rev \in Nat /\ act[a].todo \in SUBSET Nat
      /\ act[a].rev <= dir[e] /\ e \in Env
  BY <1>1, ActiveFacts DEF Fits, Execution
<1>3. PICK s : last' = [last EXCEPT ![e][s] = act[a].rev]
  BY DEF Provision
<1>4. /\ last' \in [Env -> [SystemNames -> Nat]]
      /\ \A f \in Env, t \in SystemNames : last'[f][t] <= dir[f]
  BY <1>1, <1>2, <1>3, ActiveFacts
<1>5. r \in Execution
  BY <1>2 DEF Execution
<1>6. Continues(r, act[a]) /\ r.pc = "parse"
      /\ r.dirs = act[a].dirs /\ r.todo = act[a].todo \ First(a)
  BY <1>2 DEF Execution, Continues
<1>7. act' = [act EXCEPT ![a] = r]
  BY DEF Provision
<1>. HIDE DEF r
<1>8. Fits(r, dir[e])
  BY <1>1, <1>6, ActiveFacts DEF Fits, Continues
<1>. QED BY <1>1, <1>4, <1>5, <1>6, <1>7, <1>8, ActiveFacts, GoesOn

LEMMA CloneFailsKeeps ==
  ASSUME IInv, NEW a \in Act, CloneFails(a)
  PROVE  IInv'
<1>1. Active(a) /\ UNCHANGED <<repo, dir, last>>
  BY DEF CloneFails, At, Active, hist
<1>2. faults' \in [FaultKind -> Nat]
  BY SpendType DEF CloneFails, FaultKind
<1>. QED BY <1>1, <1>2, Ends, DownKeeps DEF CloneFails

LEMMA PushKeeps ==
  ASSUME IInv, NEW e \in Env, Push(e)
  PROVE  IInv'
<1>1. repo[e] \in Nat /\ repo[e] + 1 \in DOMAIN Revisions
  BY RevisionFacts DEF Push, IInv, Types
<1>2. Types'
  BY <1>1 DEF Push, IInv, Types, hist
<1>3. Behind'
  BY <1>1, RevisionFacts DEF Push, IInv, Types, Behind, hist
<1>. QED
  BY <1>2, <1>3 DEF Push, IInv, Alone, Holding, Active, EnvOf, Fits

LEMMA StepIInv == IInv /\ [Next]_vars => IInv'
<1> SUFFICES ASSUME IInv, [Next]_vars PROVE IInv'
  OBVIOUS
<1>1. ASSUME UNCHANGED <<repo, dir, last, act, faults>> PROVE IInv'
  BY <1>1 DEF IInv, Types, Alone, Holding, Behind, Active, EnvOf, Fits
<1>2. CASE UNCHANGED vars
  BY <1>1, <1>2 DEF vars, hist
<1>3. ASSUME NEW e \in Env, Push(e) PROVE IInv'
  BY <1>3, PushKeeps
<1>4. ASSUME NEW e \in Env, NEW a \in Act, PutEnv(a, e) \/ Config(a, e) PROVE IInv'
  BY <1>4, BeginKeeps DEF PutEnv, Config
<1>5. ASSUME NEW e \in Env, NEW a \in Act, TimerFires(a, e) PROVE IInv'
  BY <1>5, BeginKeeps DEF TimerFires, hist
<1>6. ASSUME NEW a \in Act, Clone(a) \/ CloneFails(a) \/ Reset(a) PROVE IInv'
  BY <1>6, CloneKeeps, CloneFailsKeeps, ResetKeeps
<1>7. ASSUME NEW a \in Act, ExecuteEnv(a) PROVE IInv'
  <2>1. CASE Find(a) \/ Parse(a) \/ Provision(a)
    BY <2>1, FindKeeps, ParseKeeps, ProvisionKeeps
  <2>2. CASE ParsePanics(a)
    BY <2>2, DownKeeps DEF ParsePanics, hist, IInv, Types
  <2>3. CASE Return(a)
    BY <2>3, Ends DEF Return, hist, IInv, Types, Active, At
  <2>. QED BY <1>7, <2>1, <2>2, <2>3 DEF ExecuteEnv
<1>8. CASE Crash
  <2>1. faults' \in [FaultKind -> Nat]
    BY <1>8, SpendType DEF Crash, FaultKind
  <2>. QED BY <1>8, <2>1, DownKeeps DEF Crash, hist
<1>9. CASE Boot
  BY <1>1, <1>9 DEF Boot
<1>. QED
  BY <1>2, <1>3, <1>4, <1>5, <1>6, <1>7, <1>8, <1>9 DEF Next

(* Whatever is pushed, asked for and done at the same time, two executions *)
(* of an environment know of each other, and one that has the directory    *)
(* for itself holds what is checked out there.                             *)
THEOREM Invariance == Spec => []IInv
<1>. QED
  BY InitIInv, StepIInv, PTL DEF Spec

-----------------------------------------------------------------------------
(* An execution that has its directory for itself finds every system whose *)
(* turn comes: the walk does not panic.                                    *)
LEMMA NotGone ==
  ASSUME IInv, NEW a \in Act, act[a].pc = "parse", ~act[a].shared
  PROVE  ~Gone(a)
<1>1. Fits(act[a], dir[EnvOf(a)])
  BY ActiveFacts DEF Active
<1>2. act[a].dirs = Dir(a).dirs /\ act[a].todo \subseteq DOMAIN Dir(a).dirs
  BY <1>1 DEF Fits, Dir
<1>3. \A i \in First(a) : Dir(a).dirs[i] \in ToSet(Dir(a).dirs)
  BY <1>2 DEF First, ToSet
<1>. QED BY <1>2, <1>3 DEF Gone, Now

(* What ends the process: a crash, a request that cannot clone, or a       *)
(* system that went while its environment was executed twice at a time     *)
(* (main.go:194, parse.go:71).  A timer alone never does.                  *)
THEOREM EndsExplained == Spec => EndExplained
<1>1. IInv /\ [Next]_vars =>
        [up /\ ~up' =>
           \/ faults'["crash"] < faults["crash"]
           \/ \E a \in Act :
                \/ /\ faults'["clone"] < faults["clone"]
                   /\ act[a].pc = "clone" /\ act[a].by = "request"
                \/ act[a].pc = "parse" /\ act[a].shared]_vars
  <2> SUFFICES ASSUME IInv, Next, up, ~up'
               PROVE  \/ faults'["crash"] < faults["crash"]
                      \/ \E a \in Act :
                           \/ /\ faults'["clone"] < faults["clone"]
                              /\ act[a].pc = "clone" /\ act[a].by = "request"
                           \/ act[a].pc = "parse" /\ act[a].shared
    OBVIOUS
  <2>1. ASSUME NEW k \in FaultKind, Spend(k) PROVE faults'[k] < faults[k]
    BY <2>1 DEF Spend, IInv, Types
  <2>2. \/ Crash
        \/ \E a \in Act : CloneFails(a) /\ act[a].by # "timer"
        \/ \E a \in Act : ParsePanics(a)
    BY ZenonT(40) DEF Next, ExecuteEnv, Push, PutEnv, Config, TimerFires, Clone, CloneFails,
           Reset, Find, Parse, Provision, Return, Boot
  <2>3. ASSUME NEW a \in Act, CloneFails(a), act[a].by # "timer"
        PROVE  act[a].pc = "clone" /\ act[a].by = "request"
    BY <2>3, ActiveFacts DEF CloneFails, At, Active, Execution
  <2>. QED
    BY <2>1, <2>2, <2>3, NotGone DEF Crash, CloneFails, ParsePanics, At, FaultKind
<1>. QED
  BY <1>1, Invariance, PTL DEF Spec, EndExplained

(* A system goes back to an older revision only when its environment is    *)
(* executed twice at a time (execute.go:29-35): the directory holds what   *)
(* is newest of all that was ever provisioned from it.                     *)
THEOREM NeverBack == Spec => NoGoingBack
<1>1. IInv /\ [Next]_vars =>
        [\A e \in Env : \A s \in SystemNames :
           last'[e][s] < last[e][s] =>
             \E a \in Act :
               act[a].pc = "provision" /\ act[a].env = e /\ act[a].shared]_vars
  <2> SUFFICES ASSUME IInv, Next, NEW e \in Env, NEW s \in SystemNames,
                      last'[e][s] < last[e][s]
               PROVE  \E a \in Act :
                        act[a].pc = "provision" /\ act[a].env = e /\ act[a].shared
    OBVIOUS
  <2>1. last[e][s] \in Nat /\ last[e][s] <= dir[e]
    BY DEF IInv, Types, Behind
  <2>2. PICK a \in Act : Provision(a)
    <3>1. last' # last
      BY <2>1
    <3>. QED
      BY <3>1 DEF Next, ExecuteEnv, Push, PutEnv, Config, TimerFires, Clone, CloneFails,
           Reset, Find, Parse, ParsePanics, Return, Crash, Boot, hist
  <2>3. act[a].pc = "provision" /\ Fits(act[a], dir[EnvOf(a)]) /\ EnvOf(a) \in Env
    BY <2>2, ActiveFacts DEF Provision, At, Active
  <2>4. PICK t \in Now(a) : last' = [last EXCEPT ![EnvOf(a)][t] = act[a].rev]
    BY <2>2 DEF Provision
  <2>5. EnvOf(a) = e /\ last'[e][s] = act[a].rev
    BY <2>1, <2>3, <2>4 DEF IInv, Types
  <2>6. act[a].shared
    BY <2>1, <2>3, <2>5 DEF Fits
  <2>. QED BY <2>3, <2>5, <2>6 DEF EnvOf
<1>. QED
  BY <1>1, Invariance, PTL DEF Spec, NoGoingBack

=============================================================================
