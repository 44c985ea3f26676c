---------------------------- MODULE ReaderProofs ----------------------------
(***************************************************************************)
(* Proofs about the one-shot reader, for every story, every number of      *)
(* workers and runs, any number of grants of one id and every bound on the *)
(* faults.                                                                 *)
(***************************************************************************)
EXTENDS Reader, TLAPS

USE StoryAssumption, ReaderAssumption

-----------------------------------------------------------------------------
(* Facts about the data the actions work on.                               *)

LEMMA RunFacts == Run \subseteq Nat
  BY DEF Run

LEMMA SpendFaults ==
  ASSUME faults \in [FaultKind -> Nat], NEW k \in FaultKind, Spend(k)
  PROVE  faults' \in [FaultKind -> Nat]
  BY DEF Spend

LEMMA FaultKinds == {"slow", "refuse", "werr", "crash"} \subseteq FaultKind
  BY DEF FaultKind

(* One more acknowledgement: what was done stays done.                     *)
LEMMA AcksGrow ==
  ASSUME NEW S, acked \in Seq(S), NEW e \in S, acked' = Append(acked, e)
  PROVE  /\ acked' \in Seq(S)
         /\ Len(acked') = Len(acked) + 1
         /\ Acks' = Acks \cup {e}
<1>1. /\ acked' \in Seq(S)
      /\ Len(acked') = Len(acked) + 1
      /\ \A i \in 1 .. Len(acked) : acked'[i] = acked[i]
      /\ acked'[Len(acked) + 1] = e
  OBVIOUS
<1>2. DOMAIN acked = 1 .. Len(acked) /\ DOMAIN acked' = 1 .. Len(acked) + 1
      /\ Len(acked) \in Nat
  BY <1>1
<1>3. ASSUME NEW x \in Acks' PROVE x \in Acks \cup {e}
  <2>1. PICK i \in 1 .. Len(acked) + 1 : x = acked'[i]
    BY <1>2, <1>3 DEF Acks
  <2>2. i \in 1 .. Len(acked) \/ i = Len(acked) + 1
    BY <1>2
  <2>3. QED
    BY <1>1, <1>2, <2>1, <2>2 DEF Acks
<1>4. ASSUME NEW x \in Acks \cup {e} PROVE x \in Acks'
  <2>1. CASE x = e
    <3>1. Len(acked) + 1 \in DOMAIN acked'
      BY <1>2
    <3>2. QED
      BY <1>1, <2>1, <3>1 DEF Acks
  <2>2. CASE x \in Acks
    <3>1. PICK i \in DOMAIN acked : x = acked[i]
      BY <2>2 DEF Acks
    <3>2. i \in DOMAIN acked' /\ acked'[i] = x
      BY <1>1, <1>2, <3>1
    <3>3. QED
      BY <3>2 DEF Acks
  <2>3. QED
    BY <1>4, <2>1, <2>2
<1>5. QED
  BY <1>1, <1>3, <1>4

HandlerType == [pc : {"idle", "next", "write"}, ev : stream \cup {NoEvent},
                todo : SUBSET Part, part : Part]

LEMMA HandlerMoves ==
  ASSUME TypeOK, NEW n \in Part,
         \/ hd' = [hd EXCEPT !.todo = @ \ {n}]
         \/ hd' = [hd EXCEPT !.pc = "write", !.todo = @ \ {n}, !.part = n]
         \/ hd' = [hd EXCEPT !.pc = "next"]
         \/ hd' = HandlerIdle
  PROVE  hd' \in HandlerType
<1>1. hd \in HandlerType
  BY DEF TypeOK, HandlerType
<1>2. HandlerIdle \in HandlerType
  BY DEF HandlerIdle, HandlerType
<1>3. QED
  BY <1>1, <1>2 DEF HandlerType

(* The stream grows by one event of a run in use, or of the next one.      *)
LEMMA StreamGrows ==
  ASSUME TypeOK, NEW e \in Event, stream' = stream \cup {e},
         UNCHANGED <<leased, acked, seen, grants, comp, wk, faults>>
  PROVE  /\ stream' \in SUBSET Event /\ leased' \in SUBSET stream'
         /\ acked' \in Seq(stream') /\ seen' \in 0 .. Len(acked')
         /\ grants' \in [Task -> Nat] /\ comp' \in [Run -> SUBSET Part]
         /\ wk' \in [Worker -> stream' \cup {NoEvent}]
         /\ faults' \in [FaultKind -> Nat]
         /\ Done' = Done
<1>1. acked \in Seq(stream \cup {e})
  <2>1. acked \in [1 .. Len(acked) -> stream] /\ Len(acked) \in Nat
    BY DEF TypeOK
  <2>2. acked \in [1 .. Len(acked) -> stream \cup {e}]
    BY <2>1
  <2>3. QED
    BY <2>1, <2>2
<1>2. QED
  BY <1>1 DEF TypeOK, Done, Acks

-----------------------------------------------------------------------------
(* The inductive invariant.                                                *)

LEMMA InitIInv == Init => IInv
<1> SUFFICES ASSUME Init PROVE IInv
  OBVIOUS
<1>1. TypeOK
  BY DEF Init, TypeOK, HandlerIdle, Run
<1>2. CompSound /\ HandlerSound /\ RunsFresh
  BY DEF Init, CompSound, HandlerSound, HandlerIdle, RunsFresh
<1>3. QED
  BY <1>1, <1>2 DEF IInv

(* A call of New uses up a ReadID, whether its write succeeds or not.      *)
LEMMA NewIInv ==
  ASSUME IInv, New \/ NewFails
  PROVE  IInv'
<1> USE DEF IInv
<1> DEFINE e == [run |-> nextRun, part |-> Start, copy |-> 0]
<1>1. nextRun \in Run /\ nextRun' = nextRun + 1 /\ nextRun' \in 1 .. MaxRuns + 1
  BY DEF New, NewFails, Run
<1>2. CASE New
  <2>1. e \in Event /\ stream' = stream \cup {e}
        /\ UNCHANGED <<leased, acked, seen, grants, comp, wk, hd, faults>>
    BY <1>1, <1>2 DEF New, Event
  <2>2. TypeOK' /\ Done' = Done
    BY <1>1, <2>1, StreamGrows DEF TypeOK
  <2>3. RunsFresh'
    <3>1. \A x \in stream : x.run \in Nat
      BY RunFacts DEF TypeOK, Event
    <3>2. e.run = nextRun /\ nextRun \in Nat
      BY <1>1, RunFacts
    <3>3. QED
      BY <1>1, <2>1, <3>1, <3>2 DEF RunsFresh
  <2>4. CompSound' /\ HandlerSound'
    BY <2>1, <2>2 DEF CompSound, HandlerSound
  <2>5. QED
    BY <2>2, <2>3, <2>4
<1>3. CASE NewFails
  <2>1. UNCHANGED <<stream, leased, acked, seen, grants, comp, wk, hd, faults>>
    BY <1>3 DEF NewFails
  <2>2. TypeOK'
    BY <1>1, <2>1 DEF TypeOK
  <2>3. RunsFresh'
    <3>1. \A x \in stream : x.run \in Nat
      BY RunFacts DEF TypeOK, Event
    <3>2. QED
      BY <1>1, <2>1, <3>1, RunFacts DEF RunsFresh
  <2>4. CompSound' /\ HandlerSound'
    BY <2>1 DEF CompSound, HandlerSound, Done, Acks
  <2>5. QED
    BY <2>2, <2>3, <2>4
<1>4. QED
  BY <1>2, <1>3

(* What the consumer and a failing worker change is not what the rest of   *)
(* the invariant is about.                                                 *)
LEMMA QueueIInv ==
  ASSUME IInv,
         \/ \E w \in Worker, e \in stream : Deliver(w, e)
         \/ \E e \in stream : Timeout(e) \/ TimeoutEarly(e)
         \/ \E w \in Worker : ExecuteFails(w)
  PROVE  IInv'
<1> USE DEF IInv
<1>1. /\ UNCHANGED <<stream, acked, seen, grants, comp, hd, nextRun>>
      /\ faults' \in [FaultKind -> Nat]
      /\ leased' \in SUBSET stream
      /\ wk' \in [Worker -> stream \cup {NoEvent}]
  BY ZenonT(30), SpendFaults, FaultKinds
     DEF TypeOK, Deliver, Timeout, TimeoutEarly, ExecuteFails
<1>2. TypeOK'
  BY <1>1 DEF TypeOK
<1>3. CompSound' /\ HandlerSound' /\ RunsFresh'
  BY <1>1 DEF CompSound, HandlerSound, RunsFresh, Done, Acks
<1>4. QED
  BY <1>2, <1>3

LEMMA ExecuteOkIInv ==
  ASSUME IInv, NEW w \in Worker, ExecuteOk(w)
  PROVE  IInv'
<1> USE DEF IInv, ExecuteOk
<1>1. wk[w] \in stream
  BY DEF TypeOK
<1>2. /\ acked' \in Seq(stream)
      /\ Len(acked') = Len(acked) + 1
      /\ Acks' = Acks \cup {wk[w]}
  BY <1>1, AcksGrow DEF TypeOK
<1>3. seen' \in 0 .. Len(acked')
  BY <1>2 DEF TypeOK
<1>4. TypeOK'
  BY <1>2, <1>3 DEF TypeOK
<1>5. Done \subseteq Done'
  BY <1>2 DEF Done
<1>6. CompSound' /\ HandlerSound' /\ RunsFresh'
  BY <1>5 DEF CompSound, HandlerSound, RunsFresh
<1>7. QED
  BY <1>4, <1>6

LEMMA HandleTakeIInv ==
  ASSUME IInv, HandleTake
  PROVE  IInv'
<1> USE DEF IInv, HandleTake
<1> DEFINE e == acked[seen + 1]
<1>1. seen + 1 \in DOMAIN acked /\ seen' \in 0 .. Len(acked)
  BY DEF TypeOK
<1>2. e \in stream /\ e \in Event /\ e \in Acks
  BY <1>1 DEF TypeOK, Acks
<1>3. e.run \in Run /\ e.part \in Part /\ <<e.run, e.part>> \in Done
  BY <1>2 DEF Event, Done
<1>4. /\ hd' = [pc |-> "next", ev |-> e, todo |-> Links[e.part], part |-> Start]
      /\ comp' = [comp EXCEPT ![e.run] = @ \cup {e.part}]
      /\ UNCHANGED <<stream, leased, acked, grants, wk, nextRun, faults>>
  BY DEF HandlerIdle
<1>5. Links[e.part] \in SUBSET Part /\ Start \notin Links[e.part]
  BY <1>3
<1> HIDE DEF e, HandleTake
<1>6. comp' \in [Run -> SUBSET Part]
  BY <1>3, <1>4 DEF TypeOK
<1>7. TypeOK'
  BY <1>1, <1>2, <1>4, <1>5, <1>6 DEF TypeOK, HandleTake
<1>8. Done' = Done
  BY <1>4 DEF Done, Acks
<1>9. CompSound'
  BY <1>3, <1>4, <1>8 DEF CompSound, TypeOK
<1>10. HandlerSound' /\ RunsFresh'
  BY <1>2, <1>4, <1>5 DEF HandlerSound, RunsFresh
<1>11. QED
  BY <1>7, <1>9, <1>10

(* The parts before one that may be written are done.                      *)
LEMMA ReadyIsDone ==
  ASSUME IInv, NEW n \in Part, hd.pc = "next", PrevThere(n)
  PROVE  /\ hd.ev.run \in Run
         /\ \A q \in Prev(n) : <<hd.ev.run, q>> \in Done
<1>1. hd.ev \in Event
  BY DEF IInv, TypeOK, HandlerSound
<1>2. hd.ev.run \in Run
  BY <1>1 DEF Event
<1>3. QED
  BY <1>2 DEF PrevThere, IInv, CompSound

(* The steps of the handler between two completions.                       *)
LEMMA HandlePartIInv ==
  ASSUME IInv, NEW n \in Part,
         HandleNotReady(n) \/ HandleGranted(n) \/ HandleRefused(n)
  PROVE  IInv'
<1> USE DEF IInv
<1>1. /\ UNCHANGED <<stream, leased, acked, seen, comp, wk, nextRun>>
      /\ faults' \in [FaultKind -> Nat]
      /\ hd.pc = "next" /\ n \in hd.todo
      /\ \/ hd' = [hd EXCEPT !.todo = @ \ {n}] /\ grants' = grants
         \/ /\ hd' = [hd EXCEPT !.pc = "write", !.todo = @ \ {n}, !.part = n]
            /\ grants' = [grants EXCEPT ![<<hd.ev.run, n>>] = @ + 1]
            /\ PrevThere(n)
  BY SpendFaults, FaultKinds
     DEF TypeOK, HandleNotReady, HandleGranted, HandleRefused
<1>2. n # Start /\ hd.ev \in stream
  BY <1>1 DEF HandlerSound
<1>3. grants' \in [Task -> Nat]
  <2>1. <<hd.ev.run, n>> \in Task
    BY <1>2 DEF TypeOK, Event, Task
  <2>2. grants[<<hd.ev.run, n>>] + 1 \in Nat
    BY <2>1 DEF TypeOK
  <2>3. QED
    BY <1>1, <2>1, <2>2 DEF TypeOK
<1>4. TypeOK'
  <2>1. hd' \in HandlerType
    BY <1>1, HandlerMoves
  <2>2. QED
    BY <1>1, <1>3, <2>1 DEF TypeOK, HandlerType
<1>5. Done' = Done
  BY <1>1 DEF Done, Acks
<1>6. HandlerSound'
  <2>1. CASE hd' = [hd EXCEPT !.todo = @ \ {n}]
    BY <1>1, <1>2, <1>5, <2>1 DEF HandlerSound, TypeOK
  <2>2. CASE hd' = [hd EXCEPT !.pc = "write", !.todo = @ \ {n}, !.part = n]
             /\ PrevThere(n)
    <3>1. \A q \in Prev(n) : <<hd.ev.run, q>> \in Done
      BY <1>1, <2>2, ReadyIsDone
    <3>2. hd'.ev = hd.ev /\ hd'.part = n /\ hd'.todo = hd.todo \ {n}
      BY <2>2 DEF TypeOK
    <3>3. QED
      BY <1>1, <1>2, <1>5, <3>1, <3>2 DEF HandlerSound
  <2>3. QED
    BY <1>1, <2>1, <2>2
<1>7. CompSound' /\ RunsFresh'
  BY <1>1, <1>5 DEF CompSound, RunsFresh
<1>8. QED
  BY <1>4, <1>6, <1>7

LEMMA NextEventType ==
  ASSUME IInv, hd.pc = "write"
  PROVE  /\ NextEvent \in Event
         /\ NextEvent.run = hd.ev.run /\ NextEvent.part = hd.part
         /\ hd.ev \in stream
<1>1. hd.ev \in stream /\ hd.ev \in Event /\ hd.part \in Part
  BY DEF IInv, TypeOK, HandlerSound
<1>2. hd.ev.run \in Run /\ <<hd.ev.run, hd.part>> \in Task
  BY <1>1 DEF Event, Task
<1>3. grants[<<hd.ev.run, hd.part>>] \in Nat
  BY <1>2 DEF IInv, TypeOK
<1>4. QED
  BY <1>1, <1>2, <1>3 DEF NextEvent, Event

LEMMA HandleWriteIInv ==
  ASSUME IInv, HandleWrite
  PROVE  IInv'
<1> USE DEF IInv, HandleWrite
<1>1. /\ NextEvent \in Event /\ NextEvent.run = hd.ev.run /\ hd.ev \in stream
  BY NextEventType
<1>2. stream' = stream \cup {NextEvent}
  OBVIOUS
<1>3. TypeOK' /\ Done' = Done
  BY <1>1, <1>2, StreamGrows DEF TypeOK
<1>4. RunsFresh'
  BY <1>1, <1>2 DEF RunsFresh
<1>5. HandlerSound'
  BY <1>1, <1>2, <1>3 DEF HandlerSound, TypeOK
<1>6. CompSound'
  BY <1>3 DEF CompSound
<1>7. QED
  BY <1>3, <1>4, <1>5, <1>6

LEMMA HandleMovesOnIInv ==
  ASSUME IInv, HandleWriteFails \/ HandleDone
  PROVE  IInv'
<1> USE DEF IInv
<1>1. /\ UNCHANGED <<stream, leased, acked, seen, grants, comp, wk, nextRun>>
      /\ faults' \in [FaultKind -> Nat]
      /\ hd.pc # "idle"
      /\ hd' = [hd EXCEPT !.pc = "next"] \/ hd' = HandlerIdle
  BY SpendFaults, FaultKinds DEF TypeOK, HandleWriteFails, HandleDone
<1>2. TypeOK'
  <2>1. hd' \in HandlerType
    BY <1>1, HandlerMoves
  <2>2. QED
    BY <1>1, <2>1 DEF TypeOK, HandlerType
<1>3. HandlerSound'
  <2>1. Done' = Done
    BY <1>1 DEF Done, Acks
  <2>2. CASE hd' = [hd EXCEPT !.pc = "next"]
    <3>1. hd'.pc = "next" /\ hd'.ev = hd.ev /\ hd'.todo = hd.todo
      BY <2>2 DEF TypeOK
    <3>2. QED
      BY <1>1, <2>1, <3>1 DEF HandlerSound
  <2>3. CASE hd' = HandlerIdle
    BY <2>3 DEF HandlerSound, HandlerIdle
  <2>4. QED
    BY <1>1, <2>2, <2>3
<1>4. CompSound' /\ RunsFresh'
  BY <1>1 DEF CompSound, RunsFresh, Done, Acks
<1>5. QED
  BY <1>2, <1>3, <1>4

LEMMA CrashIInv ==
  ASSUME IInv, Crash
  PROVE  IInv'
<1> USE DEF IInv, Crash
<1>1. faults' \in [FaultKind -> Nat]
  BY SpendFaults, FaultKinds DEF TypeOK
<1>2. Len(acked) \in Nat
  BY DEF TypeOK
<1>3. TypeOK'
  BY <1>1, <1>2 DEF TypeOK, HandlerIdle
<1>4. CompSound' /\ HandlerSound' /\ RunsFresh'
  BY DEF CompSound, HandlerSound, HandlerIdle, RunsFresh
<1>5. QED
  BY <1>3, <1>4

LEMMA NextIInv == IInv /\ [Next]_vars => IInv'
<1> SUFFICES ASSUME IInv, [Next]_vars PROVE IInv'
  OBVIOUS
<1>1. CASE New \/ NewFails
  BY <1>1, NewIInv
<1>2. CASE \/ \E w \in Worker, e \in stream : Deliver(w, e)
           \/ \E e \in stream : Timeout(e) \/ TimeoutEarly(e)
           \/ \E w \in Worker : ExecuteFails(w)
  BY <1>2, QueueIInv
<1>3. CASE \E w \in Worker : ExecuteOk(w)
  BY <1>3, ExecuteOkIInv
<1>4. CASE HandleTake \/ HandleWrite \/ HandleDone \/ HandleWriteFails
  BY <1>4, HandleTakeIInv, HandleWriteIInv, HandleMovesOnIInv
<1>5. CASE \E n \in Part : HandleNotReady(n) \/ HandleGranted(n) \/ HandleRefused(n)
  BY <1>5, HandlePartIInv
<1>6. CASE Crash
  BY <1>6, CrashIInv
<1>7. CASE UNCHANGED vars
  BY <1>7 DEF vars, IInv, TypeOK, CompSound, HandlerSound, RunsFresh, Done, Acks
<1>8. QED
  BY <1>1, <1>2, <1>3, <1>4, <1>5, <1>6, <1>7 DEF Next, HandlerStep

(* The invariant holds: where each event comes from, and that the handler  *)
(* remembers only what was done.                                           *)
THEOREM Invariance == Spec => []IInv
<1>1. QED
  BY InitIInv, NextIInv, PTL DEF Spec

-----------------------------------------------------------------------------
(* The steps of the reader are steps of StoryRun.                          *)

LEMMA InitImplements == Init => Story!Init
  BY DEF Init, Story!Init, Issued, Done, Acks

LEMMA NewBegins ==
  ASSUME IInv, New
  PROVE  \E r \in Run : Story!Begin(r)
<1> USE DEF New
<1> DEFINE e == [run |-> nextRun, part |-> Start, copy |-> 0]
<1>1. Issued' = Issued \cup {<<nextRun, Start>>}
  <2>1. stream' = stream \cup {e} /\ e.run = nextRun /\ e.part = Start
    OBVIOUS
  <2> HIDE DEF e, New
  <2>2. QED
    BY <2>1 DEF Issued
<1>2. Done' = Done
  BY DEF Done, Acks
<1>3. \A p \in Part : <<nextRun, p>> \notin Issued
  <2>1. \A x \in stream : x.run \in Nat /\ x.run < nextRun
    BY RunFacts DEF IInv, RunsFresh, TypeOK, Event
  <2>2. nextRun \in Nat
    BY RunFacts
  <2>3. QED
    BY <2>1, <2>2 DEF Issued
<1>4. nextRun \in Run
  OBVIOUS
<1>5. Story!Begin(nextRun)
  BY <1>1, <1>2, <1>3 DEF Story!Begin
<1>6. QED
  BY <1>4, <1>5

LEMMA HandleWriteIssues ==
  ASSUME IInv, HandleWrite
  PROVE  \E r \in Run, p \in Part : Story!Issue(r, p)
<1> USE DEF HandleWrite
<1>1. /\ NextEvent \in Event /\ NextEvent.run = hd.ev.run
      /\ NextEvent.part = hd.part /\ hd.ev \in stream
  BY NextEventType
<1>2. hd.ev.run \in Run /\ hd.part \in Part
  BY <1>1 DEF IInv, TypeOK, Event
<1>3. hd.part # Start /\ \A q \in Prev(hd.part) : <<hd.ev.run, q>> \in Done
  BY DEF IInv, HandlerSound
<1>4. Issued' = Issued \cup {<<hd.ev.run, hd.part>>}
  <2>1. stream' = stream \cup {NextEvent}
    OBVIOUS
  <2>2. QED
    BY <1>1, <2>1 DEF Issued
<1>5. Done' = Done
  BY DEF Done, Acks
<1>6. Story!Issue(hd.ev.run, hd.part)
  BY <1>3, <1>4, <1>5 DEF Story!Issue, Story!PrevDone, Story!Prev, Prev
<1>7. QED
  BY <1>2, <1>6

LEMMA ExecuteOkFinishes ==
  ASSUME IInv, NEW w \in Worker, ExecuteOk(w)
  PROVE  \E r \in Run, p \in Part : Story!Finish(r, p)
<1> USE DEF ExecuteOk
<1> DEFINE e == wk[w]
<1>1. e \in stream /\ e \in Event /\ acked \in Seq(stream)
  BY DEF IInv, TypeOK
<1>2. e.run \in Run /\ e.part \in Part /\ <<e.run, e.part>> \in Issued
  BY <1>1 DEF Event, Issued
<1>3. Acks' = Acks \cup {e}
  BY <1>1, AcksGrow
<1>4. Done' = Done \cup {<<e.run, e.part>>}
  BY <1>3 DEF Done
<1>5. Issued' = Issued
  BY DEF Issued
<1>6. Story!Finish(e.run, e.part)
  BY <1>2, <1>4, <1>5 DEF Story!Finish
<1>7. QED
  BY <1>2, <1>6

(* Only three actions touch what StoryRun sees.                            *)
LEMMA StreamSteps ==
  ASSUME [Next]_vars
  PROVE  \/ New
         \/ HandleWrite
         \/ \E w \in Worker : ExecuteOk(w)
         \/ stream' = stream /\ acked' = acked
  BY DEF Next, vars, NewFails, Deliver, Timeout, TimeoutEarly, ExecuteFails,
         HandlerStep, HandleTake, HandleNotReady, HandleGranted, HandleRefused,
         HandleWriteFails, HandleDone, Crash

LEMMA StepImplements ==
  IInv /\ [Next]_vars => [Story!Next]_<<Issued, Done>>
<1> SUFFICES ASSUME IInv, [Next]_vars
             PROVE  Story!Next \/ (Issued' = Issued /\ Done' = Done)
  OBVIOUS
<1>1. CASE New
  <2>1. PICK r \in Run : Story!Begin(r)
    BY <1>1, NewBegins
  <2>2. Start \in Part
    BY StoryAssumption
  <2>3. QED
    BY <2>1, <2>2 DEF Story!Next
<1>2. CASE HandleWrite
  BY <1>2, HandleWriteIssues DEF Story!Next
<1>3. CASE \E w \in Worker : ExecuteOk(w)
  BY <1>3, ExecuteOkFinishes DEF Story!Next
<1>4. CASE stream' = stream /\ acked' = acked
  BY <1>4 DEF Issued, Done, Acks
<1>5. QED
  BY <1>1, <1>2, <1>3, <1>4, StreamSteps

(* Every behaviour of the one-shot reader is a behaviour of StoryRun: a    *)
(* part is written only when all parts before it are done in its run,      *)
(* whatever is lost, refused, completed twice or replayed after a restart. *)
THEOREM Implementation == Spec => ImplementsStory
<1>1. QED
  BY InitImplements, StepImplements, Invariance, PTL
     DEF Spec, ImplementsStory, Story!Spec

-----------------------------------------------------------------------------
(* What every implementation of StoryRun inherits, said of this one.       *)

StorySafe == Story!TypeOK /\ Story!DependencyOrder

LEMMA StartIsFirst == \A r : Story!PrevDone(r, Start)
  BY DEF Story!PrevDone, Story!Prev

LEMMA StoryInitSafe == Story!Init => StorySafe
  BY DEF Story!Init, StorySafe, Story!TypeOK, Story!DependencyOrder

(* Issuing one more part whose predecessors are done keeps the order.      *)
LEMMA IssuedOneMore ==
  ASSUME StorySafe, NEW r \in Run, NEW p \in Part, Story!PrevDone(r, p),
         Issued' = Issued \cup {<<r, p>>}, Done' = Done
  PROVE  StorySafe'
<1>1. Story!TypeOK'
  BY DEF StorySafe, Story!TypeOK, Story!Task
<1>2. ASSUME NEW s \in Run, NEW q \in Part, <<s, q>> \in Issued'
      PROVE  Story!PrevDone(s, q)'
  <2>1. CASE <<s, q>> \in Issued
    BY <2>1 DEF StorySafe, Story!DependencyOrder, Story!PrevDone
  <2>2. CASE <<s, q>> = <<r, p>>
    <3>1. s = r /\ q = p
      BY <2>2
    <3>2. QED
      BY <3>1 DEF Story!PrevDone
  <2>3. QED
    BY <1>2, <2>1, <2>2
<1>3. Story!DependencyOrder'
  BY <1>2 DEF StorySafe, Story!DependencyOrder
<1>4. QED
  BY <1>1, <1>3 DEF StorySafe

LEMMA StoryNextSafe == StorySafe /\ [Story!Next]_<<Issued, Done>> => StorySafe'
<1> SUFFICES ASSUME StorySafe, [Story!Next]_<<Issued, Done>> PROVE StorySafe'
  OBVIOUS
<1>1. ASSUME NEW r \in Run, NEW p \in Part, Story!Begin(r) PROVE StorySafe'
  BY <1>1, StartIsFirst, IssuedOneMore, StoryAssumption DEF Story!Begin
<1>2. ASSUME NEW r \in Run, NEW p \in Part, Story!Issue(r, p) PROVE StorySafe'
  BY <1>2, IssuedOneMore DEF Story!Issue
<1>3. ASSUME NEW r \in Run, NEW p \in Part, Story!Finish(r, p) PROVE StorySafe'
  BY <1>3 DEF Story!Finish, StorySafe, Story!TypeOK, Story!DependencyOrder,
              Story!PrevDone, Story!Task
<1>4. CASE UNCHANGED <<Issued, Done>>
  BY <1>4 DEF StorySafe, Story!TypeOK, Story!DependencyOrder, Story!PrevDone, Story!Task
<1>5. QED
  BY <1>1, <1>2, <1>3, <1>4 DEF Story!Next

(* In every behaviour of StoryRun a part is issued only after every part   *)
(* that leads to it was done in the same run, and only issued parts are    *)
(* done; so no part of the one-shot reader is written, let alone executed, *)
(* before all parts that lead to it were acknowledged with data.           *)
THEOREM DependenciesFirst == Spec => [](Story!TypeOK /\ Story!DependencyOrder)
<1>1. Story!Spec => []StorySafe
  BY StoryInitSafe, StoryNextSafe, PTL DEF Story!Spec
<1>2. QED
  BY <1>1, Implementation, PTL DEF ImplementsStory, StorySafe
=============================================================================
