-------------------------- MODULE RepeatableProofs --------------------------
(***************************************************************************)
(* Proofs about the repeatable reader, for every story, every number of    *)
(* dimensions, workers, callers and runs, and every bound on the faults.   *)
(***************************************************************************)
EXTENDS Repeatable, TLAPS

USE StoryAssumption, RepeatableAssumption

-----------------------------------------------------------------------------
(* Facts about the data the actions work on.                               *)

LEMMA StartHasNoPrev == Prev(Start) = {}
  BY DEF Prev

LEMMA RunFacts == Run \subseteq Nat /\ 0 \notin Run
  BY DEF Run

LEMMA SpendFaults ==
  ASSUME faults \in [FaultKind -> Nat], NEW k \in FaultKind, Spend(k)
  PROVE  faults' \in [FaultKind -> Nat]
  BY DEF Spend

LEMMA FaultKinds ==
  {"fail", "panic", "slow", "refuse", "werr", "crash"} \subseteq FaultKind
  BY DEF FaultKind

CallerType == [Caller -> [pc : {"idle", "reset", "write"},
                          dim : Dim \cup {"none"}, run : Run \cup {0}]]

LEMMA CallerSetsPc ==
  ASSUME caller \in CallerType, NEW c \in Caller, NEW pc \in {"idle", "reset", "write"},
         caller' = [caller EXCEPT ![c].pc = pc]
  PROVE  /\ caller' \in CallerType
         /\ caller'[c] = [caller[c] EXCEPT !.pc = pc]
         /\ \A k \in Caller \ {c} : caller'[k] = caller[k]
         /\ \A k \in Caller : caller'[k].dim = caller[k].dim /\ caller'[k].run = caller[k].run
         /\ caller'[c].pc = pc
  BY DEF CallerType

(* A call of New that moves on keeps the runs fresh, also when it writes   *)
(* its start event and is done.                                            *)
LEMMA RunsStayFresh ==
  ASSUME RunsFresh, caller \in CallerType, NEW c \in Caller,
         NEW pc \in {"idle", "reset", "write"},
         caller[c].pc # "idle",
         caller' = [caller EXCEPT ![c].pc = pc],
         nextRun' = nextRun,
         \A e \in stream' : e \in stream \/ (e.run = caller[c].run /\ pc = "idle")
  PROVE  RunsFresh'
<1>1. /\ caller'[c].pc = pc
      /\ \A k \in Caller \ {c} : caller'[k] = caller[k]
      /\ \A k \in Caller : caller'[k].dim = caller[k].dim /\ caller'[k].run = caller[k].run
  BY CallerSetsPc
<1>2. \A k \in Caller : caller'[k].pc # "idle" => caller[k].pc # "idle"
  BY <1>1
<1>3. \A e \in stream' : e.run < nextRun'
  BY DEF RunsFresh
<1>4. \A k \in Caller : caller'[k].pc # "idle" =>
        \A e \in stream' : e.run # caller'[k].run
  BY <1>1, <1>2 DEF RunsFresh
<1>5. \A k \in Caller : caller'[k].pc # "idle" =>
        /\ caller'[k].dim \in Dim
        /\ caller'[k].run \in Run
        /\ caller'[k].run < nextRun'
  BY <1>1, <1>2 DEF RunsFresh
<1>6. \A c1, c2 \in Caller :
        caller'[c1].pc # "idle" /\ caller'[c2].pc # "idle"
          /\ caller'[c1].run = caller'[c2].run => c1 = c2
  BY <1>1, <1>2 DEF RunsFresh
<1>7. QED
  BY <1>3, <1>4, <1>5, <1>6 DEF RunsFresh

WorkerType == [Worker -> [pc : {"idle", "got", "checked", "executing"},
                          ev : Event \cup {NoEvent}]]

LEMMA WorkerMoves ==
  ASSUME WorkersHoldEvents, wk \in WorkerType, NEW w \in Worker,
         NEW pc \in {"idle", "got", "checked", "executing"},
         NEW e \in Event \cup {NoEvent}, pc # "idle" => e \in stream,
         WorkerTo(w, pc, e), stream' = stream
  PROVE  wk' \in WorkerType /\ WorkersHoldEvents'
  BY DEF WorkersHoldEvents, WorkerType, WorkerTo

HandlerType == [pc : {"idle", "set", "next", "request"},
                ev : Event \cup {NoEvent}, todo : SUBSET Part, part : Part,
                ins : SUBSET (Run \cup {0})]

LEMMA NextTaskType ==
  ASSUME TypeOK, HandlerSound, hd.pc # "idle"
  PROVE  /\ NextTask \in Task
         /\ hd.ev \in Event
         /\ hd.ev.dim \in Dim /\ hd.ev.run \in Run /\ hd.part \in Part
<1>1. hd.ev \in Event /\ hd.part \in Part
  BY DEF TypeOK, HandlerSound
<1>2. QED
  BY <1>1 DEF Event, NextTask, Task

LEMMA StatusSet ==
  ASSUME parts \in [Dim -> [Part -> [st : Status, run : Run \cup {0}]]], StatusSound,
         NEW d \in Dim, NEW p \in Part, NEW s \in Status, NEW r \in Run \cup {0},
         SetStatus(d, p, s, r), acked' = acked, s = "finished" => <<r, p>> \in Done
  PROVE  /\ parts' \in [Dim -> [Part -> [st : Status, run : Run \cup {0}]]]
         /\ StatusSound'
<1> DEFINE rec == [st |-> s, run |-> r]
           K == [st : Status, run : Run \cup {0}]
<1>0. rec \in K /\ rec.st = s /\ rec.run = r
  OBVIOUS
<1> HIDE DEF rec, K
<1>a. parts' = [parts EXCEPT ![d][p] = rec] /\ parts \in [Dim -> [Part -> K]]
  BY DEF SetStatus, rec, K
<1>b. parts' \in [Dim -> [Part -> K]]
  BY <1>0, <1>a
<1>1. /\ parts'[d][p] = rec
      /\ \A dd \in Dim, pp \in Part : dd # d \/ pp # p => parts'[dd][pp] = parts[dd][pp]
  BY <1>0, <1>a
<1>2. Done' = Done
  BY DEF Done
<1>3. StatusSound'
  BY <1>0, <1>1, <1>2 DEF StatusSound
<1>4. QED
  BY <1>b, <1>3 DEF K

(* What appending one completion keeps.                                    *)
LEMMA AppendCompletion ==
  ASSUME CompletionsAcked, completed \in Seq(Event \cup {Empty}),
         NEW e \in Event \cup {Empty}, NEW A,
         acked \subseteq A, e = Empty \/ e \in A
  PROVE  /\ Append(completed, e) \in Seq(Event \cup {Empty})
         /\ \A i \in 1 .. Len(Append(completed, e)) :
              Append(completed, e)[i] = Empty \/ Append(completed, e)[i] \in A
  BY DEF CompletionsAcked

LEMMA TakeCompletion ==
  ASSUME CompletionsAcked, completed \in Seq(Event \cup {Empty}), completed # <<>>
  PROVE  /\ Tail(completed) \in Seq(Event \cup {Empty})
         /\ Head(completed) = Empty \/ Head(completed) \in acked
         /\ \A i \in 1 .. Len(Tail(completed)) :
              Tail(completed)[i] = Empty \/ Tail(completed)[i] \in acked
<1>1. 1 \in 1 .. Len(completed) /\ Head(completed) = completed[1]
  OBVIOUS
<1>2. \A i \in 1 .. Len(Tail(completed)) :
         i + 1 \in 1 .. Len(completed) /\ Tail(completed)[i] = completed[i + 1]
  OBVIOUS
<1>3. QED
  BY <1>1, <1>2 DEF CompletionsAcked

-----------------------------------------------------------------------------
(* The inductive invariant.                                                *)

LEMMA InitIInv == Init => IInv
<1> SUFFICES ASSUME Init PROVE IInv
  OBVIOUS
<1>1. TypeOK
  BY DEF Init, TypeOK, Task, Run, Status, HandlerIdle, FaultKind
<1>2. WorkersHoldEvents /\ CompletionsAcked /\ HandlerSound /\ RunsFresh
  BY DEF Init, WorkersHoldEvents, CompletionsAcked, HandlerSound, RunsFresh, HandlerIdle
<1>3. StatusSound /\ InputsOfOneRun
  BY DEF Init, StatusSound, InputsOfOneRun
<1>4. QED
  BY <1>1, <1>2, <1>3 DEF IInv

(* Every action changes only part of the state; the invariant's conjuncts  *)
(* about the rest carry over.                                              *)
LEMMA NewSwapIInv ==
  ASSUME IInv, NEW c \in Caller, NEW d \in Dim, NewSwap(c, d)
  PROVE  IInv'
<1> USE DEF IInv, NewSwap, streamVars
<1>1. TypeOK'
  BY RunFacts DEF TypeOK, Run
<1>2. RunsFresh'
  <2>1. /\ caller'[c] = [pc |-> "reset", dim |-> d, run |-> nextRun]
        /\ \A k \in Caller \ {c} : caller'[k] = caller[k]
        /\ nextRun \in Nat /\ nextRun' = nextRun + 1
    BY RunFacts DEF TypeOK
  <2>2. \A e \in stream : e.run \in Nat /\ e.run < nextRun
    BY RunFacts DEF RunsFresh, TypeOK, Event
  <2>3. \A k \in Caller \ {c} : caller[k].pc # "idle" =>
           /\ caller[k].dim \in Dim /\ caller[k].run \in Run
           /\ caller[k].run \in Nat /\ caller[k].run < nextRun
           /\ \A e \in stream : e.run # caller[k].run
    BY RunFacts DEF RunsFresh
  <2>4. \A e \in stream : e.run < nextRun' /\ e.run # nextRun
    BY <2>1, <2>2
  <2>5. \A k \in Caller : caller'[k].pc # "idle" =>
           /\ caller'[k].dim \in Dim /\ caller'[k].run \in Run
           /\ caller'[k].run < nextRun'
           /\ \A e \in stream : e.run # caller'[k].run
    BY <2>1, <2>3, <2>4
  <2>6. \A c1, c2 \in Caller :
          caller'[c1].pc # "idle" /\ caller'[c2].pc # "idle"
            /\ caller'[c1].run = caller'[c2].run => c1 = c2
    BY <2>1, <2>3 DEF RunsFresh
  <2>7. QED
    BY <2>4, <2>5, <2>6 DEF RunsFresh
<1>3. WorkersHoldEvents' /\ CompletionsAcked' /\ StatusSound' /\ InputsOfOneRun'
  BY DEF WorkersHoldEvents, CompletionsAcked, StatusSound, InputsOfOneRun, Done
<1>4. HandlerSound'
  BY DEF HandlerSound, Done
<1>5. QED
  BY <1>1, <1>2, <1>3, <1>4

LEMMA NewResetIInv ==
  ASSUME IInv, NEW c \in Caller, NewReset(c)
  PROVE  IInv'
<1> USE DEF IInv, NewReset, streamVars
<1>1. \A s \in Status : ResetStatus(s) \in {"terminated", "restarted", "waiting"}
  BY DEF ResetStatus
<1>2. caller[c].dim \in Dim
  BY DEF RunsFresh
<1>3. \A p \in Part : ResetStatus(parts[caller[c].dim][p].st) \in
                        {"terminated", "restarted", "waiting"}
  BY <1>1, <1>2 DEF TypeOK
<1>4. parts' \in [Dim -> [Part -> [st : Status, run : Run \cup {0}]]]
  BY <1>2, <1>3 DEF TypeOK, Status
<1>5. TypeOK'
  BY <1>4, CallerSetsPc DEF TypeOK, CallerType
<1>6. StatusSound'
  BY <1>2, <1>3 DEF StatusSound, TypeOK, Done
<1>7. RunsFresh'
  BY RunsStayFresh DEF TypeOK, CallerType
<1>8. WorkersHoldEvents' /\ CompletionsAcked' /\ InputsOfOneRun' /\ HandlerSound'
  BY DEF WorkersHoldEvents, CompletionsAcked, InputsOfOneRun, HandlerSound, Done
<1>9. QED
  BY <1>5, <1>6, <1>7, <1>8

LEMMA NewWriteIInv ==
  ASSUME IInv, NEW c \in Caller, NewWrite(c)
  PROVE  IInv'
<1> USE DEF IInv, NewWrite, dimVars
<1> DEFINE e == StartEvent(caller[c].dim, caller[c].run)
<1>1. e \in Event /\ e.run = caller[c].run /\ e.ins = {}
  BY DEF StartEvent, Event, RunsFresh
<1>2. stream' = stream \cup {e}
  OBVIOUS
<1> HIDE DEF e
<1>3. TypeOK'
  BY <1>1, <1>2, CallerSetsPc DEF TypeOK, CallerType
<1>4. RunsFresh'
  BY <1>1, <1>2, RunsStayFresh DEF TypeOK, CallerType
<1>5. InputsOfOneRun'
  BY <1>1, <1>2 DEF InputsOfOneRun
<1>6. WorkersHoldEvents' /\ CompletionsAcked' /\ StatusSound' /\ HandlerSound'
  BY <1>2 DEF WorkersHoldEvents, CompletionsAcked, StatusSound, HandlerSound, Done
<1>7. QED
  BY <1>3, <1>4, <1>5, <1>6

LEMMA NewWriteFailsIInv ==
  ASSUME IInv, NEW c \in Caller, NewWriteFails(c)
  PROVE  IInv'
<1> USE DEF IInv, NewWriteFails, dimVars, streamVars
<1>1. TypeOK'
  BY CallerSetsPc, SpendFaults, FaultKinds DEF TypeOK, CallerType
<1>2. RunsFresh'
  BY RunsStayFresh DEF TypeOK, CallerType
<1>3. WorkersHoldEvents' /\ CompletionsAcked' /\ InputsOfOneRun' /\ HandlerSound'
      /\ StatusSound'
  BY DEF WorkersHoldEvents, CompletionsAcked, InputsOfOneRun, HandlerSound, StatusSound, Done
<1>4. QED
  BY <1>1, <1>2, <1>3

(* The consumer's own steps.                                               *)
LEMMA QueueIInv ==
  ASSUME IInv, NEW e \in stream,
         (\E w \in Worker : Deliver(w, e)) \/ Timeout(e) \/ TimeoutEarly(e)
  PROVE  IInv'
<1> USE DEF IInv, dimVars, streamVars
<1>1. CASE \E w \in Worker : Deliver(w, e)
  <2> PICK w \in Worker : Deliver(w, e)
    BY <1>1
  <2> USE DEF Deliver
  <2>1. wk' \in WorkerType /\ WorkersHoldEvents'
    BY WorkerMoves DEF TypeOK, WorkerType
  <2>2. TypeOK'
    BY <2>1 DEF TypeOK, WorkerType, Pending
  <2>3. CompletionsAcked' /\ HandlerSound' /\ RunsFresh' /\ StatusSound' /\ InputsOfOneRun'
    BY DEF CompletionsAcked, HandlerSound, RunsFresh, StatusSound, InputsOfOneRun, Done
  <2>4. QED
    BY <2>1, <2>2, <2>3
<1>2. CASE Timeout(e) \/ TimeoutEarly(e)
  <2>1. /\ leased' = leased \ {e}
        /\ UNCHANGED <<dimVars, stream, acked, dropped, completed, grants, wk, hd,
                       caller, nextRun>>
        /\ faults' \in [FaultKind -> Nat]
    BY <1>2, SpendFaults, FaultKinds DEF Timeout, TimeoutEarly, TypeOK
  <2>2. TypeOK'
    BY <2>1 DEF TypeOK
  <2>3. /\ CompletionsAcked' /\ HandlerSound' /\ RunsFresh' /\ StatusSound'
        /\ InputsOfOneRun' /\ WorkersHoldEvents'
    BY <2>1 DEF CompletionsAcked, HandlerSound, RunsFresh, StatusSound, InputsOfOneRun,
                WorkersHoldEvents, Done
  <2>3a. QED
    BY <2>2, <2>3
<1>3. QED
  BY <1>1, <1>2

(* The steps of a worker that leave both the statuses and the stream alone.*)
LEMMA ReadIInv ==
  ASSUME IInv, NEW w \in Worker,
         ReadUnknown(w) \/ ReadCurrent(w) \/ ExecutePanics(w)
  PROVE  IInv'
<1> USE DEF IInv, dimVars, streamVars
<1>1. /\ UNCHANGED <<dimVars, streamVars, hd, caller, nextRun>>
      /\ faults' \in [FaultKind -> Nat]
      /\ WorkerTo(w, "idle", NoEvent) \/ WorkerTo(w, "checked", wk[w].ev)
      /\ wk[w].pc # "idle"
  BY SpendFaults, FaultKinds DEF ReadUnknown, ReadCurrent, ExecutePanics, TypeOK
<1>2. wk[w].ev \in stream /\ wk[w].ev \in Event
  BY <1>1 DEF WorkersHoldEvents, TypeOK
<1>3. wk' \in WorkerType /\ WorkersHoldEvents'
  BY <1>1, <1>2, WorkerMoves DEF TypeOK, WorkerType
<1>4. TypeOK'
  BY <1>1, <1>3 DEF TypeOK, WorkerType
<1>5. CompletionsAcked' /\ HandlerSound' /\ RunsFresh' /\ StatusSound' /\ InputsOfOneRun'
  BY <1>1 DEF CompletionsAcked, HandlerSound, RunsFresh, StatusSound, InputsOfOneRun, Done
<1>6. QED
  BY <1>3, <1>4, <1>5

(* The steps that write a status other than Finished.                      *)
LEMMA WriteStatusIInv ==
  ASSUME IInv, NEW w \in Worker, SetStarted(w) \/ ExecuteFails(w)
  PROVE  IInv'
<1> USE DEF IInv, dimVars, streamVars
<1> DEFINE e == wk[w].ev
<1>1. /\ UNCHANGED <<run, state, streamVars, hd, caller, nextRun>>
      /\ faults' \in [FaultKind -> Nat]
      /\ WorkerTo(w, "idle", NoEvent) \/ WorkerTo(w, "executing", e)
      /\ SetStatus(e.dim, e.part, "started", 0) \/ SetStatus(e.dim, e.part, "failed", 0)
      /\ wk[w].pc # "idle"
  BY SpendFaults, FaultKinds DEF SetStarted, ExecuteFails, TypeOK
<1>2. e \in stream /\ e \in Event
  BY <1>1 DEF WorkersHoldEvents, TypeOK
<1>3. e.dim \in Dim /\ e.part \in Part
  BY <1>2 DEF Event
<1>4. wk' \in WorkerType /\ WorkersHoldEvents'
  BY <1>1, <1>2, WorkerMoves DEF TypeOK, WorkerType
<1>5. /\ parts' \in [Dim -> [Part -> [st : Status, run : Run \cup {0}]]]
      /\ StatusSound'
  BY <1>1, <1>3, StatusSet DEF TypeOK, Status
<1>6. TypeOK'
  BY <1>1, <1>4, <1>5 DEF TypeOK, WorkerType
<1>7. CompletionsAcked' /\ HandlerSound' /\ RunsFresh' /\ InputsOfOneRun'
  BY <1>1 DEF CompletionsAcked, HandlerSound, RunsFresh, InputsOfOneRun, Done
<1>8. QED
  BY <1>4, <1>5, <1>6, <1>7

(* The steps that acknowledge an event.                                    *)
LEMMA AckIInv ==
  ASSUME IInv, NEW w \in Worker, ReadStale(w) \/ ExecuteOk(w)
  PROVE  IInv'
<1> USE DEF IInv, dimVars, streamVars
<1> DEFINE e == wk[w].ev
<1>1. /\ UNCHANGED <<dimVars, stream, leased, grants, hd, caller, nextRun, faults>>
      /\ WorkerTo(w, "idle", NoEvent)
      /\ wk[w].pc # "idle"
      /\ \/ completed' = Append(completed, Empty) /\ acked' = acked
               /\ dropped' = dropped \cup {e}
         \/ completed' = Append(completed, e) /\ acked' = acked \cup {e}
               /\ dropped' = dropped
  BY DEF ReadStale, ExecuteOk
<1>2. e \in stream /\ e \in Event
  BY <1>1 DEF WorkersHoldEvents, TypeOK
<1>3. wk' \in WorkerType /\ WorkersHoldEvents'
  BY <1>1, WorkerMoves DEF TypeOK, WorkerType
<1>4. completed' \in Seq(Event \cup {Empty}) /\ CompletionsAcked'
  <2>1. CASE completed' = Append(completed, Empty) /\ acked' = acked
    BY <2>1, AppendCompletion DEF TypeOK, CompletionsAcked
  <2>2. CASE completed' = Append(completed, e) /\ acked' = acked \cup {e}
    BY <2>2, <1>2, AppendCompletion DEF TypeOK, CompletionsAcked
  <2>3. QED
    BY <1>1, <2>1, <2>2
<1>5. TypeOK'
  BY <1>1, <1>2, <1>3, <1>4 DEF TypeOK, WorkerType
<1>6. acked \subseteq acked' /\ Done \subseteq Done'
  BY <1>1 DEF Done
<1>7. HandlerSound' /\ RunsFresh' /\ StatusSound' /\ InputsOfOneRun'
  BY <1>1, <1>6 DEF HandlerSound, RunsFresh, StatusSound, InputsOfOneRun
<1>8. QED
  BY <1>3, <1>4, <1>5, <1>7

(* The handler.                                                            *)
LEMMA HandlerTakesIInv ==
  ASSUME IInv, HandleSkip \/ HandleTake
  PROVE  IInv'
<1> USE DEF IInv, dimVars, streamVars
<1> DEFINE e == Head(completed)
<1>1. /\ UNCHANGED <<dimVars, stream, leased, acked, dropped, grants, wk, caller,
                     nextRun, faults>>
      /\ completed # <<>> /\ completed' = Tail(completed)
      /\ \/ hd' = hd
         \/ e # Empty /\ hd' = [HandlerIdle EXCEPT !.pc = "set", !.ev = e]
  BY DEF HandleSkip, HandleTake, IsCurrent
<1>2. completed' \in Seq(Event \cup {Empty}) /\ CompletionsAcked'
      /\ (e = Empty \/ e \in acked)
  BY <1>1, TakeCompletion DEF TypeOK, CompletionsAcked
<1>3. e # Empty => e \in Event
  BY <1>2 DEF TypeOK
<1>4. TypeOK'
  BY <1>1, <1>2, <1>3 DEF TypeOK, HandlerIdle
<1>5. HandlerSound'
  BY <1>1, <1>2 DEF HandlerSound, HandlerIdle, Done
<1>6. WorkersHoldEvents' /\ RunsFresh' /\ StatusSound' /\ InputsOfOneRun'
  BY <1>1 DEF WorkersHoldEvents, RunsFresh, StatusSound, InputsOfOneRun, Done
<1>7. QED
  BY <1>2, <1>4, <1>5, <1>6

LEMMA HandleSetFinishedIInv ==
  ASSUME IInv, HandleSetFinished
  PROVE  IInv'
<1> USE DEF IInv, HandleSetFinished, dimVars, streamVars
<1>1. hd.ev \in acked /\ hd.ev \in Event
  BY DEF HandlerSound, TypeOK
<1>2. /\ hd.ev.dim \in Dim /\ hd.ev.part \in Part /\ hd.ev.run \in Run
      /\ <<hd.ev.run, hd.ev.part>> \in Done
  BY <1>1 DEF Event, Done
<1>3. /\ parts' \in [Dim -> [Part -> [st : Status, run : Run \cup {0}]]]
      /\ StatusSound'
  BY <1>2, StatusSet DEF TypeOK, Status
<1>4. Links[hd.ev.part] \subseteq Part /\ Start \notin Links[hd.ev.part]
  BY <1>2
<1>5. TypeOK'
  BY <1>3, <1>4 DEF TypeOK
<1>6. HandlerSound'
  BY <1>1, <1>4 DEF HandlerSound, TypeOK, Done
<1>7. WorkersHoldEvents' /\ CompletionsAcked' /\ RunsFresh' /\ InputsOfOneRun'
  BY DEF WorkersHoldEvents, CompletionsAcked, RunsFresh, InputsOfOneRun
<1>8. QED
  BY <1>3, <1>5, <1>6, <1>7

LEMMA HandleReadyIInv ==
  ASSUME IInv, NEW n \in Part, HandleReady(n)
  PROVE  IInv'
<1> USE DEF IInv, HandleReady, dimVars, streamVars
<1> DEFINE ins == {parts[hd.ev.dim][q].run : q \in Prev(n)}
<1>1. hd.ev \in acked /\ hd.ev \in Event
  BY DEF HandlerSound, TypeOK
<1>2. hd.ev.dim \in Dim /\ hd.ev.run \in Run
  BY <1>1 DEF Event
<1>3. \A q \in Prev(n) : /\ q \in Part
                         /\ parts[hd.ev.dim][q].run = hd.ev.run
                         /\ <<hd.ev.run, q>> \in Done
  BY <1>2 DEF PrevFinished, StatusSound, Prev
<1>4. ins \subseteq {hd.ev.run}
  BY <1>3
<1>5. hd' = [hd EXCEPT !.pc = "request", !.todo = @ \ {n}, !.part = n, !.ins = ins]
  OBVIOUS
<1> HIDE DEF ins
<1>6. TypeOK'
  <2>1. ins \in SUBSET (Run \cup {0}) /\ hd.todo \ {n} \in SUBSET Part
    BY <1>2, <1>4 DEF TypeOK
  <2>2. hd \in HandlerType /\ "request" \in {"idle", "set", "next", "request"}
    BY SMTT(30) DEF TypeOK, HandlerType
  <2>3. hd' \in HandlerType
    BY <1>5, <2>1, <2>2 DEF HandlerType
  <2>4. QED
    BY <2>3 DEF TypeOK, HandlerType
<1>7. n # Start
  BY DEF HandlerSound
<1>8. HandlerSound'
  BY <1>1, <1>3, <1>4, <1>5, <1>7 DEF HandlerSound, TypeOK, Done
<1>9. WorkersHoldEvents' /\ CompletionsAcked' /\ RunsFresh' /\ InputsOfOneRun' /\ StatusSound'
  BY DEF WorkersHoldEvents, CompletionsAcked, RunsFresh, InputsOfOneRun, StatusSound, Done
<1>10. QED
  BY <1>6, <1>8, <1>9

(* The steps by which the handler passes a part over or ends.              *)
LEMMA HandlerPassesIInv ==
  ASSUME IInv,
         (\E n \in Part : HandleNotReady(n)) \/ HandleRefused \/ HandleWriteFails
           \/ HandleDone
  PROVE  IInv'
<1> USE DEF IInv, dimVars, streamVars
<1>1. /\ UNCHANGED <<dimVars, stream, leased, acked, dropped, completed, wk,
                     caller, nextRun>>
      /\ faults' \in [FaultKind -> Nat]
      /\ hd.pc # "idle"
  BY SpendFaults, FaultKinds
     DEF HandleNotReady, HandleRefused, HandleWriteFails, HandleDone, TypeOK
<1>2. /\ \/ hd' = HandlerIdle
         \/ hd' = [hd EXCEPT !.pc = "next"]
         \/ hd.pc = "next" /\ \E n \in Part : hd' = [hd EXCEPT !.todo = @ \ {n}]
  BY DEF HandleNotReady, HandleRefused, HandleWriteFails, HandleDone
<1>3. grants' \in [Task -> 0 .. MaxGrants]
  <2>1. CASE HandleWriteFails
    <3>1. NextTask \in Task /\ grants[NextTask] \in 0 .. MaxGrants
      BY <1>1, NextTaskType DEF TypeOK
    <3>2. grants[NextTask] + 1 \in 0 .. MaxGrants
      BY <2>1, <3>1 DEF HandleWriteFails, Granted
    <3>3. QED
      BY <2>1, <3>2 DEF HandleWriteFails, TypeOK
  <2>2. CASE ~HandleWriteFails
    BY <2>2 DEF HandleNotReady, HandleRefused, HandleDone, TypeOK
  <2>3. QED
    BY <2>1, <2>2
<1>4. hd' \in HandlerType /\ HandlerSound'
  <2>1. hd \in HandlerType
    BY DEF TypeOK, HandlerType
  <2>2. CASE hd' = HandlerIdle
    BY <1>1, <2>2 DEF HandlerIdle, HandlerType, HandlerSound
  <2>3. CASE hd' = [hd EXCEPT !.pc = "next"]
    BY <1>1, <2>1, <2>3 DEF HandlerType, HandlerSound, Done
  <2>4. CASE hd.pc = "next" /\ \E n \in Part : hd' = [hd EXCEPT !.todo = @ \ {n}]
    <3> PICK n \in Part : hd' = [hd EXCEPT !.todo = @ \ {n}]
      BY <2>4
    <3>1. hd' \in HandlerType /\ hd'.pc = "next" /\ hd'.ev = hd.ev
          /\ hd'.todo \subseteq hd.todo
      BY <2>1, <2>4 DEF HandlerType
    <3>2. QED
      BY <1>1, <3>1 DEF HandlerSound, Done
  <2>5. QED
    BY <1>2, <2>2, <2>3, <2>4
<1>5. TypeOK'
  BY <1>1, <1>3, <1>4 DEF TypeOK, HandlerType
<1>6. WorkersHoldEvents' /\ CompletionsAcked' /\ RunsFresh' /\ InputsOfOneRun' /\ StatusSound'
  BY <1>1 DEF WorkersHoldEvents, CompletionsAcked, RunsFresh, InputsOfOneRun, StatusSound, Done
<1>7. QED
  BY <1>4, <1>5, <1>6

LEMMA HandleIssueIInv ==
  ASSUME IInv, HandleIssue
  PROVE  IInv'
<1> USE DEF IInv, HandleIssue, dimVars
<1>1. hd.ev \in acked /\ hd.ev \in Event /\ hd.ev \in stream
  BY DEF HandlerSound, TypeOK
<1>2. hd.ev.dim \in Dim /\ hd.ev.run \in Run /\ hd.part \in Part
      /\ NextTask \in Task /\ grants[NextTask] \in 0 .. MaxGrants
  BY <1>1 DEF Event, TypeOK, NextTask, Task
<1>3. hd.ins \subseteq {hd.ev.run}
  BY DEF HandlerSound
<1>4. NextEvent \in Event /\ NextEvent.run = hd.ev.run /\ NextEvent.ins = hd.ins
  BY <1>2, <1>3 DEF NextEvent, Event
<1>5. grants' \in [Task -> 0 .. MaxGrants]
  BY <1>2 DEF TypeOK, Granted
<1>6. TypeOK'
  BY <1>4, <1>5 DEF TypeOK
<1>7. InputsOfOneRun'
  BY <1>3, <1>4 DEF InputsOfOneRun
<1>8. RunsFresh'
  BY <1>1, <1>4 DEF RunsFresh
<1>9. HandlerSound'
  BY DEF HandlerSound, TypeOK, Done
<1>10. WorkersHoldEvents' /\ CompletionsAcked' /\ StatusSound'
  BY DEF WorkersHoldEvents, CompletionsAcked, StatusSound, Done
<1>11. QED
  BY <1>6, <1>7, <1>8, <1>9, <1>10

LEMMA CrashIInv ==
  ASSUME IInv, Crash
  PROVE  IInv'
<1> USE DEF IInv, Crash
<1>1. faults' \in [FaultKind -> Nat]
  BY SpendFaults, FaultKinds DEF TypeOK
<1>2. TypeOK'
  BY <1>1 DEF TypeOK, HandlerIdle, Status
<1>3. WorkersHoldEvents' /\ CompletionsAcked' /\ HandlerSound'
  BY DEF WorkersHoldEvents, CompletionsAcked, HandlerSound, HandlerIdle
<1>4. RunsFresh' /\ StatusSound' /\ InputsOfOneRun'
  BY DEF RunsFresh, StatusSound, InputsOfOneRun
<1>5. QED
  BY <1>2, <1>3, <1>4

LEMMA NextIInv == IInv /\ [Next]_vars => IInv'
<1> SUFFICES ASSUME IInv, [Next]_vars PROVE IInv'
  OBVIOUS
<1>1. CASE \E c \in Caller, d \in Dim : NewSwap(c, d)
  BY <1>1, NewSwapIInv
<1>2. CASE \E c \in Caller : NewStep(c) \/ NewWriteFails(c)
  BY <1>2, NewResetIInv, NewWriteIInv, NewWriteFailsIInv DEF NewStep
<1>3. CASE \/ \E w \in Worker, e \in stream : Deliver(w, e)
           \/ \E e \in stream : Timeout(e) \/ TimeoutEarly(e)
  BY <1>3, QueueIInv
<1>4. CASE \E w \in Worker : WorkerStep(w) \/ ExecuteFails(w) \/ ExecutePanics(w)
  BY <1>4, ReadIInv, WriteStatusIInv, AckIInv DEF WorkerStep
<1>5. CASE HandlerStep \/ HandleWriteFails
  BY <1>5, HandlerTakesIInv, HandleSetFinishedIInv, HandleReadyIInv, HandlerPassesIInv,
     HandleIssueIInv DEF HandlerStep
<1>6. CASE Crash
  BY <1>6, CrashIInv
<1>7. CASE UNCHANGED vars
  <2>1. TypeOK'
    BY <1>7 DEF IInv, TypeOK, vars
  <2>2. HandlerSound' /\ RunsFresh' /\ WorkersHoldEvents' /\ CompletionsAcked'
    BY <1>7 DEF IInv, HandlerSound, RunsFresh, WorkersHoldEvents, CompletionsAcked, Done, vars
  <2>3. StatusSound' /\ InputsOfOneRun'
    BY <1>7 DEF IInv, StatusSound, InputsOfOneRun, Done, vars
  <2>4. QED
    BY <2>1, <2>2, <2>3 DEF IInv
<1>8. QED
  BY <1>1, <1>2, <1>3, <1>4, <1>5, <1>6, <1>7 DEF Next

(* The inductive invariant holds in every reachable state.                 *)
THEOREM Invariance == Spec => []IInv
<1>1. QED
  BY InitIInv, NextIInv, PTL DEF Spec

(* All state of the reader keeps its type: in particular every event ever  *)
(* written names a part of the story and a run that New() handed out.      *)
THEOREM TypeCorrect == Spec => []TypeOK
<1>1. IInv => TypeOK
  BY DEF IInv
<1>2. QED
  BY <1>1, Invariance, PTL

(* No restart ever mixes the data of two runs (line 199 of the reader).    *)
THEOREM NoMixedInputs == Spec => []InputsOfOneRun
<1>1. IInv => InputsOfOneRun
  BY DEF IInv
<1>2. QED
  BY <1>1, Invariance, PTL

(* A part shown as Finished was acknowledged in the run of its data.       *)
THEOREM StatusNeverLies == Spec => []StatusSound
<1>1. IInv => StatusSound
  BY DEF IInv
<1>2. QED
  BY <1>1, Invariance, PTL

-----------------------------------------------------------------------------
(* The reader implements StoryRun.                                         *)

LEMMA TasksOfUnion ==
  ASSUME NEW S, NEW e
  PROVE  {<<f.run, f.part>> : f \in S \cup {e}}
           = {<<f.run, f.part>> : f \in S} \cup {<<e.run, e.part>>}
  OBVIOUS

LEMMA InitImplements == Init => Story!Init
  BY DEF Init, Story!Init, Issued, Done

LEMMA NewWriteBegins ==
  ASSUME IInv, NEW c \in Caller, NewWrite(c)
  PROVE  Story!Begin(caller[c].run) /\ caller[c].run \in Run
<1> USE DEF NewWrite
<1>1. caller[c].run \in Run /\ \A e \in stream : e.run # caller[c].run
  BY DEF IInv, RunsFresh
<1>2. \A p \in Part : <<caller[c].run, p>> \notin Issued
  BY <1>1 DEF Issued
<1>3. Issued' = Issued \cup {<<caller[c].run, Start>>}
  <2> DEFINE e == StartEvent(caller[c].dim, caller[c].run)
  <2>1. e.run = caller[c].run /\ e.part = Start
    BY DEF StartEvent
  <2>2. stream' = stream \cup {e}
    OBVIOUS
  <2> HIDE DEF e
  <2>3. Issued' = Issued \cup {<<e.run, e.part>>}
    BY <2>2, TasksOfUnion DEF Issued
  <2>4. QED
    BY <2>1, <2>3
<1>4. Done' = Done
  BY DEF Done
<1>5. QED
  BY <1>1, <1>2, <1>3, <1>4 DEF Story!Begin

LEMMA HandleIssueIssues ==
  ASSUME IInv, HandleIssue
  PROVE  Story!Issue(hd.ev.run, hd.part) /\ hd.ev.run \in Run /\ hd.part \in Part
<1> USE DEF HandleIssue
<1>1. hd.ev.run \in Run /\ hd.part \in Part
  BY NextTaskType DEF IInv
<1>2. hd.part # Start /\ \A q \in Prev(hd.part) : <<hd.ev.run, q>> \in Done
  BY DEF IInv, HandlerSound
<1>3. Issued' = Issued \cup {<<hd.ev.run, hd.part>>}
  <2>1. NextEvent.run = hd.ev.run /\ NextEvent.part = hd.part
    BY DEF NextEvent
  <2>2. Issued' = Issued \cup {<<NextEvent.run, NextEvent.part>>}
    BY TasksOfUnion DEF Issued
  <2>3. QED
    BY <2>1, <2>2
<1>4. Done' = Done
  BY DEF Done
<1>5. QED
  BY <1>1, <1>2, <1>3, <1>4 DEF Story!Issue, Story!PrevDone, Story!Prev, Prev

LEMMA ExecuteOkFinishes ==
  ASSUME IInv, NEW w \in Worker, ExecuteOk(w)
  PROVE  \E r \in Run, p \in Part : Story!Finish(r, p)
<1> USE DEF ExecuteOk
<1> DEFINE e == wk[w].ev
<1>1. e \in stream /\ e \in Event
  BY DEF IInv, WorkersHoldEvents, TypeOK
<1>2. e.run \in Run /\ e.part \in Part /\ <<e.run, e.part>> \in Issued
  BY <1>1 DEF Event, Issued
<1>3. Done' = Done \cup {<<e.run, e.part>>}
  BY DEF Done
<1>4. Issued' = Issued
  BY DEF Issued
<1>5. QED
  BY <1>2, <1>3, <1>4 DEF Story!Finish

(* Only three actions touch what StoryRun sees of the stream.              *)
LEMMA StreamSteps ==
  ASSUME [Next]_vars
  PROVE  \/ \E c \in Caller : NewWrite(c)
         \/ HandleIssue
         \/ \E w \in Worker : ExecuteOk(w)
         \/ stream' = stream /\ acked' = acked
<1> SUFFICES ASSUME ~\E c \in Caller : NewWrite(c), ~HandleIssue,
                    ~\E w \in Worker : ExecuteOk(w)
             PROVE  stream' = stream /\ acked' = acked
  OBVIOUS
<1> USE DEF streamVars
<1>1. CASE \E c \in Caller, d \in Dim : NewSwap(c, d)
  BY <1>1 DEF NewSwap
<1>2. CASE \E c \in Caller : NewStep(c) \/ NewWriteFails(c)
  BY <1>2 DEF NewStep, NewReset, NewWriteFails
<1>3. CASE \/ \E w \in Worker, e \in stream : Deliver(w, e)
           \/ \E e \in stream : Timeout(e) \/ TimeoutEarly(e)
  BY <1>3 DEF Deliver, Timeout, TimeoutEarly
<1>4. CASE \E w \in Worker : WorkerStep(w) \/ ExecuteFails(w) \/ ExecutePanics(w)
  BY SMTT(30), <1>4 DEF WorkerStep, ReadUnknown, ReadStale, ReadCurrent, SetStarted,
                    ExecuteFails, ExecutePanics
<1>5. CASE HandlerStep \/ HandleWriteFails
  BY <1>5 DEF HandlerStep, HandleSkip, HandleTake, HandleSetFinished,
                    HandleNotReady, HandleReady, HandleRefused, HandleDone,
                    HandleWriteFails
<1>6. CASE Crash \/ UNCHANGED vars
  BY <1>6 DEF Crash, vars
<1>7. QED
  BY <1>1, <1>2, <1>3, <1>4, <1>5, <1>6 DEF Next

LEMMA StepImplements ==
  IInv /\ [Next]_vars => [Story!Next]_<<Issued, Done>>
<1> SUFFICES ASSUME IInv, [Next]_vars
             PROVE  Story!Next \/ (Issued' = Issued /\ Done' = Done)
  OBVIOUS
<1>1. CASE \E c \in Caller : NewWrite(c)
  BY <1>1, NewWriteBegins, StoryAssumption DEF Story!Next
<1>2. CASE HandleIssue
  BY <1>2, HandleIssueIssues DEF Story!Next
<1>3. CASE \E w \in Worker : ExecuteOk(w)
  BY <1>3, ExecuteOkFinishes DEF Story!Next
<1>4. CASE stream' = stream /\ acked' = acked
  BY <1>4 DEF Issued, Done
<1>5. QED
  BY <1>1, <1>2, <1>3, <1>4, StreamSteps

(* Every behaviour of the reader is a behaviour of StoryRun: a part is     *)
(* written only when all parts before it are done in the same run.         *)
THEOREM Implementation == Spec => ImplementsStory
<1>1. QED
  BY InitImplements, StepImplements, Invariance, PTL
     DEF Spec, ImplementsStory, Story!Spec

-----------------------------------------------------------------------------
(* The same order, read off the stream itself.                             *)
EventsOrdered ==
  \A e \in stream : \A q \in Prev(e.part) : <<e.run, q>> \in Done

LEMMA NextEventsOrdered == IInv /\ EventsOrdered /\ [Next]_vars => EventsOrdered'
<1> SUFFICES ASSUME IInv, EventsOrdered, [Next]_vars PROVE EventsOrdered'
  OBVIOUS
<1>1. ASSUME NEW c \in Caller, NewWrite(c) PROVE EventsOrdered'
  <2>1. /\ stream' = stream \cup {StartEvent(caller[c].dim, caller[c].run)}
        /\ acked' = acked
    BY <1>1 DEF NewWrite
  <2>2. Prev(StartEvent(caller[c].dim, caller[c].run).part) = {}
    BY StartHasNoPrev DEF StartEvent
  <2>3. QED
    BY <2>1, <2>2 DEF EventsOrdered, Done
<1>2. CASE HandleIssue
  <2>1. stream' = stream \cup {NextEvent} /\ acked' = acked
    BY <1>2 DEF HandleIssue
  <2>2. \A q \in Prev(NextEvent.part) : <<NextEvent.run, q>> \in Done
    BY <1>2 DEF HandleIssue, NextEvent, IInv, HandlerSound
  <2>3. QED
    BY <2>1, <2>2 DEF EventsOrdered, Done
<1>3. ASSUME NEW w \in Worker, ExecuteOk(w) PROVE EventsOrdered'
  BY SMTT(30), <1>3 DEF ExecuteOk, EventsOrdered, Done
<1>4. CASE stream' = stream /\ acked' = acked
  BY <1>4 DEF EventsOrdered, Done
<1>5. QED
  BY <1>1, <1>2, <1>3, <1>4, StreamSteps

(* No part is ever written, let alone executed, before all parts that lead *)
(* to it were acknowledged with data in the same run.                      *)
THEOREM DependenciesFirst == Spec => []EventsOrdered
<1>1. Init => EventsOrdered
  BY DEF Init, EventsOrdered
<1>2. QED
  BY <1>1, NextEventsOrdered, Invariance, PTL DEF Spec
=============================================================================
