------------------------------- MODULE Reader -------------------------------
(***************************************************************************)
(* The one-shot story reader (fairytale/reader/reader.go): every call of   *)
(* New is a run of its own, none is restarted.  Workers are the goroutines *)
(* in Read(); one goroutine, the handler, collects what was completed in   *)
(* comp, a map in memory by ReadID and part, and writes the parts that     *)
(* became runnable.                                                        *)
(*                                                                         *)
(* External, modelled from its use, as in Repeatable: the competing        *)
(* consumer, an at-least-once queue, and the consensus.  Whether the       *)
(* consumer completes again, after a restart, what was completed before it *)
(* is not to be seen here: both may happen.  Left out: payloads, logging,  *)
(* and two branches of Read no story that New accepts can reach: a part    *)
(* without an adapter, and an adapter whose data is nil though its type is *)
(* not.  What New accepts is Wiring's subject.                             *)
(***************************************************************************)
EXTENDS StoryGraph, Sequences

CONSTANTS
  Worker,     \* goroutines in Read()
  MaxRuns,    \* bound on the calls of New
  MaxGrants,  \* how often the consensus grants one id: 1, or more when the
              \* lease of an id may run out
  MaxFaults   \* how often each fault may strike, see FaultKind

FaultKind ==
  { "slow",     \* an event times out while a worker is executing it
    "refuse",   \* the consensus refuses an id nobody holds
    "werr",     \* a write of the handler returns an error
    "crash" }   \* the process stops and starts again

ASSUME ReaderAssumption ==
  /\ MaxRuns \in Nat
  /\ MaxGrants \in Nat
  /\ MaxFaults \in [FaultKind -> Nat]

VARIABLES
  stream,   \* events written
  leased,   \* events delivered and within their timeout
  acked,    \* the acknowledgements, in their order
  seen,     \* how many of them the handler has taken from Completed()
  grants,   \* [Task -> how often the consensus granted the id]
  comp,     \* [Run -> parts completed]
  wk,       \* [Worker -> event], NoEvent while it waits for one
  hd,       \* the handler: pc, completion, successors left, the one granted
  nextRun,  \* the next fresh ReadID
  faults    \* faults still allowed

vars == <<stream, leased, acked, seen, grants, comp, wk, hd, nextRun, faults>>

Run     == 1 .. MaxRuns
Task    == Run \X Part
Event   == [run : Run, part : Part, copy : Nat]
NoEvent == [part |-> "none"]

Acks    == {acked[i] : i \in DOMAIN acked}
Done    == {<<e.run, e.part>> : e \in Acks}
Issued  == {<<e.run, e.part>> : e \in stream}
Pending == stream \ Acks

HandlerIdle == [pc |-> "idle", ev |-> NoEvent, todo |-> {}, part |-> Start]

Spend(k) ==
  /\ faults[k] > 0
  /\ faults' = [faults EXCEPT ![k] = @ - 1]

Init ==
  /\ stream = {} /\ leased = {} /\ acked = <<>> /\ seen = 0
  /\ grants = [t \in Task |-> 0]
  /\ comp = [r \in Run |-> {}]
  /\ wk = [w \in Worker |-> NoEvent]
  /\ hd = HandlerIdle
  /\ nextRun = 1
  /\ faults = MaxFaults

-----------------------------------------------------------------------------
(* New(d): the start part of a fresh run is written, or the error of the   *)
(* write returned.                                                         *)

New ==
  /\ nextRun \in Run
  /\ nextRun' = nextRun + 1
  /\ stream' = stream \cup {[run |-> nextRun, part |-> Start, copy |-> 0]}
  /\ UNCHANGED <<leased, acked, seen, grants, comp, wk, hd, faults>>

NewFails ==
  /\ nextRun \in Run
  /\ nextRun' = nextRun + 1
  /\ UNCHANGED <<stream, leased, acked, seen, grants, comp, wk, hd, faults>>

-----------------------------------------------------------------------------
(* The competing consumer. *)

Held(e) == \E w \in Worker : wk[w] = e

Deliver(w, e) ==
  /\ wk[w] = NoEvent
  /\ e \in Pending \ leased
  /\ leased' = leased \cup {e}
  /\ wk' = [wk EXCEPT ![w] = e]
  /\ UNCHANGED <<stream, acked, seen, grants, comp, hd, nextRun, faults>>

(* The timeout of a delivery passes: one that was given up or lost with    *)
(* the process, or one that a worker is still executing.                   *)
Timeout(e) ==
  /\ e \in leased \cap Pending
  /\ ~Held(e)
  /\ leased' = leased \ {e}
  /\ UNCHANGED <<stream, acked, seen, grants, comp, wk, hd, nextRun, faults>>

TimeoutEarly(e) ==
  /\ e \in leased \cap Pending
  /\ Held(e)
  /\ Spend("slow")
  /\ leased' = leased \ {e}
  /\ UNCHANGED <<stream, acked, seen, grants, comp, wk, hd, nextRun>>

-----------------------------------------------------------------------------
(* Read(), one loop per worker. *)

(* The part is executed and its event acknowledged with the result.        *)
ExecuteOk(w) ==
  /\ wk[w] # NoEvent
  /\ acked' = Append(acked, wk[w])
  /\ wk' = [wk EXCEPT ![w] = NoEvent]
  /\ UNCHANGED <<stream, leased, seen, grants, comp, hd, nextRun, faults>>

(* Execute returns an error, or panics and Read recovers: the event is     *)
(* left to be delivered again.                                             *)
ExecuteFails(w) ==
  /\ wk[w] # NoEvent
  /\ wk' = [wk EXCEPT ![w] = NoEvent]
  /\ UNCHANGED <<stream, leased, acked, seen, grants, comp, hd, nextRun, faults>>

-----------------------------------------------------------------------------
(* The goroutine of the constructor that consumes c.Completed(). *)

HandleTake ==
  /\ hd.pc = "idle"
  /\ seen < Len(acked)
  /\ seen' = seen + 1
  /\ LET e == acked[seen + 1]
     IN  /\ comp' = [comp EXCEPT ![e.run] = @ \cup {e.part}]
         /\ hd' = [HandlerIdle EXCEPT !.pc = "next", !.ev = e,
                                      !.todo = Links[e.part]]
  /\ UNCHANGED <<stream, leased, acked, grants, wk, nextRun, faults>>

(* Mutant: one of the parts before n is enough.                            *)
OnePrevThere(n) == Prev(n) \cap comp[hd.ev.run] # {}

(* Part n may be written when all parts before it were completed.          *)
PrevThere(n) == Prev(n) \subseteq comp[hd.ev.run]

(* Mutant: a part that is not ready ends the loop.                         *)
HandleNotReadyStops(n) ==
  /\ hd.pc = "next" /\ n \in hd.todo
  /\ ~PrevThere(n)
  /\ hd' = [hd EXCEPT !.todo = {}]
  /\ UNCHANGED <<stream, leased, acked, seen, grants, comp, wk, nextRun, faults>>

HandleNotReady(n) ==
  /\ hd.pc = "next" /\ n \in hd.todo
  /\ ~PrevThere(n)
  /\ hd' = [hd EXCEPT !.todo = @ \ {n}]
  /\ UNCHANGED <<stream, leased, acked, seen, grants, comp, wk, nextRun, faults>>

(* cons.Request(np_ReadID): only one request for an id is granted, until   *)
(* its lease runs out.                                                     *)
HandleGranted(n) ==
  /\ hd.pc = "next" /\ n \in hd.todo
  /\ PrevThere(n)
  /\ grants[<<hd.ev.run, n>>] < MaxGrants
  /\ grants' = [grants EXCEPT ![<<hd.ev.run, n>>] = @ + 1]
  /\ hd' = [hd EXCEPT !.pc = "write", !.todo = @ \ {n}, !.part = n]
  /\ UNCHANGED <<stream, leased, acked, seen, comp, wk, nextRun, faults>>

(* Refused, because somebody holds the id or not: the part is passed over. *)
HandleRefused(n) ==
  /\ hd.pc = "next" /\ n \in hd.todo
  /\ PrevThere(n)
  /\ \/ grants[<<hd.ev.run, n>>] > 0 /\ UNCHANGED faults
     \/ grants[<<hd.ev.run, n>>] = 0 /\ Spend("refuse")
  /\ hd' = [hd EXCEPT !.todo = @ \ {n}]
  /\ UNCHANGED <<stream, leased, acked, seen, grants, comp, wk, nextRun>>

NextEvent ==
  [run |-> hd.ev.run, part |-> hd.part, copy |-> grants[<<hd.ev.run, hd.part>>]]

HandleWrite ==
  /\ hd.pc = "write"
  /\ stream' = stream \cup {NextEvent}
  /\ hd' = [hd EXCEPT !.pc = "next"]
  /\ UNCHANGED <<leased, acked, seen, grants, comp, wk, nextRun, faults>>

(* The id stays granted, the part is passed over.                          *)
HandleWriteFails ==
  /\ hd.pc = "write"
  /\ Spend("werr")
  /\ hd' = [hd EXCEPT !.pc = "next"]
  /\ UNCHANGED <<stream, leased, acked, seen, grants, comp, wk, nextRun>>

HandleDone ==
  /\ hd.pc = "next" /\ hd.todo = {}
  /\ hd' = HandlerIdle
  /\ UNCHANGED <<stream, leased, acked, seen, grants, comp, wk, nextRun, faults>>

-----------------------------------------------------------------------------
(* The process stops and starts again: the stream remains, what was        *)
(* completed may come again from its beginning, or not at all.             *)
Crash ==
  /\ Spend("crash")
  /\ seen' \in {0, Len(acked)}
  /\ comp' = [r \in Run |-> {}]
  /\ wk' = [w \in Worker |-> NoEvent]
  /\ hd' = HandlerIdle
  /\ UNCHANGED <<stream, leased, acked, grants, nextRun>>

HandlerStep ==
  \/ HandleTake
  \/ \E n \in Part : HandleNotReady(n) \/ HandleGranted(n) \/ HandleRefused(n)
  \/ HandleWrite \/ HandleDone

Next ==
  \/ New \/ NewFails
  \/ \E w \in Worker, e \in stream : Deliver(w, e)
  \/ \E e \in stream : Timeout(e) \/ TimeoutEarly(e)
  \/ \E w \in Worker : ExecuteOk(w) \/ ExecuteFails(w)
  \/ HandlerStep \/ HandleWriteFails
  \/ Crash

Spec == Init /\ [][Next]_vars

(* Goroutines keep running, Execute comes back and does not fail for ever, *)
(* and the consumer delivers what is pending, again after its timeout.  No *)
(* fairness on the faults and none on new calls.                           *)
Fairness ==
  /\ \A w \in Worker : WF_vars(ExecuteOk(w) \/ ExecuteFails(w))
  /\ \A w \in Worker : SF_vars(ExecuteOk(w))
  /\ WF_vars(\E w \in Worker, e \in stream : Deliver(w, e))
  /\ WF_vars(\E e \in stream : Timeout(e))
  /\ WF_vars(HandlerStep)

FairSpec == Spec /\ Fairness

-----------------------------------------------------------------------------

(* The reader implements StoryRun: a part is written only when every part  *)
(* before it is done in its run, in spite of crashes, of completions that  *)
(* come twice or again after a restart, and of lost writes.                *)
Story == INSTANCE StoryRun WITH issued <- Issued, done <- Done
ImplementsStory == Story!Spec

(* Only the handler's memory carries a story on.  Every run that was begun *)
(* gets to its end, whatever fails, panics or outlives its timeout, unless *)
(* the consensus or the stream refused a part, which nothing tries again,  *)
(* or the process stopped.                                                 *)
Lost(k) == faults[k] < MaxFaults[k]

RunsFinish ==
  []<>(\A r \in Run :
         <<r, Start>> \in Issued =>
           \/ \A p \in Part : <<r, p>> \in Done
           \/ Lost("refuse") \/ Lost("werr") \/ Lost("crash"))

-----------------------------------------------------------------------------
(* The inductive invariant behind ImplementsStory. *)

TypeOK ==
  /\ stream \in SUBSET Event
  /\ leased \in SUBSET stream
  /\ acked \in Seq(stream)
  /\ seen \in 0 .. Len(acked)
  /\ grants \in [Task -> Nat]
  /\ comp \in [Run -> SUBSET Part]
  /\ wk \in [Worker -> stream \cup {NoEvent}]
  /\ hd \in [pc : {"idle", "next", "write"}, ev : stream \cup {NoEvent},
             todo : SUBSET Part, part : Part]
  /\ nextRun \in 1 .. MaxRuns + 1
  /\ faults \in [FaultKind -> Nat]

(* What the handler remembers, and what it is about to write, was done.    *)
CompSound == \A r \in Run : \A p \in comp[r] : <<r, p>> \in Done

HandlerSound ==
  /\ hd.pc # "idle" => hd.ev \in stream
  /\ Start \notin hd.todo
  /\ hd.pc = "write" =>
       /\ hd.part # Start
       /\ \A q \in Prev(hd.part) : <<hd.ev.run, q>> \in Done

RunsFresh == \A e \in stream : e.run < nextRun

IInv == TypeOK /\ CompSound /\ HandlerSound /\ RunsFresh
=============================================================================
