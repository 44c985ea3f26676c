----------------------------- MODULE Repeatable -----------------------------
(***************************************************************************)
(* The repeatable story reader (fairytale/repeatable/reader.go), the       *)
(* engine that provisions every cluster.                                   *)
(*                                                                         *)
(* Callers start or restart the story of a dimension (New); Workers are    *)
(* the goroutines in Read(); one goroutine, the handler, consumes the      *)
(* acknowledged events (Completed) and writes the parts that became        *)
(* runnable.  The three share the in-memory dimensions map and meet only   *)
(* through the competing consumer, an at-least-once queue: an event that   *)
(* is not acknowledged within its timeout is delivered again, also while   *)
(* the first worker is still at it.                                        *)
(*                                                                         *)
(* External, modelled from its use: the competing consumer (Deliver,       *)
(* Timeout, the completed channel) and the consensus (grants).  Left out:  *)
(* payloads (an event carries the set of runs its inputs come from),       *)
(* logging, and the CompareAndSwap of lines 189 and 330, which stores the  *)
(* value the map holds already (a dimension is three shared references).   *)
(* The branch of line 326 is unreachable: Execute returns marshalled data  *)
(* for every adapter whose type is not nil.                                *)
(***************************************************************************)
EXTENDS StoryGraph, Sequences

CONSTANTS
  Dim,        \* dimensions: one per environment, system and cluster
  Worker,     \* goroutines in Read()
  Caller,     \* goroutines that may call New()
  MaxRuns,    \* bound on the calls of New
  MaxGrants,  \* how often the consensus grants one id: 1, or more when the
              \* lease of an id may run out
  MaxFaults   \* how often each fault may strike, see FaultKind

FaultKind ==
  { "fail",     \* Execute returns an error
    "panic",    \* Execute panics, recovered by Read
    "slow",     \* an event times out while a worker is executing it
    "refuse",   \* the consensus refuses an id nobody holds
    "werr",     \* a write to the stream returns an error
    "crash" }   \* the process stops and starts again

ASSUME RepeatableAssumption ==
  /\ MaxRuns \in Nat
  /\ MaxGrants \in Nat
  /\ MaxFaults \in [FaultKind -> Nat]

VARIABLES
  \* the dimensions map, in memory
  run,        \* [Dim -> current run], 0 when the dimension is not in the map
  state,      \* [Dim -> State of the dimension]
  parts,      \* [Dim -> [Part -> status and the run of the data kept with it]]
  \* the stream and the competing consumer
  stream,     \* events written
  leased,     \* events delivered and within their timeout
  acked,      \* events acknowledged with data
  dropped,    \* events acknowledged empty
  completed,  \* the Completed() channel
  grants,     \* [Run \X Part -> how often the consensus granted the id]
  \* goroutines
  wk,         \* [Worker -> pc and event]
  hd,         \* the handler: pc, completion, successors left, the one being
              \* written and the runs its inputs come from
  caller,     \* [Caller -> pc, dimension and run]
  nextRun,    \* the next fresh run id
  faults      \* faults still allowed

dimVars    == <<run, state, parts>>
streamVars == <<stream, leased, acked, dropped, completed, grants>>
vars == <<run, state, parts, stream, leased, acked, dropped, completed,
          grants, wk, hd, caller, nextRun, faults>>

Run     == 1 .. MaxRuns
Task    == Run \X Part
Status  == {"absent", "waiting", "started", "finished", "failed",
            "restarted", "terminated"}
Event   == [dim : Dim, run : Run, part : Part, copy : Nat, ins : SUBSET Run]
NoEvent == [dim |-> "none"]
(* data{}: what Acc(data{}) makes of an event, it names no dimension *)
Empty   == [dim |-> "empty"]

Done    == {<<e.run, e.part>> : e \in acked}
Issued  == {<<e.run, e.part>> : e \in stream}
Pending == stream \ (acked \cup dropped)

HandlerIdle ==
  [pc |-> "idle", ev |-> NoEvent, todo |-> {}, part |-> Start, ins |-> {}]

(* storyStates.Set(p, storyPart{State: s, Data: of run r}) *)
SetStatus(d, p, s, r) ==
  parts' = [parts EXCEPT ![d][p] = [st |-> s, run |-> r]]

Spend(k) ==
  /\ faults[k] > 0
  /\ faults' = [faults EXCEPT ![k] = @ - 1]

Init ==
  /\ run = [d \in Dim |-> 0]
  /\ state = [d \in Dim |-> "absent"]
  /\ parts = [d \in Dim |-> [p \in Part |-> [st |-> "absent", run |-> 0]]]
  /\ stream = {} /\ leased = {} /\ acked = {} /\ dropped = {}
  /\ completed = <<>>
  /\ grants = [t \in Task |-> 0]
  /\ wk = [w \in Worker |-> [pc |-> "idle", ev |-> NoEvent]]
  /\ hd = HandlerIdle
  /\ caller = [c \in Caller |-> [pc |-> "idle", dim |-> "none", run |-> 0]]
  /\ nextRun = 1
  /\ faults = MaxFaults

-----------------------------------------------------------------------------
(* New(dim, b): a fresh run replaces the current one at once (run.Swap),   *)
(* then the statuses are reset, then the start event is written.           *)

NewSwap(c, d) ==
  /\ caller[c].pc = "idle"
  /\ nextRun \in Run
  /\ nextRun' = nextRun + 1
  /\ run' = [run EXCEPT ![d] = nextRun]
  /\ state' = [state EXCEPT ![d] = IF run[d] # 0 THEN "restarted" ELSE "started"]
  /\ caller' = [caller EXCEPT ![c] = [pc |-> "reset", dim |-> d, run |-> nextRun]]
  /\ UNCHANGED <<parts, streamVars, wk, hd, faults>>

(* The status a part gets when the story is restarted over it. *)
ResetStatus(s) ==
  CASE s = "started"  -> "terminated"
    [] s = "finished" -> "restarted"
    [] OTHER          -> "waiting"

(* The loop over all parts in one step: the accesses of other goroutines   *)
(* are to single parts, so each falls before or after the part's reset.    *)
NewReset(c) ==
  LET d == caller[c].dim IN
  /\ caller[c].pc = "reset"
  /\ parts' = [parts EXCEPT ![d] =
       [p \in Part |-> [st |-> ResetStatus(parts[d][p].st), run |-> 0]]]
  /\ caller' = [caller EXCEPT ![c].pc = "write"]
  /\ UNCHANGED <<run, state, streamVars, wk, hd, nextRun, faults>>

StartEvent(d, r) == [dim |-> d, run |-> r, part |-> Start, copy |-> 0, ins |-> {}]

NewWrite(c) ==
  /\ caller[c].pc = "write"
  /\ stream' = stream \cup {StartEvent(caller[c].dim, caller[c].run)}
  /\ caller' = [caller EXCEPT ![c].pc = "idle"]
  /\ UNCHANGED <<dimVars, leased, acked, dropped, completed, grants, wk, hd,
                 nextRun, faults>>

(* The write fails: New returns the error, which Provision ignores. *)
NewWriteFails(c) ==
  /\ caller[c].pc = "write"
  /\ Spend("werr")
  /\ caller' = [caller EXCEPT ![c].pc = "idle"]
  /\ UNCHANGED <<dimVars, streamVars, wk, hd, nextRun>>

-----------------------------------------------------------------------------
(* Read(), one loop per worker.                                            *)

WorkerTo(w, pc, e) == wk' = [wk EXCEPT ![w] = [pc |-> pc, ev |-> e]]

(* The consumer hands a worker an event no delivery of which is pending. *)
Deliver(w, e) ==
  /\ wk[w].pc = "idle"
  /\ e \in Pending \ leased
  /\ leased' = leased \cup {e}
  /\ WorkerTo(w, "got", e)
  /\ UNCHANGED <<dimVars, stream, acked, dropped, completed, grants, hd,
                 caller, nextRun, faults>>

Held(e) == \E w \in Worker : wk[w].pc # "idle" /\ wk[w].ev = e

(* The timeout of a delivery that was given up passes ... *)
Timeout(e) ==
  /\ e \in leased \cap Pending
  /\ ~Held(e)
  /\ leased' = leased \ {e}
  /\ UNCHANGED <<dimVars, stream, acked, dropped, completed, grants, wk, hd,
                 caller, nextRun, faults>>

(* ... or that of a delivery its worker is still executing. *)
TimeoutEarly(e) ==
  /\ e \in leased \cap Pending
  /\ Held(e)
  /\ Spend("slow")
  /\ leased' = leased \ {e}
  /\ UNCHANGED <<dimVars, stream, acked, dropped, completed, grants, wk, hd,
                 caller, nextRun>>

(* An event of a dimension the process does not know is left alone. *)
ReadUnknown(w) ==
  /\ wk[w].pc = "got"
  /\ run[wk[w].ev.dim] = 0
  /\ WorkerTo(w, "idle", NoEvent)
  /\ UNCHANGED <<dimVars, streamVars, hd, caller, nextRun, faults>>

(* Mutant: a stale event is skipped without an acknowledgement.            *)
ReadStaleNoAcc(w) ==
  /\ wk[w].pc = "got"
  /\ run[wk[w].ev.dim] \notin {0, wk[w].ev.run}
  /\ WorkerTo(w, "idle", NoEvent)
  /\ UNCHANGED <<dimVars, streamVars, hd, caller, nextRun, faults>>

(* An event of a superseded run is acknowledged empty: "sort of a          *)
(* terminate".                                                             *)
ReadStale(w) ==
  LET e == wk[w].ev IN
  /\ wk[w].pc = "got"
  /\ run[e.dim] \notin {0, e.run}
  /\ dropped' = dropped \cup {e}
  /\ completed' = Append(completed, Empty)
  /\ WorkerTo(w, "idle", NoEvent)
  /\ UNCHANGED <<dimVars, stream, leased, acked, grants, hd, caller, nextRun,
                 faults>>

(* The run matches; nothing ties the steps below to it any more. *)
ReadCurrent(w) ==
  /\ wk[w].pc = "got"
  /\ run[wk[w].ev.dim] = wk[w].ev.run
  /\ WorkerTo(w, "checked", wk[w].ev)
  /\ UNCHANGED <<dimVars, streamVars, hd, caller, nextRun, faults>>

(* Mutant: the part is marked Finished before it is executed.              *)
SetFinishedEarly(w) ==
  LET e == wk[w].ev IN
  /\ wk[w].pc = "checked"
  /\ SetStatus(e.dim, e.part, "finished", e.run)
  /\ WorkerTo(w, "executing", e)
  /\ UNCHANGED <<run, state, streamVars, hd, caller, nextRun, faults>>

SetStarted(w) ==
  LET e == wk[w].ev IN
  /\ wk[w].pc = "checked"
  /\ SetStatus(e.dim, e.part, "started", 0)
  /\ WorkerTo(w, "executing", e)
  /\ UNCHANGED <<run, state, streamVars, hd, caller, nextRun, faults>>

(* Execute succeeds and the event is acknowledged with its result. *)
ExecuteOk(w) ==
  LET e == wk[w].ev IN
  /\ wk[w].pc = "executing"
  /\ acked' = acked \cup {e}
  /\ completed' = Append(completed, e)
  /\ WorkerTo(w, "idle", NoEvent)
  /\ UNCHANGED <<dimVars, stream, leased, dropped, grants, hd, caller, nextRun,
                 faults>>

(* Mutant: a failed event is acknowledged, so it does not come back.       *)
ExecuteFailsAcc(w) ==
  LET e == wk[w].ev IN
  /\ wk[w].pc = "executing"
  /\ Spend("fail")
  /\ SetStatus(e.dim, e.part, "failed", 0)
  /\ dropped' = dropped \cup {e}
  /\ completed' = Append(completed, Empty)
  /\ WorkerTo(w, "idle", NoEvent)
  /\ UNCHANGED <<run, state, stream, leased, acked, grants, hd, caller, nextRun>>

(* Execute returns an error: the part is Failed and the event left to be   *)
(* delivered again.                                                        *)
ExecuteFails(w) ==
  LET e == wk[w].ev IN
  /\ wk[w].pc = "executing"
  /\ Spend("fail")
  /\ SetStatus(e.dim, e.part, "failed", 0)
  /\ WorkerTo(w, "idle", NoEvent)
  /\ UNCHANGED <<run, state, streamVars, hd, caller, nextRun>>

(* Execute panics: Read recovers and starts over, the part stays Started. *)
ExecutePanics(w) ==
  /\ wk[w].pc = "executing"
  /\ Spend("panic")
  /\ WorkerTo(w, "idle", NoEvent)
  /\ UNCHANGED <<dimVars, streamVars, hd, caller, nextRun>>

-----------------------------------------------------------------------------
(* The goroutine of New that consumes c.Completed().                       *)

(* A completion is for the handler when it names a known dimension and     *)
(* that dimension's current run.                                           *)
IsCurrent(e) == /\ e # Empty
                /\ run[e.dim] # 0
                /\ run[e.dim] = e.run

HandleSkip ==
  /\ hd.pc = "idle"
  /\ completed # <<>>
  /\ ~IsCurrent(Head(completed))
  /\ completed' = Tail(completed)
  /\ UNCHANGED <<dimVars, stream, leased, acked, dropped, grants, wk, hd,
                 caller, nextRun, faults>>

HandleTake ==
  /\ hd.pc = "idle"
  /\ completed # <<>>
  /\ IsCurrent(Head(completed))
  /\ completed' = Tail(completed)
  /\ hd' = [HandlerIdle EXCEPT !.pc = "set", !.ev = Head(completed)]
  /\ UNCHANGED <<dimVars, stream, leased, acked, dropped, grants, wk, caller,
                 nextRun, faults>>

HandleSetFinished ==
  /\ hd.pc = "set"
  /\ SetStatus(hd.ev.dim, hd.ev.part, "finished", hd.ev.run)
  /\ hd' = [hd EXCEPT !.pc = "next", !.todo = Links[hd.ev.part]]
  /\ UNCHANGED <<run, state, streamVars, wk, caller, nextRun, faults>>

(* Mutants: the run of the data is not compared, one Finished part is      *)
(* enough, or the statuses are not looked at.                              *)
PrevFinishedAnyRun(n) ==
  \A q \in Prev(n) : parts[hd.ev.dim][q].st = "finished"

OnePrevFinished(n) ==
  \E q \in Prev(n) : /\ parts[hd.ev.dim][q].st = "finished"
                     /\ parts[hd.ev.dim][q].run = hd.ev.run

PrevKnown(n) == \A q \in Prev(n) : parts[hd.ev.dim][q].st # "absent"

(* Part n may be written when every part before it is Finished with data   *)
(* of the completion's run.                                                *)
PrevFinished(n) ==
  \A q \in Prev(n) : /\ parts[hd.ev.dim][q].st = "finished"
                     /\ parts[hd.ev.dim][q].run = hd.ev.run

(* The reads of all parts before n are one step: only the handler makes a  *)
(* part Finished, so if all reads succeed they did when the first was made.*)
HandleNotReady(n) ==
  /\ hd.pc = "next"
  /\ n \in hd.todo
  /\ ~PrevFinished(n)
  /\ hd' = [hd EXCEPT !.todo = @ \ {n}]
  /\ UNCHANGED <<dimVars, streamVars, wk, caller, nextRun, faults>>

HandleReady(n) ==
  /\ hd.pc = "next"
  /\ n \in hd.todo
  /\ PrevFinished(n)
  /\ hd' = [hd EXCEPT !.pc = "request", !.todo = @ \ {n}, !.part = n,
                      !.ins = {parts[hd.ev.dim][q].run : q \in Prev(n)}]
  /\ UNCHANGED <<dimVars, streamVars, wk, caller, nextRun, faults>>

NextTask == <<hd.ev.run, hd.part>>

NextEvent ==
  [dim |-> hd.ev.dim, run |-> hd.ev.run, part |-> hd.part,
   copy |-> grants[NextTask] + 1, ins |-> hd.ins]

(* cons.Request(np_run): only one request for an id is granted, until its  *)
(* lease runs out.                                                         *)
Granted == grants[NextTask] < MaxGrants

(* The id is granted and the event is written. *)
HandleIssue ==
  /\ hd.pc = "request"
  /\ Granted
  /\ grants' = [grants EXCEPT ![NextTask] = @ + 1]
  /\ stream' = stream \cup {NextEvent}
  /\ hd' = [hd EXCEPT !.pc = "next"]
  /\ UNCHANGED <<dimVars, leased, acked, dropped, completed, wk, caller,
                 nextRun, faults>>

(* Somebody holds the id: the part is passed over. *)
HandleRefused ==
  /\ hd.pc = "request"
  /\ \/ grants[NextTask] > 0 /\ UNCHANGED faults
     \/ grants[NextTask] = 0 /\ Spend("refuse")
  /\ hd' = [hd EXCEPT !.pc = "next"]
  /\ UNCHANGED <<dimVars, streamVars, wk, caller, nextRun>>

(* The id is granted but the write fails: the part is passed over. *)
HandleWriteFails ==
  /\ hd.pc = "request"
  /\ Granted
  /\ Spend("werr")
  /\ grants' = [grants EXCEPT ![NextTask] = @ + 1]
  /\ hd' = [hd EXCEPT !.pc = "next"]
  /\ UNCHANGED <<dimVars, stream, leased, acked, dropped, completed, wk,
                 caller, nextRun>>

HandleDone ==
  /\ hd.pc = "next"
  /\ hd.todo = {}
  /\ hd' = HandlerIdle
  /\ UNCHANGED <<dimVars, streamVars, wk, caller, nextRun, faults>>

-----------------------------------------------------------------------------
(* The process stops and starts again: the stream remains, the dimensions  *)
(* map and everything in flight are gone.                                  *)
Crash ==
  /\ Spend("crash")
  /\ run' = [d \in Dim |-> 0]
  /\ state' = [d \in Dim |-> "absent"]
  /\ parts' = [d \in Dim |-> [p \in Part |-> [st |-> "absent", run |-> 0]]]
  /\ leased' = {}
  /\ completed' = <<>>
  /\ wk' = [w \in Worker |-> [pc |-> "idle", ev |-> NoEvent]]
  /\ hd' = HandlerIdle
  /\ caller' = [c \in Caller |-> [pc |-> "idle", dim |-> "none", run |-> 0]]
  /\ UNCHANGED <<stream, acked, dropped, grants, nextRun>>

NewStep(c) == NewReset(c) \/ NewWrite(c)

WorkerStep(w) ==
  \/ ReadUnknown(w) \/ ReadStale(w) \/ ReadCurrent(w)
  \/ SetStarted(w) \/ ExecuteOk(w)

HandlerStep ==
  \/ HandleSkip \/ HandleTake \/ HandleSetFinished
  \/ \E n \in Part : HandleNotReady(n) \/ HandleReady(n)
  \/ HandleIssue \/ HandleRefused \/ HandleDone

Next ==
  \/ \E c \in Caller, d \in Dim : NewSwap(c, d)
  \/ \E c \in Caller : NewStep(c) \/ NewWriteFails(c)
  \/ \E w \in Worker, e \in stream : Deliver(w, e)
  \/ \E e \in stream : Timeout(e) \/ TimeoutEarly(e)
  \/ \E w \in Worker : WorkerStep(w) \/ ExecuteFails(w) \/ ExecutePanics(w)
  \/ HandlerStep \/ HandleWriteFails
  \/ Crash

Spec == Init /\ [][Next]_vars

(* Goroutines keep running, Execute comes back, and the consumer delivers  *)
(* what is pending, again after its timeout.  No fairness on the faults    *)
(* and none on new calls.                                                  *)
Fairness ==
  /\ \A c \in Caller : WF_vars(NewStep(c))
  /\ \A w \in Worker : WF_vars(WorkerStep(w))
  /\ WF_vars(\E w \in Worker, e \in stream : Deliver(w, e))
  /\ WF_vars(\E e \in stream : Timeout(e))
  /\ WF_vars(HandlerStep)

FairSpec == Spec /\ Fairness

-----------------------------------------------------------------------------

TypeOK ==
  /\ run \in [Dim -> Run \cup {0}]
  /\ state \in [Dim -> {"absent", "started", "restarted"}]
  /\ parts \in [Dim -> [Part -> [st : Status, run : Run \cup {0}]]]
  /\ stream \in SUBSET Event
  /\ leased \in SUBSET stream
  /\ acked \in SUBSET stream
  /\ dropped \in SUBSET stream
  /\ completed \in Seq(Event \cup {Empty})
  /\ grants \in [Task -> 0 .. MaxGrants]
  /\ wk \in [Worker -> [pc : {"idle", "got", "checked", "executing"},
                         ev : Event \cup {NoEvent}]]
  /\ hd \in [pc : {"idle", "set", "next", "request"},
             ev : Event \cup {NoEvent}, todo : SUBSET Part, part : Part,
             ins : SUBSET (Run \cup {0})]
  /\ caller \in [Caller -> [pc : {"idle", "reset", "write"},
                             dim : Dim \cup {"none"}, run : Run \cup {0}]]
  /\ nextRun \in 1 .. MaxRuns + 1
  /\ faults \in [FaultKind -> Nat]

(* A restart in the middle of a run never mixes the two: all inputs of a   *)
(* task were produced by the run the task belongs to.  Without it a node   *)
(* could be created in the security group of a superseded configuration.   *)
InputsOfOneRun == \A e \in stream : e.ins \subseteq {e.run}

(* The status map never claims more than happened: a part shown Finished   *)
(* was acknowledged in the run whose data the map keeps for it, whatever   *)
(* late workers, restarts and redeliveries wrote over it in between.       *)
StatusSound ==
  \A d \in Dim, p \in Part :
    parts[d][p].st = "finished" => <<parts[d][p].run, p>> \in Done

(* The reader implements StoryRun: a part is written only when every part  *)
(* before it is done in its run, in spite of restarts, crashes, duplicate  *)
(* deliveries and lost writes.                                             *)
Story == INSTANCE StoryRun WITH issued <- Issued, done <- Done
ImplementsStory == Story!Spec

(* Every run that is not superseded gets to the end of its story.          *)
CurrentRunFinishes ==
  \A d \in Dim, r \in Run :
    (run[d] = r) ~> (run[d] # r \/ \A p \in Part : <<r, p>> \in Done)

(* About to hide that the current run has finished a part: a worker that   *)
(* is still at the part, or a call of New that was overtaken and has yet   *)
(* to reset the statuses.                                                  *)
FinishedNow(d, p) ==
  run[d] # 0 /\ parts[d][p] = [st |-> "finished", run |-> run[d]]

Shadowing ==
  \/ \E w \in Worker : /\ wk[w].pc \in {"checked", "executing"}
                       /\ FinishedNow(wk[w].ev.dim, wk[w].ev.part)
  \/ \E c \in Caller : /\ caller[c].pc = "reset"
                       /\ \E p \in Part : FinishedNow(caller[c].dim, p)

(* That is all that keeps a run from its end while no write is lost:       *)
(* tasks that fail, panic, outlive their timeout or belong to a superseded *)
(* run do not.                                                             *)
FinishesUnlessShadowed == []~Shadowing => CurrentRunFinishes

(* A superseded run ends, also when its tasks keep failing: the queue gets *)
(* rid of its events and none come back.                                   *)
SupersededRunEnds ==
  \A d \in Dim, r \in Run :
    (run[d] > r) ~> [](\A e \in Pending : ~(e.dim = d /\ e.run = r))

-----------------------------------------------------------------------------
(* The inductive invariant behind TypeOK, InputsOfOneRun, StatusSound and  *)
(* ImplementsStory: where each event a goroutine holds comes from, and     *)
(* that the runs New() is about to start are fresh.                        *)

WorkersHoldEvents == \A w \in Worker : wk[w].pc # "idle" => wk[w].ev \in stream

CompletionsAcked ==
  \A i \in 1 .. Len(completed) : completed[i] = Empty \/ completed[i] \in acked

HandlerSound ==
  /\ hd.pc # "idle" => hd.ev \in acked
  /\ Start \notin hd.todo
  /\ hd.pc = "request" =>
       /\ hd.part # Start
       /\ hd.ins \subseteq {hd.ev.run}
       /\ \A q \in Prev(hd.part) : <<hd.ev.run, q>> \in Done

RunsFresh ==
  /\ \A e \in stream : e.run < nextRun
  /\ \A c \in Caller : caller[c].pc # "idle" =>
       /\ caller[c].dim \in Dim
       /\ caller[c].run \in Run
       /\ caller[c].run < nextRun
       /\ \A e \in stream : e.run # caller[c].run
  /\ \A c1, c2 \in Caller :
       caller[c1].pc # "idle" /\ caller[c2].pc # "idle"
         /\ caller[c1].run = caller[c2].run => c1 = c2

IInv ==
  /\ TypeOK
  /\ WorkersHoldEvents
  /\ CompletionsAcked
  /\ HandlerSound
  /\ RunsFresh
  /\ StatusSound
  /\ InputsOfOneRun
=============================================================================
