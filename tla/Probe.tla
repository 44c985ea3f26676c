------------------------------- MODULE Probe -------------------------------
(***************************************************************************)
(* The agent on every node (probe/main.go): a state machine over an        *)
(* on-disk stream (probe/statemachine/sm.go) that walks through the tasks  *)
(* of the configurations the server sends it (probe/actions/next.go).      *)
(*                                                                         *)
(* An event holds a state and the configuration that is left to do.  Run   *)
(* takes one event after the other, calls the function of its state, hands *)
(* the state that follows to the stream and acknowledges the event; what   *)
(* is not acknowledged is delivered again when the process starts again.   *)
(*                                                                         *)
(* External: the stream and its consumer (Store, StoreFails and the order  *)
(* of delivery).  A task is its type and its identity; whether it succeeds *)
(* on the host is a choice.  Service names are not empty.                  *)
(***************************************************************************)
EXTENDS Naturals, FiniteSets, SequencesExt

CONSTANTS
  Task,         \* the tasks, each with its type
  Config,       \* configurations the server may send
  Registered,   \* states that have a function, main.go:72-80
  MaxStarts,    \* bound on the configurations received
  MaxFaults     \* how often each fault may strike

FaultKind ==
  { "fail",     \* a task fails
    "werr",     \* a write to the stream returns an error
    "crash",    \* the process stops and starts again
    "lose" }    \* a crash finds accepted writes that are not stored

(* A task is its type and its identity: a configuration has it once.  Its  *)
(* owner i is the system, 0, or a service, its place <<i, j, k>> is the    *)
(* k-th of the j-th feature.                                               *)
FeaturesOf(c, i) == IF i = 0 THEN c.system ELSE c.services[i]

Places(c) ==
  UNION { UNION { {<<i, j, k>> : k \in DOMAIN FeaturesOf(c, i)[j]}
                  : j \in DOMAIN FeaturesOf(c, i)}
          : i \in 0 .. Len(c.services)}

TaskAt(c, p) == FeaturesOf(c, p[1])[p[2]][p[3]]

ASSUME ProbeAssumption ==
  /\ Config \subseteq [system : Seq(Seq(Task)), services : Seq(Seq(Seq(Task)))]
  /\ \A c \in Config : \A p, q \in Places(c) : TaskAt(c, p) = TaskAt(c, q) => p = q
  /\ MaxStarts \in Nat
  /\ MaxFaults \in [FaultKind -> Nat]

VARIABLES
  started,      \* the configurations received, in order
  connector,    \* the goroutine that receives them: "idle", or "waiting" in Start
  out,          \* writes the consumer accepted and has not stored
  log,          \* the stream: events [st, cfg]
  acked,        \* indices of acknowledged events
  inbox,        \* indices still to be delivered to this process, in order
  run,          \* Run: program counter, event index and the state that follows
  host,         \* history: [n, task] executed on the host
  faults

streamVars == <<out, log, acked, inbox>>
vars == <<started, connector, streamVars, run, host, faults>>

NoState == [st |-> "", cfg |-> [n |-> 0, system |-> <<>>, services |-> <<>>]]
RunIdle == [pc |-> "idle", i |-> 0, next |-> NoState]

Spend(k) == faults[k] > 0 /\ faults' = [faults EXCEPT ![k] = @ - 1]

-----------------------------------------------------------------------------
(* actions.Next: what is left of a configuration begins with a task.       *)

DropEmpty(s) ==
  LET I == {i \in DOMAIN s : s[i] # <<>>}
  IN  IF I = {} THEN <<>> ELSE SubSeq(s, Min(I), Len(s))

DropDone(services) ==
  LET I == {i \in DOMAIN services : DropEmpty(services[i]) # <<>>}
  IN  IF I = {} THEN <<>>
      ELSE [SubSeq(services, Min(I), Len(services)) EXCEPT ![1] = DropEmpty(@)]

(* Mutant: the features of the services come first.                        *)
TrimServicesFirst(cfg) ==
  IF DropDone(cfg.services) # <<>> /\ DropEmpty(cfg.system) # <<>>
  THEN [cfg EXCEPT !.system = DropDone(cfg.services)[1] \o DropEmpty(@),
                   !.services = Tail(DropDone(cfg.services))]
  ELSE [cfg EXCEPT !.system = DropEmpty(@), !.services = DropDone(@)]

(* Mutant: a service ends with its first empty feature.                    *)
TrimWholeService(cfg) ==
  [cfg EXCEPT !.system = DropEmpty(@),
              !.services = SelectSeq(@, LAMBDA s : s # <<>> /\ s[1] # <<>>)]

(* Empty features and services at the front go; the services are looked at *)
(* once the features of the system are done.                               *)
Trim(cfg) ==
  IF DropEmpty(cfg.system) # <<>>
  THEN [cfg EXCEPT !.system = DropEmpty(@)]
  ELSE [cfg EXCEPT !.system = <<>>, !.services = DropDone(@)]

HasTask(cfg) == cfg.system # <<>> \/ cfg.services # <<>>

HeadTask(cfg) ==
  IF cfg.system # <<>> THEN cfg.system[1][1] ELSE cfg.services[1][1][1]

NextState(cfg) ==
  LET c == Trim(cfg)
  IN  IF HasTask(c) THEN [st |-> HeadTask(c).type, cfg |-> c] ELSE NoState

(* actions.Execute removes the task it executed. *)
PopTask(cfg) ==
  IF cfg.system # <<>>
  THEN [cfg EXCEPT !.system[1] = Tail(@)]
  ELSE [cfg EXCEPT !.services[1][1] = Tail(@)]

-----------------------------------------------------------------------------

Init ==
  /\ started = <<>>
  /\ connector = "idle"
  /\ out = <<>> /\ log = <<>> /\ acked = {} /\ inbox = {}
  /\ run = RunIdle
  /\ host = <<>>
  /\ faults = MaxFaults

(* ActionHandler, Config: Start writes the start state and waits. *)
Start(c) ==
  /\ connector = "idle"
  /\ Len(started) < MaxStarts
  /\ started' = Append(started, c)
  /\ connector' = "waiting"
  /\ out' = Append(out, [st |-> "next",
                         cfg |-> [n |-> Len(started) + 1, system |-> c.system,
                                  services |-> c.services]])
  /\ UNCHANGED <<log, acked, inbox, run, host, faults>>

ConnectorAfter(e) == IF e.st = "next" THEN "idle" ELSE connector

(* The consumer stores a write, which makes it due for delivery ... *)
Store ==
  /\ out # <<>>
  /\ out' = Tail(out)
  /\ log' = Append(log, Head(out))
  /\ inbox' = inbox \cup {Len(log) + 1}
  /\ connector' = ConnectorAfter(Head(out))
  /\ UNCHANGED <<started, acked, run, host, faults>>

(* ... or fails to, which Start logs and Run does not look at. *)
StoreFails ==
  /\ out # <<>>
  /\ Spend("werr")
  /\ out' = Tail(out)
  /\ connector' = ConnectorAfter(Head(out))
  /\ UNCHANGED <<started, log, acked, inbox, run, host>>

RunTake ==
  /\ run.pc = "idle"
  /\ inbox # {}
  /\ run' = [RunIdle EXCEPT !.pc = "call", !.i = Min(inbox)]
  /\ inbox' = inbox \ {Min(inbox)}
  /\ UNCHANGED <<started, connector, out, log, acked, host, faults>>

(* No function has the name of the state: the event is left as it is. *)
RunNotFound ==
  /\ run.pc = "call"
  /\ log[run.i].st \notin Registered
  /\ run' = RunIdle
  /\ UNCHANGED <<started, connector, streamVars, host, faults>>

(* The function returned: an empty state ends the chain of events. *)
AfterCall(next) ==
  run' = [run EXCEPT !.pc = IF next.st = "" THEN "ack" ELSE "write",
                     !.next = next]

(* The state "next": the first task of a new configuration is looked up. *)
RunNext ==
  /\ run.pc = "call"
  /\ log[run.i].st = "next" /\ "next" \in Registered
  /\ AfterCall(NextState(log[run.i].cfg))
  /\ UNCHANGED <<started, connector, streamVars, host, faults>>

IsTask(e) ==
  /\ e.st \in Registered \ {"next"}
  /\ HasTask(e.cfg)
  /\ HeadTask(e.cfg).type = e.st

(* The state of a task: it is executed, removed, and the next one looked up. *)
RunTask ==
  LET e == log[run.i] IN
  /\ run.pc = "call"
  /\ IsTask(e)
  /\ host' = Append(host, [n |-> e.cfg.n, task |-> HeadTask(e.cfg)])
  /\ AfterCall(NextState(PopTask(e.cfg)))
  /\ UNCHANGED <<started, connector, streamVars, faults>>

(* Mutants: a failed task is written again, or acknowledged.               *)
RunTaskFailsRetry ==
  LET e == log[run.i] IN
  /\ run.pc = "call"
  /\ IsTask(e)
  /\ Spend("fail")
  /\ run' = [run EXCEPT !.pc = "write", !.next = e]
  /\ UNCHANGED <<started, connector, streamVars, host>>

RunTaskFailsAck ==
  LET e == log[run.i] IN
  /\ run.pc = "call"
  /\ IsTask(e)
  /\ Spend("fail")
  /\ run' = [run EXCEPT !.pc = "ack"]
  /\ UNCHANGED <<started, connector, streamVars, host>>

(* The task fails: the event stays unacknowledged and Run goes on with the *)
(* next one; this one waits for the next start of the process.             *)
RunTaskFails ==
  LET e == log[run.i] IN
  /\ run.pc = "call"
  /\ e.st \in Registered \ {"next"}
  /\ IsTask(e) => Spend("fail")
  /\ ~IsTask(e) => UNCHANGED faults
  /\ run' = RunIdle
  /\ UNCHANGED <<started, connector, streamVars, host>>

(* The next state is handed to the consumer; Run does not wait for Done. *)
RunWrite ==
  /\ run.pc = "write"
  /\ out' = Append(out, run.next)
  /\ run' = [run EXCEPT !.pc = "ack"]
  /\ UNCHANGED <<started, connector, log, acked, inbox, host, faults>>

(* Mutant: an event that has a next state is not acknowledged.             *)
RunAckLastOnly ==
  /\ run.pc = "ack"
  /\ acked' = IF run.next.st = "" THEN acked \cup {run.i} ELSE acked
  /\ run' = RunIdle
  /\ UNCHANGED <<started, connector, out, log, inbox, host, faults>>

RunAck ==
  /\ run.pc = "ack"
  /\ acked' = acked \cup {run.i}
  /\ run' = RunIdle
  /\ UNCHANGED <<started, connector, out, log, inbox, host, faults>>

Unacked == DOMAIN log \ acked

(* Mutant: the stream is read from its start whatever was acknowledged.    *)
CrashReadAll ==
  /\ faults["crash"] > 0
  /\ out # <<>> => faults["lose"] > 0
  /\ faults' = [faults EXCEPT !["crash"] = @ - 1,
                              !["lose"] = IF out = <<>> THEN @ ELSE @ - 1]
  /\ out' = <<>>
  /\ inbox' = DOMAIN log
  /\ run' = RunIdle
  /\ connector' = "idle"
  /\ UNCHANGED <<started, log, acked, host>>

(* The process stops, by a panic of a task, a signal or a reboot, and      *)
(* starts again: the stream delivers what is not acknowledged, in order.   *)
Crash ==
  /\ faults["crash"] > 0
  /\ out # <<>> => faults["lose"] > 0
  /\ faults' = [faults EXCEPT !["crash"] = @ - 1,
                              !["lose"] = IF out = <<>> THEN @ ELSE @ - 1]
  /\ out' = <<>>
  /\ inbox' = Unacked
  /\ run' = RunIdle
  /\ connector' = "idle"
  /\ UNCHANGED <<started, log, acked, host>>

RunStep ==
  \/ RunTake \/ RunNotFound \/ RunNext \/ RunTask \/ RunWrite \/ RunAck

Next ==
  \/ \E c \in Config : Start(c)
  \/ Store \/ StoreFails
  \/ RunStep \/ RunTaskFails
  \/ Crash

Spec == Init /\ [][Next]_vars

(* The goroutine Run keeps running, tasks come back, and the consumer      *)
(* stores what it accepted.  No configuration has to arrive, and nothing   *)
(* starts the process again.                                               *)
FairSpec == Spec /\ WF_vars(RunStep) /\ WF_vars(Store)

-----------------------------------------------------------------------------

(* The order the tasks of a configuration are meant to be executed in:     *)
(* those of the system's features, then those of each service.             *)
Before(p, q) ==
  \/ p[1] < q[1]
  \/ p[1] = q[1] /\ p[2] < q[2]
  \/ p[1] = q[1] /\ p[2] = q[2] /\ p[3] < q[3]

Executed(n) == {host[i].task : i \in {j \in DOMAIN host : host[j].n = n}}
Stored(n)   == \E i \in DOMAIN log : log[i].st = "next" /\ log[i].cfg.n = n
AllDone(n)  == n \in DOMAIN started /\ Executed(n) = {TaskAt(started[n], p) : p \in Places(started[n])}

(* An event of n that this process has given up, to be taken up again when *)
(* it starts again.                                                        *)
Stalled(n) ==
  \E i \in Unacked : /\ log[i].cfg.n = n
                     /\ i \notin inbox
                     /\ run.pc = "idle" \/ run.i # i

TypeOK ==
  /\ started \in Seq(Config) /\ Len(started) <= MaxStarts
  /\ connector \in {"idle", "waiting"}
  /\ acked \subseteq DOMAIN log
  /\ inbox \subseteq Unacked
  /\ run.pc \in {"idle", "call", "write", "ack"}
  /\ run.pc # "idle" => run.i \in Unacked
  /\ \A i \in DOMAIN log : log[i].cfg.n \in DOMAIN started
  /\ faults \in [FaultKind -> Nat]

(* Whatever fails, is lost or comes twice, a task is executed only after   *)
(* all tasks before it in its configuration: no user is needed before it   *)
(* is added, no service enabled before its files are there.                *)
NoTaskSkipped ==
  \A i \in DOMAIN host :
    LET n == host[i].n
        c == started[n]
    IN  \E p \in Places(c) :
          /\ TaskAt(c, p) = host[i].task
          /\ \A q \in Places(c) : Before(q, p) =>
               \E l \in 1 .. i - 1 : host[l] = [n |-> n, task |-> TaskAt(c, q)]

(* A crash between writing the next state and acknowledging the event      *)
(* starts a second chain of events for the same configuration; each crash  *)
(* adds one at most, so a task is executed once more per crash, not more.  *)
BoundedRepeats ==
  \A i \in DOMAIN host :
    Cardinality({j \in DOMAIN host : host[j] = host[i]})
      <= 1 + MaxFaults["crash"] - faults["crash"]

(* As long as the process does not stop, a configuration that is sent      *)
(* again is never behind its predecessor: the two walk through their tasks *)
(* one after the other and what stays on the host is the newer one's.      *)
NewestLast ==
  faults["crash"] = MaxFaults["crash"] =>
    \A i, j \in DOMAIN host :
      i < j /\ host[i].task = host[j].task => host[i].n <= host[j].n

(* A configuration that reached the stream is executed to its last task.   *)
Completes == \A n \in 1 .. MaxStarts : Stored(n) ~> AllDone(n)

NothingLost ==
  /\ faults["werr"] = MaxFaults["werr"]
  /\ faults["lose"] = MaxFaults["lose"]

(* With failing tasks and tasks nobody can execute: it is executed to its  *)
(* last task, or the event it stopped at is still there for the next start *)
(* of the process, unless an accepted write was lost.                      *)
CompletesOrStalls ==
  \A n \in 1 .. MaxStarts :
    Stored(n) ~> [](NothingLost => AllDone(n) \/ Stalled(n))
=============================================================================
