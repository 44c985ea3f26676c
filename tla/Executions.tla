----------------------------- MODULE Executions -----------------------------
(***************************************************************************)
(* The parts of a deployment as the workers execute them.                  *)
(*                                                                         *)
(* Every cluster is a dimension of the repeatable story reader.  What      *)
(* Repeatable shows of it is taken up here: a part of the current run is   *)
(* executed when the parts it requires are done in that run, at least once *)
(* and by several workers at the same time; a worker that is busy when a   *)
(* new run replaces the old one goes on.  A worker executes one statement  *)
(* at a time, its calls of the AWS API being the statements others see.    *)
(***************************************************************************)
EXTENDS Naturals, Sequences, FiniteSets

CONSTANTS
  Workers,       \* the goroutines that execute parts, on any machine
  Clusters,      \* the clusters of one system
  Slices,        \* [done, parts, runs, configs, zones]: the parts done before and
                 \* those executed, how often each cluster is provisioned, what it
                 \* is configured to be, the number of availability zones
  MaxExecutions, \* executions of a part in one run
  MaxFaults      \* workers stopped, calls whose failure is ignored

VARIABLES
  slice,    \* the slice of the deployment looked at
  runs,     \* of each cluster: the configurations of its runs
  results,  \* of each cluster and part: what the current run's executions returned
  exec,     \* what each worker is doing
  executed, \* executions of each part in the current run
  faults

engine == <<slice, runs, executed, faults>>

(* The parts and, of each, those whose adapters it requires. *)
Needs ==
  [vpc |-> {}, key |-> {}, cert |-> {},
   sn |-> {"vpc"}, ig |-> {"vpc"}, lbsg |-> {"vpc"}, tg |-> {"vpc"}, sg |-> {"vpc"},
   lb |-> {"sn", "lbsg"}, listener |-> {"cert", "lb"}, rule |-> {"listener", "tg"},
   node |-> {"sn", "key", "sg"}, cleanup |-> {"node"}, target |-> {"node", "tg"}]

Parts == DOMAIN Needs

(* A result is the tuple of the resources returned.  The parts done before *)
(* have each returned the first resource of its kind.                      *)
Before == [p \in Parts |-> IF p \in slice.done THEN {<<1>>} ELSE {}]

Idle == [at |-> "idle"]

At(w, p, at) == exec[w].at = at /\ exec[w].part = p

Config(w) == runs[exec[w].cluster][exec[w].run]
Arg(w, p) == exec[w].args[p][1]

-----------------------------------------------------------------------------
(* Provision starts a run of a cluster: the states of its parts are reset. *)
Provision(c) ==
  /\ Len(runs[c]) < slice.runs[c]
  /\ \E g \in slice.configs : runs' = [runs EXCEPT ![c] = Append(@, g)]
  /\ results' = [results EXCEPT ![c] = Before]
  /\ executed' = [executed EXCEPT ![c] = [p \in Parts |-> 0]]
  /\ UNCHANGED <<slice, exec, faults>>

(* A worker begins to execute a part.  Its arguments are results of the    *)
(* required parts, of any of their executions.                             *)
Begin(w, c, p) ==
  /\ exec[w] = Idle
  /\ runs[c] # <<>>
  /\ p \in slice.parts
  /\ executed[c][p] < MaxExecutions
  /\ \E args \in [Needs[p] -> UNION {results[c][q] : q \in Needs[p]}] :
       /\ \A q \in Needs[p] : args[q] \in results[c][q]
       /\ exec' = [exec EXCEPT ![w] =
                     [at |-> "start", part |-> p, cluster |-> c,
                      run |-> Len(runs[c]), args |-> args, got |-> <<>>]]
  /\ executed' = [executed EXCEPT ![c][p] = @ + 1]
  /\ UNCHANGED <<slice, runs, results, faults>>

(* A call fails, its answer is lost, or the process stops. *)
Stop(w) ==
  /\ exec[w] # Idle
  /\ faults < MaxFaults
  /\ faults' = faults + 1
  /\ exec' = [exec EXCEPT ![w] = Idle]
  /\ UNCHANGED <<slice, runs, results, executed>>

-----------------------------------------------------------------------------
(* How a step of a worker ends.                                            *)

Go(w, at, got) ==
  /\ exec' = [exec EXCEPT ![w] = [@ EXCEPT !.at = at, !.got = got]]
  /\ UNCHANGED results

(* AWS refuses the call, the adapter returns the error. *)
Refused(w) ==
  /\ exec' = [exec EXCEPT ![w] = Idle]
  /\ UNCHANGED results

(* The results of a run that was replaced are not used any more. *)
Finish(w, ids) ==
  LET e == exec[w]
  IN  /\ exec' = [exec EXCEPT ![w] = Idle]
      /\ results' = IF e.run = Len(runs[e.cluster])
                    THEN [results EXCEPT ![e.cluster][e.part] = @ \cup {ids}]
                    ELSE results

Result(c, p) == {r[1] : r \in results[c][p]}

InitEngine ==
  /\ slice \in Slices
  /\ runs = [c \in Clusters |-> <<>>]
  /\ results = [c \in Clusters |-> Before]
  /\ exec = [w \in Workers |-> Idle]
  /\ executed = [c \in Clusters |-> [p \in Parts |-> 0]]
  /\ faults = 0
=============================================================================
