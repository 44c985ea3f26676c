# Verification of Nerthus

Nerthus provisions environments in AWS and configures the servers in them. This
directory holds TLA+ models of the parts of it in which several goroutines,
processes or machines have to agree, TLC configurations that check them on small
instances, and TLAPS proofs of the main results for all instances. Paths below are
relative to `src/`.

## The system

```
 git repository with CUE files
        |  GitCloneEnvironment, config.ParseSystem         (server, main.go, execute.go, config/)
        v
 Provision: one New(dimension, config) per cluster          (workers/deployment.go)
        v
 story reader: runs a graph of parts                        (fairytale/repeatable, story, adapter)
        |        ^ events: an at-least-once queue and a consensus (gober)
        v        |
 workers: one adapter per part, AWS API calls               (workers/*, cloud/aws/*)
        |  deploy part: a configuration per node
        v
 hostActions: one channel per node  <-- PUT /key            (main.go, workers/node/deploy)
        |  websocket /probe/:host
        v
 probe: the agent on the node                               (probe/main.go)
        |  a persistent state machine, one event per task   (probe/statemachine, probe/actions)
        v
 packages, users, files and services of the node
```

### Components, their state and operations

| component | state | operations | what is hard about it | what makes it correct |
|---|---|---|---|---|
| story builder `fairytale/story` | nodes and their links, a slice sorted in place | `Id`, `Adapter`, `LinkTo`, `End` (sort, search for cycles) | in-place exchanges the author doubts, links to nodes that are missing or unreachable | every reachable part once, start first, end last, cycles and missing nodes refused |
| adapters `fairytale/adapter` | none | `Execute`: data is matched to required adapters by type | the readers check stories by name | an accepted part gets the results it requires |
| repeatable reader `fairytale/repeatable` | dimensions map (run, state, status per part), event stream, leases, consensus ids | `New`, `Read` (100 goroutines), the goroutine of completed events, `State` | restarts while parts run, redelivery, lost leases, failed writes, restart of the process | dependency order, inputs of one run only, each part once, the current run ends |
| one-shot reader `fairytale/reader` | completions per ReadID, event stream, leases, consensus ids | `New`, `Read`, the goroutine of completed events | redelivery, lost writes, a memory that a restart empties | dependency order, a run ends unless something was lost |
| deployment `workers/deployment.go` | none | `New` (the story), `Provision` | one dimension per cluster, all in one AWS account | the story fits its adapters |
| workers, `cloud/aws` | the AWS account | get-or-create of each resource | executed at least once, by several clusters at the same time | no resource twice, a repeated part succeeds |
| host actions (`main.go`, `node/deploy`) | a channel of ten per host, keys on disk | deploy part, `PUT /key`, websocket handler | channels replaced, several handlers draining one, broken connections, blocked senders | what is sent arrives, once and in order; keys up to date |
| probe (`probe/`) | a stream of states, the host | `Start`, `Run`, `Next`, `Execute`, actions on the host | crashes between executing, writing and acknowledging | tasks in order, none skipped, all executed |
| environments (`main.go`, `execute.go`) | map of environments with timers, a directory per environment | `PUT /env`, `/config/:env`, timer, bootstrap, `ExecuteEnv` | timers and requests at the same time in one directory, calls that end the process | what was asked for is provisioned, no going back to an older revision |
| configuration `config/` | none between calls; lists, a cluster and a map that the recursion shares | `ParseSystem`, `featureToFeature`, `Props` | recursive requirements, slices and maps that are shared | features in dependency order, tasks complete, names and ports agree |
| actions on the host `probe/actions` | users, files, packages, services, buri and its link | `Command`, `Download`, `Link`, `FileString`, `Install`, `User`, `Enable` | executed again after a restart, broken off half way | what was done holds, the agent can be started again |
| node status (visuale), Slack, server list | in-memory lists | HTTP handlers, tickers | trimming, giving up, unlocked caches | the last report is kept, messages are sent |

`PROJECT.json` lists every component with what is modelled of it, and the hazards at
the lines where they bite. Left aside: `crypto`, `iam`, tags, metadata, images, the
command line programs, all of which pass data through a library.

## Modules

| module | models | role |
|---|---|---|
| `StoryGraph` | `story.Story` as the readers see it | parts, links, `Prev` |
| `StoryRun` | what any story engine promises | abstract specification: tasks `<<run, part>>` are issued when all predecessors are done in that run |
| `Repeatable` | `fairytale/repeatable/reader.go` | detailed specification, implements `StoryRun` |
| `Reader` | `fairytale/reader/reader.go` | detailed specification, implements `StoryRun` |
| `RepeatableProofs`, `ReaderProofs`, `StoriesProofs` (of `StoryBuilder` and `Wiring`), `ProvisioningProofs`, `HostActionsProofs`, `HostTasksProofs`, `EnvironmentsProofs`, `ProbeProofs` | | proofs |
| `StoryBuilder` | `story.End()` | the sorting algorithm, one step per link |
| `Wiring` | validation in `New` and `adapter.Execute` | checked by name against used by type |
| `Probe` | `probe/statemachine`, `probe/actions/next.go` | agent with crashes |
| `HostActions` | channels, keys, websocket, agent's receiving side | server and agents |
| `Features` | `config/parse.go`: `ParseSystem`, `featureToFeature`, `Props` | from a configuration to the tasks of its nodes |
| `HostTasks` | `probe/actions`: the tasks on a host | extends `Features`, whose tasks it executes |
| `Environments` | environments, timers, `/config`, `ExecuteEnv` | the server above the stories |
| `Executions` | how the reader executes the parts of a deployment | engine under the three below |
| `Network` | parts vpc, sn, ig, lbsg, key, sg; `cloud/aws/vpc`, `security`, `key` | get-or-create in EC2 |
| `Frontend` | parts cert, lb, listener, tg, rule; `acm`, `dns`, `loadbalancer` | what leads to the services |
| `Servers` | parts node, cleanup, target; `server` | the servers of a cluster |
| `Provisioning` | the workers over one AWS account | composes the four above |
| `Fairytale` | from the builder to a reader | composes `StoryBuilder` and `Wiring`: the story that `End` returns goes to `New` |
| other `MC...` | | instances for TLC |

### Repeatable

`run`, `state` and `parts` are the three shared objects of a dimension, `stream`,
`leased`, `acked`, `dropped` and `completed` the competing consumer, `grants` the
consensus, `wk`, `hd` and `caller` the program counters of the goroutines. Each
statement of `New`, `Read` and the completed goroutine that another goroutine can
see is an action: `NewSwap`, `NewReset`, `NewWrite` for `New`; `Deliver`, `ReadStale`,
`ReadCurrent`, `SetStarted`, `ExecuteOk`, `ExecuteFails`, `ExecutePanics` for `Read`;
`HandleTake`, `HandleSetFinished`, `HandleNotReady`, `HandleReady`, `HandleIssue`,
`HandleRefused`, `HandleWriteFails` for completions. `Crash` empties the memory and
keeps the stream. Abstractions: the loop that resets the statuses of the parts is one
step, as is the loop that reads the statuses of a part's predecessors; a payload is
the set of runs its inputs come from, enough to see inputs of two runs mixed; the
two `CompareAndSwap` calls store what is stored already (a dimension is three shared
references) and are left out; line 326 cannot be reached, `Execute` returns marshalled
data for every adapter whose type is not nil.

The end of a story is an ordinary part here and may succeed. `MCDeployment` shows that
with the end adapter the readers add it does not: the deployment's last part fails for
ever. The liveness run of `Repeatable` is about stories that bring their own end
adapter, as those of the tests do.

### Reader

`stream`, `leased`, `acked`, `seen` (how far the handler has got in `Completed()`) and
`grants` are the queue and the consensus, `comp` the handler's map by ReadID, `wk` and `hd`
the goroutines. A call of `New` touches nothing another goroutine can see before its
write, so it is one step, `New` or `NewFails`; so is a part that is executed and
acknowledged, `ExecuteOk`. The handler is `HandleTake` (note the part, begin its
successors), `HandleNotReady`, `HandleGranted`, `HandleRefused`, `HandleWrite`,
`HandleWriteFails`, `HandleDone`. `Crash` empties what is in memory; since the consumer is
in a library, what was completed before may then be completed again from the beginning
of the stream, or not: both happen in the model. The constructor checks a story word for
word as the repeatable reader's does, which is `Wiring`.

### StoryBuilder

The nodes in their order of definition and their outgoing lists are the input, the
slice `nodes`, the counters `i` and `cur` and the links of the current node not looked
at yet the state. `LinkSkip`, `LinkSwap`, `LinkMissing` and `LinkNew` are the branches of
the inner loop, `NextNode` the outer one; `Walk` is `validateAsyclic`, a recursion without
side effects. A list of links is a set, so every order is checked.

### Wiring

A story with its adapters is the input. `New` accepts or rejects (the two kinds of
errors are not told apart), `Execute(p)` matches the data of the parts before `p`, in
the order of their definition, to the required adapters by type. JSON is left out: a
datum has the type of the adapter that produced it, so decoding does not fail.
`Sound` is what `New` does not check and a story needs to run; `AcceptedRuns` says that
it is enough, also when adapters share a type, `RightArguments` that different types
put the arguments in their places. Without the latter two arguments of one type may
be exchanged silently; `MCDeployment` shows that the deployment, which has two adapters
of type `security.Group` and three of type `[]string`, never gets there.

### Probe

`log` is the stream, `acked` what was acknowledged, `inbox` the events the consumer will
still deliver to this process, the oldest first, `out` the writes its channel accepted and has not stored.
`RunTake`, `RunNext`, `RunTask`, `RunTaskFails`, `RunNotFound`, `RunWrite` and `RunAck` are
the steps of `Run`, `Start` and `ConnectorAfter` the receiving goroutine. A configuration
keeps its nesting of services, features and tasks, so that a task has a place
`<<owner, feature, task>>`; a task is its type and an identity of its own, by which the
history tells two tasks of a configuration apart. The code does
not order the storing of a write and the acknowledgement, so both orders are allowed.
`host` is a history of what was executed.

### HostActions

`hostActions` maps a host to its channel, `buf` holds the channels ever made (a handler
may keep one that was replaced), `conn` the websocket handlers with one step per
read of shared state, `wire` what is on its way. A configuration bears its number and
the channel it was sent to as history. `PutKey`, `PutRead`, `PutSend` are the
steps of `PUT /key`, `DeployGet` and `DeploySend` those of the deploy part. The
responses of the agents, which the server logs, and playbooks, which are no longer
sent, are left out.

### Features and HostTasks

`featureToFeature` calls itself with one list and a pointer to one cluster, and reads a map
all calls share. A call is a frame of `stack`; `feats`, `cluster` and `features` are the
shared data. `Visit`, `Missing`, `Required`, `TaskPlain`, `TaskManager`, `ManagerAdded`,
`FeatureDone` and `Return` are its steps, `BeginCluster` to `EndSystem` those of
`ParseSystem`. A feature for a service ("service x") is a pair of names, the text of a task
is reduced to the service it names, a line of properties to a key, whose prefixes are
told apart, and a value. That the words of a command are rewritten in the shared map
(`Rewritten`, `parse.go:433`) is kept. `MaxDepth` bounds the stack: one call more is an
overflow.

`HostTasks` takes what `Features` has built to a host. `Why(k)` says what a task lacks to
succeed on the host as it is, `After` what it leaves; a file that is written is "partial"
from the moment it is opened. `BeginAgain`, `Crash`, `Fail`, `Page` (a download answered with
something else) and `Update` (buri replaces itself) are the faults. That tasks follow each
other, and which may come again, is what `Probe` shows of the state machine. buri and the
host's commands are external, known from the user data of the servers
(`cloud/aws/server`) and the features of the catalogue (`config/schema/features`).

### Environments

`events` is what the map of environments has on disk, `latest` and `older` the timers: the one
the map's value refers to and those nothing refers to any more. `act` are the handlers and
timer functions under way (with the directories each has listed and the ones it has still
`todo`), `dir` what is checked out. `PutEnv`, `Config` and `TimerFires` begin
an execution, `Clone`, `CloneFails` and `Reset` come before it, `Find`, `Parse`, `ParsePanics`,
`Provision` and `Return` are `ExecuteEnv`. A clone, or a listing of the directory, is one step:
two git commands in one directory at the same moment are not split. `Down` ends all
executions of the process, `Boot` reads the map again.

### Provisioning

`Executions` takes up what `Repeatable` shows of the engine: a part of the current run
is executed once the parts it requires are done, at least once, by several workers
at the same time; a worker that is at a run that was replaced goes on, its result is
not used. `exec[w]` is the program counter of a worker: the part, its arguments
(any results of the required parts), and `got`, its local variables. `Stop` is a
failing call or the end of a process, between any two statements.

In `Network`, `Frontend` and `Servers` each call of AWS is an action of its own, as
`VpcLook`, `VpcCreate`, `VpcModify`, `VpcRead` for `NewVPC`. Names are left out: the
clusters of a system look for the same VPC, subnets, gateway, loadbalancers' group
and certificate, a cluster has its own keys, groups, loadbalancer, listeners, rules,
target groups and servers. What AWS refuses is external: a second gateway for a
VPC, a block that overlaps, a second route to a destination, a permission or a name that
is taken, a priority in use, a listener without an issued certificate, a target that does
not run. Errors the code passes over are passed over (`TargetGroupUpdateFails`).

What the models bring to light and the properties therefore do not claim:

* Two executions that look for a VPC, or a certificate, at the same time make two
  (`NoSurplus` bounds them by the executions at once).
* Path rules are made from a rule that is not filled in yet (`rule.go:66`), so all have the
  same condition; each execution of the rule part adds another rule per service; of several
  services behind a frontend the last is the default. `rules` therefore has only the
  service.
* A certificate AWS gave up on is never replaced, and its record is refused when it is
  created again, so the part fails for ever. `CompleteUnlessStopped` speaks of certificates
  while there is one: with two, the one that is returned need not be the one waited for.
* A cleanup of a superseded run terminates the servers of the size the current run wants
  while the cleanup of the current run terminates the others: `OneSize` in
  `StaysServed`; without it TLC finds a node without servers.
* The path of a target group is set by whichever run comes last: `OnePath`.

## Runs

Deadlock is not checked: every program here stops when nothing is left to do or a
bound is used up.

### Repeatable

The story of `repeatable_restart` and `repeatable_shadowed` is a diamond (start, two
parts, an end that waits for both), the smallest in which two parts run at once and a
part has two predecessors and another two successors. `repeatable_live` has a shorter
one, an end that waits for the start and for one part, which leaves room for two
callers.

| run | instance | shows |
|---|---|---|
| `repeatable_restart` | diamond, 2 workers, 2 runs, one each of a timeout during execution, a crash, a failed write | type invariant, no mixed inputs, honest statuses, dependency order (`ImplementsStory`) |
| `repeatable_live` | 2 callers, 2 workers, 2 runs, a failure and a panic | the current run ends unless something is about to overwrite one of its Finished statuses; events of a superseded run leave the queue |
| `repeatable_shadowed` | diamond, 2 workers, 2 runs, 1 failure | **violated**: a worker of the old run overwrites a status of the new one, which never ends |

Two workers suffice to have one busy with a superseded run while another works on
the current one; two runs to have a superseded one; two callers to overtake each
other. A fault of each kind is what a single scenario needs; the proofs below cover
all bounds for the safety part, and an id that nobody holds and the
consensus refuses all the same, which stops a part as a failed write does and is in none of
the runs. Workers, and the two parts in the middle of the diamond,
are interchangeable (symmetry).

`Shadowing` in `FinishesUnlessShadowed` names the only two ways in which a run is kept
from its end while no write is lost: a worker that is still at a part the current
run has finished (what `repeatable_shadowed` exhibits), and a call of `New` between its
swap and its reset after another call has swapped again and that run has finished
parts.

### Reader

| run | instance | shows |
|---|---|---|
| `reader` | start, a and an end that waits for both, 2 workers, 2 runs, any number of failures, one each of a timeout during execution, a failed write, a crash | dependency order (`ImplementsStory`); a run ends unless a part was refused or not written, or the process stopped (`RunsFinish`) |

An id that nobody holds is not refused here either. The end is the first successor of the start and not ready when the start is completed:
the handler has to pass it over, go on with a, and come back to it.

### Stories and the deployment

| run | instance | shows |
|---|---|---|
| `stories` | all graphs of the start and small sets of nodes, also with links to the end, to an undefined node or back to the start, built and handed to `New`; two parts and two adapters in every way of linking them, lists of up to two required adapters, types shared by adapters and start or not; the 18 parts of `deployment.go` | right result and complete story; what `New` accepts runs, gets the right arguments and each result once; the deployment is accepted and every part but the end gets its arguments |
| `deployment_end` | the deployment | **violated**: the end is refused its arguments |

Three inner nodes are enough for a node to be exchanged twice and for a cycle that
does not contain a node of the first level. `ResultRight` and `StoryComplete` exclude
links back to the start: there the exchange moves the start away from the first place,
where the search for cycles begins, so that `Start -> a, b; b -> Start, a` is returned
as a story. No story of the repository has such a link.

### Probe (a cluster with empty features and services around three tasks)

| run | instance | shows |
|---|---|---|
| `probe_faults` | 2 configurations, each with or without a task of a type that is not registered, one fault of each kind | order kept, no task skipped, repeats bounded by crashes, the newer configuration ahead while the process stays up, each one completed or waiting for the next start unless a write was lost |
| `probe_lost` | a crash that loses an accepted write | **violated**: the configuration ends in the middle |

One task in the system, two or three in services, with empty lists before, between
and after them, reach every branch of `Next` and `Execute`. A task with an empty type,
which the parser leaves behind for a package it does not know (`config/parse.go:497`,
`:287`), is in no configuration of the runs: the agent takes it for the end and drops
the rest.

### HostActions (channels of one action instead of ten)

| run | instance | shows |
|---|---|---|
| `hostactions_faults` | 1 host, 2 handlers, 2 configurations, a key, one each of a broken connection, a failing write, a restart, a failing disk | nothing reordered or doubled; a key arrives, and comes back on the next connection when the disk lost it; senders return unless their channel was replaced |

With one place a second send finds the channel full; a bigger channel only takes
longer. What the properties leave out, because the code does not give it:

* With two deploy parts sending to one host at the same time configurations can change
  places through a channel that was replaced (`Get` and `Set` are two steps in the
  websocket handler, `GetOrInit` one in the deploy part). `NotReordered` (`Ahead`) allows
  this one exchange and no other; the run has one deploy part, with which there is none,
  and the proof covers any number.
* `SendersReturn` excludes senders to a replaced channel, which nobody drains: the handler
  of a first connection that broke can set its channel over the one that the next
  connection's handler serves.
* `PutReaches` speaks of keys put one after the other, as its single handler of
  `PUT /key` does. Two handlers at once may send the older list last (`main.go:358`). And
  it speaks of a node that is served: one that connects for the first time misses a key
  put between the read of the keys (`main.go:403`) and the `Set` (`:426`).

### Configuration and hosts

| run | instance | shows |
|---|---|---|
| `config_all` | three features that require each other in every way, install by managers that require features in turn and are the system's or a service's own, for two services; configurations with names that are wrong; properties and ports at their boundaries; hosts of the repository's catalogue, cut down, with one or two services and clusters and one fault of each kind | features once (but where the managers of what they install bring them in again) and after what they require, nothing lost, packages installable in their turn, one port everywhere, errors and panics only for their reasons; what was done on a host holds, failures only for the reasons listed, buri lost only in the ways listed |

One of the configurations has a feature that comes twice: whether it is there already is
looked up before its own tasks are made (484), and the manager of a package one of them
installs requires it again. Three features are enough for a circle that does not go through the first, and two
services for a feature that the first has collected. What the properties leave out,
because the code does not give it, stands with them: the commands that name the
first service (433), a feature of a service that goes to the first that asked (478) and
is lost with it (189), a manager looked no further for (595) and without its right to be
root (605), a monitor that asks the port of before (182).

### Environments

| run | instance | shows |
|---|---|---|
| `server` | 2 environments, 2 revisions, 1 request, a failing clone, a stop | no going back unless two executions share a directory; the process ends only when stopped, when a request cannot clone or when a system vanished under an execution; what was asked for is provisioned |

The revisions differ in a system that is gone, one that is new and a directory that
is none. A third revision, and two requests for one environment, show nothing else; they
take too long for a run of every day.

### Provisioning

| run | instance | shows |
|---|---|---|
| `provisioning_all` | 11 slices of the deployment, 2 workers, 2 executions of a part per run, 1 fault, VPCs of 2 blocks, 1 node per cluster | what a part reported is there and stays, repeats make nothing twice, routes lead to attached gateways, two-step resources are complete unless stopped, a node that is served stays served |

Clusters and workers are interchangeable (symmetry). A slice names the parts that were done before and those that are executed, with either
one run of two clusters (what clusters share) or two runs of one (what only runs share).
The parts of different slices touch different resources, or the ones made by a part
that is in both; the whole deployment at once has too many states. Two workers show
every race of one look and one creation, a second execution every repetition; three zones
in a VPC of two blocks stand for five in one of four. The runs of a cluster
may differ in services, health path, size and in having a frontend. The account is empty
but for what the parts done before have made, target groups with any path, permissions of
the loadbalancers' group (none, some, all, one nobody expects) and a server of either size.

## Fairness

Weak fairness of goroutines: one that can take a step takes one in the end, which the
Go scheduler provides. In `Repeatable` also of delivery and timeout of events (a
competing consumer redelivers what is not acknowledged; the implementation is in
gober) and of `Read`'s choice to end a call of `Execute`. In `Probe` of storing accepted
writes. In `Reader` a part that is executed again and again succeeds in the end (strong
fairness of `ExecuteOk`): its failures are not counted. In `Environments` of timers, which fire, and of
the server being started again. In `HostActions` of agents connecting (`KeepRunning` tries for ever) and of
the transport. None of new calls, configurations or keys, and none of faults: each is
bounded by `MaxFaults`, so that in the end there are no more of them.

## Proofs

`RepeatableProofs` proves, for every story, any number of dimensions, workers,
callers and runs and every bound on faults and grants:

* `Invariance`: `IInv` is an invariant. `TypeOK` and the properties alone are not
  inductive: that a worker's inputs are of one run follows from where the event it
  holds came from (`WorkersHoldEvents`: the stream), that a completion is true from
  where the handler got it (`CompletionsAcked`), that the successor being written has
  all its inputs from the run of the completion from what the handler read before
  (`HandlerSound`), and that a status of a run is not mistaken for one of another from
  the freshness of run ids (`RunsFresh`). There is one lemma per group of actions.
* `TypeCorrect`, `NoMixedInputs` and `StatusNeverLies` follow from it.
* `Implementation`: `Repeatable` implements `StoryRun`. `NewWrite` begins a run,
  `HandleIssue` issues a part, `ExecuteOk` finishes one; all other steps stutter.
* `DependenciesFirst`: no part is written before its predecessors were done.

`ReaderProofs` proves the same of the one-shot reader: `Invariance` of its `IInv` (the
handler remembers, and is about to write, only what was done: `CompSound`,
`HandlerSound`; a ReadID is fresh: `RunsFresh`) and `Implementation`. `New` begins a run,
`HandleWrite` issues a part, `ExecuteOk` finishes one; a crash, replayed completions and
ids granted more than once stutter. Its `DependenciesFirst` is proved of the abstract
specification, hence holds of every engine that implements it.

`ProvisioningProofs` proves `RoutesLeadOut`: `RoutesAttached` holds for any number of
workers, clusters, executions and faults and whatever the slice. A route is made with
what a worker read or created before, so the invariant says what each worker at `ig`
holds (`GatewaysHeld`): a gateway it created is attached to nothing, the one it
makes routes to is attached to its VPC. That no other execution attaches the former
elsewhere needs `GatewaysApart`, and that a gateway attached to nothing is not mistaken for
one of the worker's VPC that the part vpc returns VPCs (`VpcsReal`). The steps of all other
parts keep it because of what a step of a worker may change (`Works`, `Elsewhere`).

The other five properties of `Provisioning` are proved there too, for any number of
workers, clusters, services, nodes, executions and faults and every slice
(`ProvisioningAssumption`):

* `TypeCorrect` and `ResultsStay` (`ResultsHold`) from `JInv`. What a part returned is a
  promise (`Promise`, and `RunPromise` of what the configuration of the run asked for);
  `Reported` and `Made` say that all promises of the current run and of the parts done before
  are kept, `Known` what each worker knows at its place from what it read or made before,
  such as that all zones but those of its list have a subnet. Promises stay true because
  every step lets the account grow as far as they can tell (`Grows`), so only the step of a
  part itself has to be looked at: one lemma per step, each ending with the promise when it
  returns. A rule is promised per service, a default rule per frontend, since of several
  services the last one is the default.
* `ServedOn` (`StaysServed`) from `KInv` in addition: what a cleanup still has to delete is of
  its node and of another size, and, as long as the runs want one size, a server of that
  size runs. No worker of the cluster deletes that one, so it lasts from the look to the last
  deletion, and cleanups of the same node by several runs leave one between them.
* `MadeCompletely` (`CompleteUnlessStopped`) from `CInv`: as long as nothing was stopped, a VPC
  without DNS names (`NamedInv`) or a listener without the redirection (`RedirectInv`) has a
  worker at the step that completes it; a worker at `tg` has set the path of every service it
  is done with, also of those it found (`PathInv`); one that reads a certificate has seen
  one issued (`CertInv`).
* `FewMade` (`NoSurplus`) by counting. Who is about to create a VPC or a certificate found none,
  so what is made and the workers about to make one are together at most as many as
  there are workers (`VpcsFew`, `CertsFew`). Gateways and those about to create one are bounded
  by one per worker for each VPC that has its gateway, one for each worker whose VPC has
  none yet (`Wanting`), and one for each execution that was stopped (`GatewaysFew`).

`HostActionsProofs` proves `TypeCorrect` (no handler or sender uses a channel that is not
there, none holds more than its capacity, nothing is on a broken connection) and
`InOrderDelivery` (`NotReordered`) for any number of hosts, handlers, senders and
configurations, any capacity and any faults. A configuration is followed from the agent
back to the step that sent it. On one connection everything is in order (`Lines`), which
holds because a host has one connection that works (`Owned`). What a handler takes next must
be ahead of nothing that has left the channels for its host (`Past`): through the same
channel because configurations of a channel keep their order (`Apart`, with the history
`via`); through another one only when a single deploy step sends (`OneSender`), which used
the channel in the map each time, so that the channel a broken connection's handler
still drains holds older ones. Steps are sorted by what they do to these: most move
things forward or lose them (`Forward`, `BufStep`, `MapStep`), `SendStep` adds a
configuration, `TakeStep` takes one.

`StoriesProofs` proves, for stories of any size, what New and Execute do with the adapters:

* `AcceptedStoriesRun`, `ArgumentsRight` and `ResultsOnce`. `Execute` gives each requirement
  the first datum of its type that is not taken, so the data a part has left over and those
  taken follow its requirements one by one (`IsTaken`, `InOrder`). `Match` is a recursive
  function over the requirements; that it does this at each of them is shown for the least
  one at which it would not. A datum that is missing would be one that a requirement before
  took although its own was there, and one left over a requirement the story does not
  have: there is a one-to-one map of the parts before into the requirements
  (`NoneMissed`).
* `BuilderRight` and `BuilderComplete`: what `End()` returns. The invariant is what sorting keeps
  (`BI`): the places before `free` hold distinct nodes, the start first, each reached from
  the start over the ones before (`Slice`, `Found`), every link of a node that was passed
  leads to one of them (`Sorted`), and the current node's other links are looked at
  (`Sorting`). There is room for the next one as long as one is not placed, since the nodes
  are that many (`RoomLeft`). What is reached from the start is closed after as many
  steps as there are nodes (`ReachedClosed`). `Walk` is a recursive function of what was
  seen and a node. It answers as `Verdict` says, because with each call one more
  node has been seen and none twice (`WalkUnique`, `WalkVerdict`).

`HostTasksProofs` proves all five properties of `Features`, for configurations of any size, any
catalogue of features and any stack that has room for more calls than there are features:
`FeaturesOrdered` (`RequiredFirst`), `FeaturesThere` (`AllThere`), `PackagesInstallable`
(`InstallsPossible`), `OnePort` (`PortsAgree`) and `ResultExplained` (`ResultRight`). The
invariant is `FInv` (`ParserInvariance`):

* The calls of `featureToFeature` are frames of the stack, so what a call will have achieved
  when it returns has to be said of the stack. Each frame by itself says what it is at
  (`FrameInv`): past the call for what its feature requires, that is in the lists
  (`FrameKnown`); at a package manager, which one and for which package (`FrameManager`).
  Two frames together say that what the lower one still misses is what the upper one has
  yet to go through (`LinkInv`). A call that returns with nothing left to go through
  (`Popped`) hands this on to its caller, and the lists only grow (`Grows`).
* That a feature comes once, and that the stack does not run over, need the same fact: the
  features of two calls on the stack are different (`Distinct`), since they would
  otherwise need each other in a circle (`Circular`); so there are at most as many calls
  as features.
* The lists themselves (`ListsRight`) have each feature after those of its list it requires;
  a manager that is added has what it requires before it or in the service's list (`Ready`),
  and a task that was made can be done with the managers so far (`TasksPossible`), which
  stays true as managers and features are added.
* Which facts about the configuration are used where is kept apart in the invariant by flags
  (`known`: no feature is missing, `simple`: no circle, `plain`: two who offer a package agree
  on its managers), so one invariant serves properties with different premises and also the
  panics and overflows of configurations without them.

It also proves `DoneStays` (`DoneHolds`) and `BuriKept` (`BuriStays`) for every
configuration, whatever the parser makes of it. A task that is executed has been begun and
its file is there (`Begun`); what the next ones change in files, users and packages only adds
to what `Held` says of those that are done, except the file of a task of the same name, which
is set apart. That the catalogue's buri is whole while its link leads to it (`BuriWhole`) is
undone only by a download to that file that is under way or by a fault.

`EnvironmentsProofs` proves `EndsExplained` (`EndExplained`) and `NeverBack` (`NoGoingBack`) for
any number of environments, executions, revisions, pushes and faults. Both say what two
executions of one environment can do to each other, so the invariant says what one that
has the directory for itself may rely on (`Fits`): what it listed is what is checked out,
what it is about to provision is the revision it has read. That needs `Alone`: as soon as there
are two, both are marked `shared`, in whatever order they began, so that the clone of one
(`CloneKeeps`) never changes the directory under one that is not. With `Behind` (a directory
holds nothing older than what was ever provisioned from it) follow both theorems: one that is
alone never misses a system and never provisions an older revision.

`ProbeProofs` proves `TypeCorrect`, `NoneSkipped` (`NoTaskSkipped`) and `FewRepeats`
(`BoundedRepeats`) for configurations of any length with empty features and services
anywhere, any number of them and any faults:

* An event holds what is left of a configuration, so the invariant says what that tells
  of the host (`Sound`): its services, features and tasks are a rest of those that were
  received (`Left`), and every task that is not left was executed (`DoneIn`). `Next` and
  `Execute` keep this because dropping what is empty at the front (`Trim`) leaves the same
  tasks and ends with one in front, and because the task `Execute` removes is the
  one it executed and the first that was left; the lemmas about these say so for lists of
  any length. `NoTaskSkipped` follows: an event asks for its first task, all before it are done.
* Repeats are counted: how often a task was executed and how many events still ask for it
  come together to at most one more than the number of crashes (`Few`). Between the call of
  its function and its acknowledgement an event no longer asks, the state that follows does
  in its place; it is counted in the hand of `Run`, among the accepted writes and in the
  stream. A crash in between makes the one event ask again, which is the one more.

Assumptions: `StoryAssumption` (links lead to parts, none to the start) and
`RepeatableAssumption`, `ReaderAssumption`, `HostActionsAssumption` (bounds are numbers),
`ProbeAssumption` (configurations are lists of services, features and tasks, a task has one
place in them, bounds are numbers), `EnvironmentsAssumption` (there is a revision, and each is a list of directories),
`ProvisioningAssumption` (there are finitely many workers, slices contain what their parts
require, runs have services); `WiringAssumption` (a part lists each part before it once, as
`Inngoing` does, and the end has the end's adapter, as `End()` sees to); `IsBuilder` of the
inputs of `StoryBuilder` (nodes with ids of their own and links, what `Id` and `LinkTo` make);
`HostAssumption` (bounds are numbers); `FeaturesAssumption` (a configuration has the fields
and the types of tasks of the schema, `config/schema/types.go`, its lists are lists, ports are
numbers, and it has fewer features than calls fit on the stack, which grows to a gigabyte).

Model-checked only: everything about liveness, which TLAPS cannot prove with
fairness; `FailureExplained` and `StoriesRun`, which speak of all that leads to one
state and are about the instances of their runs; `NewestLast` of `Probe`. The latter is
true only of configurations that have the tasks they share in the same order, as those of
the runs do: of a configuration with the tasks A, B and a later one with B, A, which are
executed in turns, the older one's B may come last.

## Not modelled, and what is left to do

* Node status, server list and Slack (`main.go:465-529`, `aws/serverinfo.go`, `slack/`): small
  lists under one lock that nothing else depends on. Reading them showed one thing worth
  repeating: the first report of a node is compared with the one before it, at index -1
  (`main.go:495`), so its handler panics after storing it.
* `fairytale/story/stack`: its only user is commented out, as are `cloud/aws/handler.go` and
  the callers of Slack.
* Bootstrapping (`main.go:154`), which does once what a timer does.
* The health reporter, ansible playbooks, cryptography, IAM, tags, metadata and images: data
  that passes through a library or a command, no state between two calls.
* Two git commands in one directory at the same moment (`main.go:547`), and the AWS resources
  no worker calls (databases, deletions).

Proofs that could follow: the safety side of `CompletesOrStalls` (as long as nothing was
lost, an event of a configuration that is not done is left).
