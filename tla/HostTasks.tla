------------------------------ MODULE HostTasks ------------------------------
(***************************************************************************)
(* What the agent does on its host (probe/actions) with the tasks Features *)
(* makes of a cluster: those of the system first, then those of each       *)
(* service, run as the service's user (next.go:46-82).                     *)
(*                                                                         *)
(* How the agent goes from one task to the next is Probe's subject.  Here  *)
(* it is what Probe shows of it: a task begins when those before it have   *)
(* succeeded, a task that succeeded may be executed again after the agent  *)
(* was started again, and one that failed waits for that start.            *)
(*                                                                         *)
(* External: the host and its commands; buri, which keeps itself up to     *)
(* date and starts the agent when it does not run (cloud/aws/server's user *)
(* data puts both into crontab).  The agent runs under sudo, DryRun is off *)
(* and the task that is executed is the one of its state.                  *)
(***************************************************************************)
EXTENDS Features

CONSTANTS
  Registered,    \* types of tasks the agent has a function for, main.go:73-80
  Deployed,      \* configurations whose hosts are looked at (a bound)
  Chmods,        \* commands that make a file executable: the file's name
  BuriCommands,  \* commands that call buri
  MaxFaults      \* how often each fault strikes

VARIABLES
  node,     \* the cluster of the host, 0 before its configuration arrives
  work,     \* the tasks of its configuration, [serv, task]
  done,     \* how many tasks have succeeded in a row
  pending,  \* tasks that were begun and have not succeeded since
  failed,   \* tasks that wait for the agent to be started again
  cur,      \* the task that is executed, 0 for none
  up,       \* whether the agent runs
  host,     \* users, files, executables, packages and services of the host
  link,     \* /usr/local/bin/buri: "catalogue"'s file, an"other" one, "none"
  faults    \* what may still go wrong

hostVars == <<node, work, done, pending, failed, cur, up, host, link, faults>>
allVars  == <<vars, hostVars>>

FaultKind ==
  { "fail",    \* a command or a request fails
    "page",    \* a download is answered with something else than the file
    "crash",   \* the agent stops
    "again",   \* a task is delivered again after it succeeded
    "update" } \* buri installs a newer version of itself

ASSUME HostAssumption == MaxFaults \in [FaultKind -> Nat]

Spend(k) == faults[k] > 0 /\ faults' = [faults EXCEPT ![k] = @ - 1]

-----------------------------------------------------------------------------
(* The tasks of a host, each with the service it is executed for.          *)

TasksOf(fs, serv) ==
  FlattenSeq([i \in DOMAIN fs |->
    [k \in DOMAIN fs[i].tasks |-> [serv |-> serv, task |-> fs[i].tasks[k]]]])

Listed(c) ==
  TasksOf(c.system, 0)
    \o FlattenSeq([s \in DOMAIN c.services |-> TasksOf(c.services[s].feats, s)])

(* An empty task ends the work: its type is the state that has no          *)
(* successor (statemachine/sm.go:83).                                      *)
WorkOf(c) ==
  LET I == {k \in DOMAIN Listed(c) : Listed(c)[k].task.type = ""}
  IN  IF I = {} THEN Listed(c) ELSE SubSeq(Listed(c), 1, Min(I) - 1)

TaskAt(k)   == work[k].task
FileOf(t)   == <<IF t.what = "empty" THEN "properties" ELSE t.what, t.of>>
Has(f)      == f \in DOMAIN host.files
Buri        == <<"buri", "">>
IsFile(t)   == t.type \in {"download", "file_string", "file_bytes"}
IsChmod(t)  == t.type = "command" /\ t.what \in Chmods
IsBuri(t)   == t.type = "command" /\ t.what \in BuriCommands

(* The host once a file of it holds content. *)
Put(f, content) ==
  [host EXCEPT !.files =
     [g \in DOMAIN @ \cup {f} |-> IF g = f THEN content ELSE @[g]]]

(* What a file holds once it is written: the properties are those of one   *)
(* service, under a name in the directory of the agent.                    *)
Content(k) ==
  IF TaskAt(k).what = "properties"
  THEN built[node].services[work[k].serv].machine ELSE "whole"

(* buri can be called: its link leads to a file that is whole.             *)
BuriWorks ==
  \/ link = "other"
  \/ link = "catalogue" /\ Has(Buri) /\ host.files[Buri] = "whole"

(* getUser: the user of a service has the service's name, not the machine  *)
(* name its user was added under.                                          *)
NoUser(k) ==
  /\ work[k].serv # 0
  /\ ~TaskAt(k).root
  /\ built[node].services[work[k].serv].name \notin host.users

(* Install: the first of the cluster's managers that has the package. *)
Chosen(t) ==
  LET ms == built[node].managers
      I  == {i \in DOMAIN ms : ms[i].name \in ToSet(t.managers)}
  IN  IF I = {} THEN {} ELSE {ms[Min(I)]}

(* Why a task that works on a file or calls a command cannot succeed.      *)
WhyService(k) ==
  LET t == TaskAt(k)
  IN  IF IsFile(t) /\ t.what = "empty" THEN "empty"
      ELSE IF NoUser(k) THEN "user"
      ELSE IF IsChmod(t) /\ ~Has(FileOf(t)) THEN "file"
      ELSE IF IsBuri(t) /\ ~BuriWorks THEN "buri"
      ELSE ""

(* Why a task cannot succeed on the host as it is, "" when it can. *)
Why(k) ==
  LET t == TaskAt(k)
  IN  IF t.type \notin Registered THEN "type"
      ELSE CASE t.type = "install" ->
                  IF Chosen(t) = {} THEN "manager"
                  ELSE IF \A m \in Chosen(t) : t.root \/ m.root THEN ""
                  ELSE IF NoUser(k) THEN "user"
                  ELSE IF \E m \in Chosen(t) : input.pms[m.name].root THEN "rights"
                  ELSE ""
             [] t.type = "user" ->
                  IF t.of \notin host.users /\ ~t.root THEN "rights" ELSE ""
             [] t.type = "enable" -> IF ~t.root THEN "rights" ELSE ""
             [] t.type = "link" -> IF link = "catalogue" THEN "" ELSE "link"
             [] OTHER -> WhyService(k)

-----------------------------------------------------------------------------

NoHost == [users |-> {}, files |-> <<>>, exec |-> {}, packages |-> {},
           services |-> {}]

HostInit ==
  /\ node = 0 /\ work = <<>> /\ done = 0 /\ pending = {} /\ failed = {} /\ cur = 0
  /\ up = TRUE /\ faults = MaxFaults /\ host = NoHost /\ link = "none"

Init == FeaturesInit /\ HostInit

(* The configuration of the host's cluster reaches the agent.  The user    *)
(* data of the node has brought buri in the version of the catalogue: the  *)
(* catalogue's own file when the node is an amd64.                         *)
Deliver ==
  /\ result = "ok" /\ node = 0 /\ input \in Deployed
  /\ \E c \in DOMAIN built :
       /\ node' = c /\ work' = WorkOf(built[c])
       /\ IF input.clusters[c].arch = "amd64"
          THEN /\ link' = "catalogue"
               /\ host' = [Put(Buri, "whole") EXCEPT !.exec = {Buri}]
          ELSE link' = "other" /\ UNCHANGED host
  /\ UNCHANGED <<vars, done, pending, failed, cur, up, faults>>

(* Execute takes the task of the event; a file that is written, or a       *)
(* download, is empty from here on (file.go:67, download.go:86).           *)
Start(k) ==
  /\ up /\ cur = 0 /\ k \in DOMAIN work \ failed
  /\ cur' = k
  /\ pending' = pending \cup {k}
  /\ host' = IF IsFile(TaskAt(k)) /\ TaskAt(k).type \in Registered
             THEN Put(FileOf(TaskAt(k)), "partial") ELSE host
  /\ UNCHANGED <<vars, node, work, done, failed, up, link>>

Begin(k) == k \in pending \cup {done + 1} /\ Start(k) /\ UNCHANGED faults

BeginAgain(k) == k \in 1 .. done \ pending /\ Spend("again") /\ Start(k)

(* What the task leaves behind. *)
After(t) ==
  CASE t.type = "user" -> [host EXCEPT !.users = @ \cup {t.of}]
    [] t.type = "install" -> [host EXCEPT !.packages = @ \cup {t.package}]
    [] t.type = "enable" -> [host EXCEPT !.services = @ \cup {t.what}]
    [] IsFile(t) -> Put(FileOf(t), Content(cur))
    [] IsChmod(t) -> [host EXCEPT !.exec = @ \cup {FileOf(t)}]
    [] OTHER -> host

(* The task is removed and the next one looked up. *)
Finished ==
  /\ done' = IF cur = done + 1 THEN cur ELSE done
  /\ pending' = pending \ {cur}
  /\ cur' = 0

(* Mutant: the link is removed before it is known where it leads.          *)
SucceedUnlinked ==
  /\ cur # 0 /\ Why(cur) = ""
  /\ host' = After(TaskAt(cur))
  /\ Finished
  /\ link' = IF TaskAt(cur).type = "link" THEN "none" ELSE link
  /\ UNCHANGED <<vars, node, work, failed, up, faults>>

Succeed ==
  /\ cur # 0 /\ Why(cur) = ""
  /\ host' = After(TaskAt(cur))
  /\ Finished
  /\ UNCHANGED <<vars, node, work, failed, up, link, faults>>

(* The status of the answer is not looked at: what came is kept. *)
Page ==
  /\ cur # 0 /\ TaskAt(cur).type = "download" /\ Why(cur) = ""
  /\ Spend("page")
  /\ host' = Put(FileOf(TaskAt(cur)), "page")
  /\ Finished
  /\ UNCHANGED <<vars, node, work, failed, up, link>>

(* Mutant: a task that fails is counted as done.                           *)
FailingDone ==
  /\ failed' = failed \cup {cur}
  /\ done' = IF cur = done + 1 THEN cur ELSE done
  /\ pending' = pending \ {cur}
  /\ cur' = 0

(* The event stays unacknowledged. *)
Failing ==
  /\ failed' = failed \cup {cur}
  /\ cur' = 0
  /\ UNCHANGED <<done, pending>>

(* A link that leads elsewhere is removed before the new one is made, and  *)
(* os.Link(source, dest) then finds no source (link.go:45-47).  A file     *)
(* whose owner does not exist was written before.                          *)
Blocked ==
  /\ cur # 0 /\ Why(cur) # ""
  /\ Failing
  /\ host' = IF IsFile(TaskAt(cur)) /\ Why(cur) = "user"
             THEN After(TaskAt(cur)) ELSE host
  /\ link' = IF Why(cur) = "link" THEN "none" ELSE link
  /\ UNCHANGED <<vars, node, work, up, faults>>

Fail ==
  /\ cur # 0 /\ Why(cur) = "" /\ Spend("fail")
  /\ Failing
  /\ UNCHANGED <<vars, node, work, up, host, link>>

Crash ==
  /\ up /\ node # 0 /\ Spend("crash")
  /\ up' = FALSE /\ cur' = 0
  /\ UNCHANGED <<vars, node, work, done, pending, failed, host, link>>

(* crontab: buri starts the agent, which gets again what it has not        *)
(* acknowledged.                                                           *)
Restart ==
  /\ ~up /\ BuriWorks
  /\ up' = TRUE /\ failed' = {}
  /\ UNCHANGED <<vars, node, work, done, pending, cur, host, link, faults>>

(* crontab: buri replaces itself and its link. *)
Update ==
  /\ node # 0 /\ BuriWorks /\ link = "catalogue" /\ Spend("update")
  /\ link' = "other"
  /\ UNCHANGED <<vars, node, work, done, pending, failed, cur, up, host>>

Execute ==
  \/ \E k \in DOMAIN work : Begin(k) \/ BeginAgain(k)
  \/ Succeed \/ Page \/ Blocked \/ Fail

Next ==
  \/ FeaturesNext /\ UNCHANGED hostVars
  \/ Deliver \/ Execute \/ Crash \/ Restart \/ Update

Spec == Init /\ [][Next]_allVars

-----------------------------------------------------------------------------
(* Properties.                                                             *)

Spent(k) == faults[k] < MaxFaults[k]

(* What has been done stays done: whatever was delivered again, broke off  *)
(* or failed since, the effect of every task that is not to be executed    *)
(* once more is on the host.  Not so for what the code leaves open: what   *)
(* buri makes of its own link, and properties of two services that have    *)
(* one name (all are written to the directory of the agent, parse.go:197). *)
SameName(k, l) ==
  k # l /\ IsFile(TaskAt(l)) /\ FileOf(TaskAt(k)) = FileOf(TaskAt(l))

Holds(k) ==
  LET t == TaskAt(k)
  IN  /\ t.type = "user" => t.of \in host.users
      /\ t.type = "install" => t.package \in host.packages
      /\ t.type = "enable" => t.what \in host.services
      /\ t.type = "link" => link = "catalogue" \/ Spent("update")
      /\ IsFile(t) =>
           \/ host.files[FileOf(t)] = Content(k)
           \/ t.type = "download" /\ Spent("page")
           \/ \E l \in DOMAIN work : SameName(k, l)
      /\ IsChmod(t) => Has(FileOf(t)) /\ FileOf(t) \in host.exec

DoneHolds == \A k \in 1 .. done \ pending : Holds(k)

(* A task that can never succeed is one of these: a type the agent has no  *)
(* function for; a manager that cannot be had, or that was added and has   *)
(* lost its right to be root (605); a service whose user has another name; *)
(* properties without a line (file.go:72); buri's link on a node of        *)
(* another architecture, or after buri replaced itself (link.go:45), and   *)
(* what is called through it; and, on the nodes of all clusters but the    *)
(* first, the file of a service that is not theirs (parse.go:433).         *)
FailureExplained ==
  cur # 0 =>
    LET w    == work[cur]
        conf == ConfOf(node, w.serv)
    IN  CASE Why(cur) = "type" ->
               w.task.type \in {"install_external", "install_local",
                                "delete", "schedule"}
          [] Why(cur) = "manager" ->
               \/ ToSet(w.task.managers) \cap DOMAIN input.pms = {}
               \/ \E m \in ToSet(w.task.managers) \cap DOMAIN input.pms :
                    input.pms[m].requires = <<>>
          [] Why(cur) = "rights" ->
               /\ w.task.type = "install"
               /\ \A m \in Chosen(w.task) : m.name \notin ToSet(input.os[OsOf(node)])
          [] Why(cur) = "user" -> conf.name # conf.machine
          [] Why(cur) = "empty" -> conf.props = <<>> /\ conf.key = <<>>
          [] Why(cur) = "link" ->
               input.clusters[node].arch # "amd64" \/ Spent("update")
          [] Why(cur) = "buri" -> ~BuriWorks
          [] Why(cur) = "file" ->
               /\ w.task.of = FirstServed
               /\ \A s \in DOMAIN built[node].services :
                    ConfOf(node, s).machine # FirstServed
          [] OTHER -> TRUE

(* The host keeps its buri, which alone starts the agent again: it is lost *)
(* only with its link, or when the file the link leads to is downloaded    *)
(* again and the download breaks off or brings something else.             *)
BuriStays ==
  node # 0 /\ ~BuriWorks =>
    \/ /\ link = "none"
       /\ input.clusters[node].arch # "amd64" \/ Spent("update")
    \/ /\ link = "catalogue"
       /\ \/ cur # 0 /\ FileOf(TaskAt(cur)) = Buri
          \/ Spent("crash") \/ Spent("fail") \/ Spent("page")

=============================================================================
