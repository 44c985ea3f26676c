------------------------------ MODULE Features ------------------------------
(***************************************************************************)
(* From the configuration of a system to the tasks of its nodes            *)
(* (config/parse.go): ParseSystem goes through the clusters and their      *)
(* services, featureToFeature collects the features a service requires,    *)
(* those first that they require themselves, and                           *)
(* validateOrAddPackageManager adds the package managers they need.        *)
(*                                                                         *)
(* featureToFeature calls itself; a call is a frame of stack, with the     *)
(* place it goes on at.  The list serviceFeats is handed down and up       *)
(* again, so one variable holds it; cluster is what *Cluster points to,    *)
(* features is cfg.Features, a map that all calls share.                   *)
(*                                                                         *)
(* A feature's name is a pair: <<"service", s>> is "service s" in the      *)
(* code, <<n, "">> any other name n.  Of a task's texts only the service   *)
(* they name is kept (of).  Loading and validating the CUE files (schema)  *)
(* is external: an input is what Load returns.                             *)
(***************************************************************************)
EXTENDS Naturals, FiniteSets, SequencesExt, Functions, TLC

CONSTANTS
  Inputs,       \* configurations, schema.Root
  Builtin,      \* names of the features of every service, parse.go:169
  Placeholder,  \* "<service>"
  MaxDepth      \* calls that fit on the stack

(* What Load returns: lists, and records with the fields and the types of  *)
(* tasks of the schema.  The stack has room for more calls than there are  *)
(* features: it grows to a gigabyte.                                       *)
IsList(s) == s \in Seq(ToSet(s))

TaskTypes == {"install", "install_local", "install_external", "enable",
              "download", "link", "delete", "file_string", "file_bytes",
              "schedule", "user", "command"}

IsTask(t) ==
  /\ t = [type |-> t.type, priv |-> t.priv, package |-> t.package,
          what |-> t.what, of |-> t.of]
  /\ t.type \in TaskTypes
IsFeature(f) ==
  /\ f = [requires |-> f.requires, tasks |-> f.tasks, custom |-> f.custom,
          packages |-> f.packages]
  /\ IsList(f.requires)
  /\ IsList(f.tasks) /\ \A i \in DOMAIN f.tasks : IsTask(f.tasks[i])
  /\ \A os \in DOMAIN f.custom :
       IsList(f.custom[os]) /\ \A i \in DOMAIN f.custom[os] : IsTask(f.custom[os][i])

IsService(s) ==
  /\ IsList(s.features) /\ IsList(s.key) /\ IsList(s.props)
  /\ \A i \in DOMAIN s.props :
       /\ s.props[i] = [key |-> s.props[i].key, value |-> s.props[i].value]
       /\ s.props[i].value \in Nat
  /\ s.port \in Nat /\ s.artifact \in BOOLEAN

ASSUME FeaturesAssumption ==
  /\ IsList(Builtin) /\ MaxDepth \in Nat
  /\ \A r \in Inputs :
       /\ IsFiniteSet(DOMAIN r.features) /\ Cardinality(DOMAIN r.features) < MaxDepth
       /\ \A f \in DOMAIN r.features : IsFeature(r.features[f])
       /\ \A m \in DOMAIN r.pms : IsList(r.pms[m].requires)
       /\ \A o \in DOMAIN r.os : IsList(r.os[o])
       /\ IsList(r.clusters)
       /\ \A c \in DOMAIN r.clusters :
            /\ IsList(r.clusters[c].services)
            /\ \A s \in DOMAIN r.clusters[c].services :
                 IsService(r.clusters[c].services[s])

VARIABLES
  input,      \* the configuration
  features,   \* cfg.Features; the texts of its commands are rewritten
  cluster,    \* the cluster ParseSystem works at
  feats,      \* serviceFeats
  stack,      \* calls of featureToFeature
  at,         \* ParseSystem: cluster, service and what is next
  built,      \* clusters of the system that is returned
  result      \* "" while running; "ok", "error", "panic" or "overflow"

vars == <<input, features, cluster, feats, stack, at, built, result>>

-----------------------------------------------------------------------------
(* Tasks.                                                                  *)

Blank == [type |-> "", root |-> FALSE, package |-> "", managers |-> <<>>,
          what |-> "", of |-> ""]

(* Mutant: the tasks of the system's features become root's, not root's.   *)
ConvertSystem(t, packages) ==
  [type |-> t.type, root |-> t.priv = "system", package |-> t.package,
   managers |-> IF t.type = "install" /\ t.package \in DOMAIN packages
                THEN packages[t.package] ELSE <<>>,
   what |-> t.what, of |-> t.of]

(* confTaskToTask: a "delete" is never root's, a "schedule" keeps nothing  *)
(* but its type, what is not known becomes an empty task.                  *)
Convert(t, packages) ==
  LET task(package, managers) ==
        [type |-> t.type, root |-> t.priv = "root", package |-> package,
         managers |-> managers, what |-> t.what, of |-> t.of]
  IN  CASE t.type = "install" ->
             IF t.package \notin DOMAIN packages THEN Blank
             ELSE task(t.package, packages[t.package])
        [] t.type = "delete" -> [task("", <<>>) EXCEPT !.root = FALSE]
        [] t.type = "schedule" -> [task("", <<>>) EXCEPT !.what = "", !.of = ""]
        [] t.type \in {"install_local", "install_external", "download", "link",
                       "enable", "file_string", "file_bytes", "user", "command"}
             -> task("", <<>>)
        [] OTHER -> Blank

(* The types in whose texts the service is filled in. *)
Named == {"download", "link", "delete", "file_string", "file_bytes", "user",
          "command"}

Fill(t, s) ==
  IF t.type \in Named /\ t.of = Placeholder THEN [t EXCEPT !.of = s] ELSE t

FillAll(ts, s) == [i \in DOMAIN ts |-> Fill(ts[i], s)]

(* The copy of a feature that featureToFeature makes for a service. *)
Specialised(f, s) ==
  [f EXCEPT !.tasks = FillAll(@, s),
            !.custom = [os \in DOMAIN @ |-> FillAll(@[os], s)]]

(* The words of a command are not copied: they change in the map. *)
FillCommands(ts, s) ==
  [i \in DOMAIN ts |-> IF ts[i].type = "command" THEN Fill(ts[i], s) ELSE ts[i]]

Rewritten(f, s) ==
  [f EXCEPT !.tasks = FillCommands(@, s),
            !.custom = [os \in DOMAIN @ |-> FillCommands(@[os], s)]]

TasksFor(f, os) == IF os \in DOMAIN f.custom THEN f.custom[os] ELSE f.tasks

(* schema.Feature.Service: whether a feature is the service's own. *)
OwnOf(f, os) ==
  LET ts == TasksFor(f, os)
  IN  \A i \in DOMAIN ts : ts[i].priv = "service"

-----------------------------------------------------------------------------
(* Calls of featureToFeature.                                              *)

(* The call goes on with the features of todo; when it is at a feature:    *)
(* its copy, whether it goes to the service's list, the length of that     *)
(* list before, the tasks made, the package manager being added.           *)
Frame(names) ==
  [todo |-> names, pc |-> "loop", name |-> <<>>, feat |-> <<>>, own |-> FALSE,
   org |-> 0, tasks |-> <<>>, manager |-> ""]

Top        == Last(stack)
Replace(f) == Append(Front(stack), f)
Skip(f)    == Frame(Tail(f.todo))

Os        == input.clusters[at.c].os
List(own) == IF own THEN feats ELSE cluster.system
Present(fs, name) == \E i \in DOMAIN fs : fs[i].name = name

Running(pc) == result = "" /\ stack # <<>> /\ Top.pc = pc

(* A call on top of st, which may be one too many. *)
Enter(st, names) ==
  IF Len(st) < MaxDepth
  THEN stack' = Append(st, Frame(names)) /\ UNCHANGED result
  ELSE stack' = st /\ result' = "overflow"

Known(name) == name[1] \in DOMAIN features

(* Mutant: the call returns at a feature that is there already.            *)
VisitReturns ==
  /\ Running("loop") /\ Top.todo # <<>> /\ Known(Head(Top.todo))
  /\ LET name == Head(Top.todo)
         f    == features[name[1]]
         feat == IF name[2] = "" THEN f ELSE Specialised(f, name[2])
         own  == OwnOf(feat, Os)
     IN  IF Present(List(own), name)
         THEN stack' = Front(stack) /\ UNCHANGED result
         ELSE Enter(Replace([Top EXCEPT !.pc = "required", !.name = name,
                                        !.feat = feat, !.own = own,
                                        !.org = Len(List(own))]),
                    feat.requires)
  /\ UNCHANGED <<input, features, cluster, feats, at, built>>

(* A feature that is there already is passed over; else what it requires   *)
(* comes first.  In either case the shared commands were rewritten.        *)
Visit ==
  /\ Running("loop") /\ Top.todo # <<>> /\ Known(Head(Top.todo))
  /\ LET name == Head(Top.todo)
         f    == features[name[1]]
         feat == IF name[2] = "" THEN f ELSE Specialised(f, name[2])
         own  == OwnOf(feat, Os)
     IN  /\ features' = IF name[2] = "" THEN features
                        ELSE [features EXCEPT ![name[1]] = Rewritten(@, name[2])]
         /\ IF Present(List(own), name)
            THEN stack' = Replace(Skip(Top)) /\ UNCHANGED result
            ELSE Enter(Replace([Top EXCEPT !.pc = "required", !.name = name,
                                           !.feat = feat, !.own = own,
                                           !.org = Len(List(own))]),
                       feat.requires)
  /\ UNCHANGED <<input, cluster, feats, at, built>>

(* A feature that does not exist ends the call, which returns nil.         *)
Missing ==
  /\ Running("loop") /\ Top.todo # <<>> /\ ~Known(Head(Top.todo))
  /\ feats' = <<>>
  /\ stack' = Front(stack)
  /\ UNCHANGED <<input, features, cluster, at, built, result>>

Return ==
  /\ Running("loop") /\ Top.todo = <<>>
  /\ stack' = Front(stack)
  /\ UNCHANGED <<input, features, cluster, feats, at, built, result>>

(* What the feature requires is there: it may be there itself by now.      *)
Required ==
  /\ Running("required")
  /\ LET l == List(Top.own)
     IN  IF Top.org > Len(l)
         THEN result' = "panic" /\ UNCHANGED stack
         ELSE /\ stack' = Replace(
                   IF Present(SubSeq(l, Top.org + 1, Len(l)), Top.name)
                   THEN Skip(Top) ELSE [Top EXCEPT !.pc = "tasks"])
              /\ UNCHANGED result
  /\ UNCHANGED <<input, features, cluster, feats, at, built>>

(* Mutant: a manager is added only when it is the first of a package.      *)
ToAddFirst(managers) ==
  {m \in {managers[i] : i \in DOMAIN managers \cap {1}} :
     /\ m \in DOMAIN input.pms /\ input.pms[m].requires # <<>>
     /\ \A n \in ToSet(cluster.managers) : n.name # m}

(* The first of some managers that the configuration knows. *)
FirstKnown(managers) ==
  LET known == {i \in DOMAIN managers : managers[i] \in DOMAIN input.pms}
  IN  {managers[i] : i \in {j \in known : \A k \in known : j <= k}}

(* validateOrAddPackageManager: when none of the managers is there, the    *)
(* first one the configuration knows is added, if it requires a feature:   *)
(* it is looked no further when it does not.                               *)
ToAdd(managers) ==
  IF {m.name : m \in ToSet(cluster.managers)} \cap ToSet(managers) # {} THEN {}
  ELSE {m \in FirstKnown(managers) : input.pms[m].requires # <<>>}

Source      == TasksFor(Top.feat, Os)
NextTask    == Source[Len(Top.tasks) + 1]
AtTask      == Running("tasks") /\ Len(Top.tasks) < Len(Source)
Converted   == Append(Top.tasks, Convert(NextTask, cluster.packages))

(* The managers of a package that is to be installed.  (The code has a     *)
(* case for "installLocal", a type no task has.)                           *)
ManagersOf(t) ==
  IF t.type = "install" /\ t.package \in DOMAIN cluster.packages
  THEN cluster.packages[t.package] ELSE <<>>

TaskPlain ==
  /\ AtTask /\ ToAdd(ManagersOf(NextTask)) = {}
  /\ stack' = Replace([Top EXCEPT !.tasks = Converted])
  /\ UNCHANGED <<input, features, cluster, feats, at, built, result>>

TaskManager ==
  /\ AtTask
  /\ \E m \in ToAdd(ManagersOf(NextTask)) :
       Enter(Replace([Top EXCEPT !.pc = "manager", !.manager = m]),
             input.pms[m].requires)
  /\ UNCHANGED <<input, features, cluster, feats, at, built>>

(* The manager is added; whether it wants to be root's is not copied.      *)
ManagerAdded ==
  /\ Running("manager")
  /\ cluster' = [cluster EXCEPT !.managers =
                   Append(@, [name |-> Top.manager, root |-> FALSE])]
  /\ stack' = Replace([Top EXCEPT !.pc = "tasks", !.tasks = Converted])
  /\ UNCHANGED <<input, features, feats, at, built, result>>

(* The packages of a feature replace those of the same name. *)
With(packages, more) ==
  [p \in DOMAIN packages \cup DOMAIN more |->
     IF p \in DOMAIN more THEN more[p] ELSE packages[p]]

(* Mutant: the feature is put before the others.                           *)
FeatureDoneFirst ==
  /\ Running("tasks") /\ Len(Top.tasks) = Len(Source)
  /\ LET f == [name |-> Top.name, tasks |-> Top.tasks]
     IN  /\ feats' = IF Top.own THEN <<f>> \o feats ELSE feats
         /\ cluster' = [cluster EXCEPT
              !.system   = IF Top.own THEN @ ELSE <<f>> \o @,
              !.packages = With(@, Top.feat.packages)]
  /\ stack' = Replace(Skip(Top))
  /\ UNCHANGED <<input, features, at, built, result>>

(* The feature follows what it requires; its packages are known from now.  *)
FeatureDone ==
  /\ Running("tasks") /\ Len(Top.tasks) = Len(Source)
  /\ LET f == [name |-> Top.name, tasks |-> Top.tasks]
     IN  /\ feats' = IF Top.own THEN Append(feats, f) ELSE feats
         /\ cluster' = [cluster EXCEPT
              !.system   = IF Top.own THEN @ ELSE Append(@, f),
              !.packages = With(@, Top.feat.packages)]
  /\ stack' = Replace(Skip(Top))
  /\ UNCHANGED <<input, features, at, built, result>>

FeatureToFeature ==
  \/ Visit \/ Missing \/ Return \/ Required
  \/ TaskPlain \/ TaskManager \/ ManagerAdded \/ FeatureDone

-----------------------------------------------------------------------------
(* Props: the text of a service's properties and the port it listens on.   *)

(* A line is [key, value]; a key is the sequence of its parts, so that one *)
(* may start with another.  A value that is no number, or no port, is 0;   *)
(* NoValue stands for a line without a "=".                                *)
NoValue   == 65536
FirstPort == 1025

Failed(how)      == [how |-> how, text |-> <<>>, port |-> 0]
Written(text, p) == [how |-> "ok", text |-> text, port |-> p]

(* Mutant: the line that is there is written once more.                    *)
PropsTwice(serv) ==
  IF serv.key = <<>> THEN Written(serv.props, serv.port)
  ELSE Written(<<[key |-> serv.key, value |-> serv.port]>> \o serv.props,
               serv.port)

PropsOf(serv) ==
  LET lines == {i \in DOMAIN serv.props : IsPrefix(serv.key, serv.props[i].key)}
      first == Min(lines)
      given == serv.props[first].value
      line  == [key |-> serv.key, value |-> serv.port]
  IN  CASE serv.key = <<>> /\ serv.port > 0 -> Failed("error")
        [] serv.key = <<>> /\ serv.port = 0 -> Written(serv.props, 0)
        [] serv.key # <<>> /\ serv.port \in 1 .. FirstPort - 1 -> Failed("error")
        [] serv.key # <<>> /\ serv.port = 0 ->
             IF lines = {} THEN Failed("error")
             ELSE IF given = NoValue THEN Failed("panic")
             ELSE IF given < FirstPort THEN Failed("error")
             ELSE Written(serv.props, given)
        [] OTHER ->
             IF lines = {} THEN Written(<<line>> \o serv.props, serv.port)
             ELSE Written([serv.props EXCEPT ![first] = line], serv.port)

-----------------------------------------------------------------------------
(* ParseSystem.                                                            *)

Parsing(pc) == result = "" /\ stack = <<>> /\ at.pc = pc

Conf == input.clusters[at.c]
Serv == Conf.services[at.s]

Give(r) ==
  /\ result' = r
  /\ UNCHANGED <<input, features, cluster, feats, stack, at, built>>

Bad(names) == names \ DOMAIN input.pms # {}

(* The cluster starts with the package managers its system comes with.     *)
BeginCluster ==
  /\ Parsing("cluster") /\ at.c <= Len(input.clusters)
  /\ IF Os \notin DOMAIN input.os \/ Bad(ToSet(input.os[Os]))
     THEN Give("error")
     ELSE /\ cluster' = [managers |-> [i \in DOMAIN input.os[Os] |->
                             [name |-> input.os[Os][i],
                              root |-> input.pms[input.os[Os][i]].root]],
                         packages |-> input.packages,
                         system   |-> <<>>,
                         services |-> <<>>]
          /\ at' = [at EXCEPT !.pc = "service", !.s = 1]
          /\ UNCHANGED <<input, features, feats, stack, built, result>>

BeginService ==
  /\ Parsing("service") /\ at.s <= Len(Conf.services)
  /\ feats' = <<>>
  /\ Enter(<<>>, Serv.features)
  /\ at' = [at EXCEPT !.pc = "builtin"]
  /\ UNCHANGED <<input, features, cluster, built>>

BuiltIn ==
  /\ Parsing("builtin")
  /\ Enter(<<>>, Append(Builtin, <<"service", Serv.machine>>))
  /\ at' = [at EXCEPT !.pc = "finish"]
  /\ UNCHANGED <<input, features, cluster, feats, built>>

NextService(service) ==
  /\ cluster' = [cluster EXCEPT !.services = Append(@, service)]
  /\ at' = [at EXCEPT !.pc = "service", !.s = @ + 1]
  /\ UNCHANGED <<input, features, feats, stack, built, result>>

NoService == [name |-> "", machine |-> "", feats |-> <<>>, port |-> 0,
              text |-> <<>>, monitored |-> 0]

RunName == <<"Service", "">>

(* The tasks that run a service with an artifact: its properties, when     *)
(* they have a name, the service itself and what monitors its health.      *)
RunTasks(serv, text) ==
  (IF serv.propsName # ""
   THEN <<[Blank EXCEPT !.type = "file_string", !.of = serv.propsName,
             !.what = IF text = <<>> THEN "empty" ELSE "properties"]>>
   ELSE <<>>)
  \o <<[Blank EXCEPT !.type = "command", !.what = "run"],
       [Blank EXCEPT !.type = "command", !.what = "monitor"]>>

(* Mutant: a service whose properties are wrong ends the attempt.          *)
FinishServiceStrict ==
  /\ Parsing("finish")
  /\ LET props == IF Serv.artifact /\ Serv.propsName # "" THEN PropsOf(Serv)
                  ELSE Written(<<>>, Serv.port)
     IN  IF props.how # "ok" THEN Give(props.how)
         ELSE NextService([name      |-> Serv.name,
                           machine   |-> Serv.machine,
                           feats     |-> feats,
                           port      |-> props.port,
                           text      |-> props.text,
                           monitored |-> Serv.port])

(* A service whose properties are wrong is left empty; the monitor is told *)
(* the port of the configuration, before Props has set it.                 *)
FinishService ==
  /\ Parsing("finish")
  /\ LET props == IF Serv.artifact /\ Serv.propsName # "" THEN PropsOf(Serv)
                  ELSE Written(<<>>, Serv.port)
         run   == IF Serv.artifact
                  THEN <<[name |-> RunName, tasks |-> RunTasks(Serv, props.text)]>>
                  ELSE <<>>
     IN  CASE props.how = "panic" -> Give("panic")
           [] props.how = "error" -> NextService(NoService)
           [] OTHER ->
                IF ToSet(Serv.packages) \subseteq DOMAIN input.packages
                THEN NextService([name      |-> Serv.name,
                                  machine   |-> Serv.machine,
                                  feats     |-> feats \o run,
                                  port      |-> props.port,
                                  text      |-> props.text,
                                  monitored |-> Serv.port])
                ELSE Give("error")

EndCluster ==
  /\ Parsing("service") /\ at.s > Len(Conf.services)
  /\ built' = Append(built, cluster)
  /\ at' = [at EXCEPT !.pc = "cluster", !.c = @ + 1]
  /\ UNCHANGED <<input, features, cluster, feats, stack, result>>

EndSystem ==
  /\ Parsing("cluster") /\ at.c > Len(input.clusters)
  /\ Give("ok")

ParseSystem ==
  \/ BeginCluster \/ BeginService \/ BuiltIn \/ FinishService
  \/ EndCluster \/ EndSystem

FeaturesInit ==
  /\ input \in Inputs
  /\ features = input.features
  /\ cluster = [managers |-> <<>>, packages |-> <<>>, system |-> <<>>,
                services |-> <<>>]
  /\ feats = <<>> /\ stack = <<>> /\ built = <<>> /\ result = ""
  /\ at = [c |-> 1, s |-> 1, pc |-> "cluster"]

FeaturesNext == ParseSystem \/ FeatureToFeature

-----------------------------------------------------------------------------
(* Properties.                                                             *)

Oks      == IF result = "ok" THEN DOMAIN built ELSE {}
OsOf(c)  == input.clusters[c].os
ConfOf(c, s) == input.clusters[c].services[s]

Needs(name) == ToSet(input.features[name[1]].requires)
IsOwn(c, name) == OwnOf(input.features[name[1]], OsOf(c))
Names(fs)   == {fs[i].name : i \in DOMAIN fs}
Left(c)     == {s \in DOMAIN built[c].services : built[c].services[s] = NoService}

(* The features a service asks for, whoever asks. *)
Asked(c, s) == ToSet(ConfOf(c, s).features) \cup ToSet(Builtin)
                 \cup {<<"service", ConfOf(c, s).machine>>}

(* No name in the configuration is without a feature. (The schema refuses  *)
(* one that has such a name; the code has a path for it.)                  *)
NoneMissing ==
  LET known == DOMAIN input.features
  IN  /\ \A f \in known : \A n \in Needs(<<f, "">>) : n[1] \in known
      /\ \A p \in DOMAIN input.pms : \A n \in ToSet(input.pms[p].requires) :
           n[1] \in known
      /\ {n[1] : n \in ToSet(Builtin)} \cup {"service"} \subseteq known
      /\ \A c \in DOMAIN input.clusters :
           \A s \in DOMAIN input.clusters[c].services :
             \A n \in ToSet(ConfOf(c, s).features) : n[1] \in known

(* What a feature may require: the features it lists and those of the      *)
(* managers of the packages it installs, whoever offers these.             *)
Offers == {input.packages} \cup {f.packages : f \in Range(input.features)}

ManagersFor(package) ==
  (UNION {ToSet(o[package]) : o \in {q \in Offers : package \in DOMAIN q}})
    \cap DOMAIN input.pms

MayNeed(f) ==
  LET feature  == input.features[f]
      tasks    == UNION {ToSet(ts) : ts \in {feature.tasks} \cup Range(feature.custom)}
      managers == UNION {ManagersFor(t.package) : t \in {u \in tasks : u.type = "install"}}
  IN  {n[1] : n \in ToSet(feature.requires)
               \cup UNION {ToSet(input.pms[m].requires) : m \in managers}}
        \cap DOMAIN input.features

(* Some features may need each other in a circle. *)
Circular ==
  \E ring \in SUBSET DOMAIN input.features :
    ring # {} /\ \A f \in ring : MayNeed(f) \cap ring # {}

(* A feature comes after those of its list it requires, however deep they  *)
(* are and whoever had them collected first (474-485).                     *)
Before(c, fs, own) ==
  \A i \in DOMAIN fs : fs[i].name # RunName =>
    \A n \in Needs(fs[i].name) :
      IsOwn(c, n) = own => \E j \in 1 .. i - 1 : fs[j].name = n

(* And it comes once, unless one of its own tasks brings it in again: that *)
(* is looked for before the tasks only (484).                              *)
Once(fs) ==
  \A i, j \in DOMAIN fs : fs[i].name = fs[j].name => i = j \/ fs[i].name = RunName

RequiredFirst ==
  NoneMissing => \A c \in Oks :
    /\ Before(c, built[c].system, FALSE)
    /\ Once(built[c].system) \/ Circular
    /\ \A s \in DOMAIN built[c].services :
         /\ Before(c, built[c].services[s].feats, TRUE)
         /\ Once(built[c].services[s].feats) \/ Circular

(* Nothing a service asks for is lost: it is in the cluster's list or in   *)
(* the service's own, with all that it requires.  A service's feature that *)
(* a feature of the system requires goes to the service that was first to  *)
(* ask (478), and with it when that one is left empty (189).               *)
AllThere ==
  NoneMissing => \A c \in Oks :
    LET system == Names(built[c].system)
        Own(s) == Names(built[c].services[s].feats)
        all    == system \cup UNION {Own(s) : s \in DOMAIN built[c].services}
    IN  /\ \A n \in system : Left(c) = {} => Needs(n) \subseteq all
        /\ \A s \in DOMAIN built[c].services \ Left(c) :
             /\ Asked(c, s) \subseteq system \cup Own(s)
             /\ \A n \in Own(s) \ {RunName} : Needs(n) \subseteq system \cup Own(s)

(* Every package can be installed when its turn comes: the cluster has one *)
(* of its managers, either the system's own or one whose features come     *)
(* before.  Not so when the first manager that is known requires nothing   *)
(* (595-603: it is looked no further), or none is known; nor when one that *)
(* is brought in changes the package's managers (529).                     *)
Unambiguous ==
  \A o, q \in Offers : \A p \in DOMAIN o \cap DOMAIN q : o[p] = q[p]

Installable(c, i, t) ==
  LET fs    == built[c].system
      there == {m.name : m \in ToSet(built[c].managers)} \cap ToSet(t.managers)
  IN  \/ \A m \in FirstKnown(t.managers) : input.pms[m].requires = <<>>
      \/ \E m \in there :
           \/ m \in ToSet(input.os[OsOf(c)])
           \/ \A n \in ToSet(input.pms[m].requires) :
                IsOwn(c, n) \/ \E j \in 1 .. i - 1 : fs[j].name = n

(* A task is lost (it becomes an empty one) only when its package is       *)
(* neither in the catalogue nor offered by what its feature requires.      *)
Explained(name, package) ==
  /\ package \notin DOMAIN input.packages
  /\ \A n \in Needs(name) : package \notin DOMAIN input.features[n[1]].packages

InstallsPossible ==
  NoneMissing /\ Unambiguous => \A c \in Oks : \A i \in DOMAIN built[c].system :
    LET f == built[c].system[i]
    IN  \A k \in DOMAIN f.tasks :
          /\ f.tasks[k].type = "install" => Installable(c, i, f.tasks[k])
          /\ f.tasks[k].type = "" =>
               Explained(f.name, TasksFor(input.features[f.name[1]], OsOf(c))[k].package)

(* The service all commands of the feature "service" name: their words are *)
(* shared by all services, and name the first that was filled in (433).    *)
FirstServed == ConfOf(1, 1).machine

(* The port in the properties of a service is the one the rest of the      *)
(* system is given, and nothing else in them changes.  Not so when a line  *)
(* has a longer key, or a second line has the same (553, 567).  What       *)
(* monitors the service asks another port when the configuration leaves    *)
(* it to the properties (182).                                             *)
LinesOf(text, key) == {i \in DOMAIN text : IsPrefix(key, text[i].key)}

PortsAgree ==
  \A c \in Oks : \A s \in DOMAIN built[c].services \ Left(c) :
    LET conf  == ConfOf(c, s)
        serv  == built[c].services[s]
        given == LinesOf(conf.props, conf.key)
    IN  conf.artifact /\ conf.propsName # "" /\ conf.key # <<>> =>
          /\ serv.port >= FirstPort
          /\ serv.monitored \in {0, serv.port}
          /\ \E more \in {0, 1} :
               /\ Len(serv.text) = Len(conf.props) + more
               /\ \A i \in DOMAIN conf.props \ given : serv.text[i + more] = conf.props[i]
          /\ (\A i, j \in given : i = j /\ conf.props[i].key = conf.key) =>
               \E i \in DOMAIN serv.text :
                 /\ LinesOf(serv.text, conf.key) = {i}
                 /\ serv.text[i] = [key |-> conf.key, value |-> serv.port]

(* The system is refused only for a name that is wrong; the stack runs     *)
(* over only when features, or the managers of what they install, require  *)
(* each other in a circle; it panics only for a missing feature or a line  *)
(* of properties without a "=".                                            *)
AllServices == UNION {ToSet(c.services) : c \in ToSet(input.clusters)}

ResultRight ==
  /\ result = "overflow" => Circular
  /\ result = "panic" =>
       \/ ~NoneMissing
       \/ \E s \in AllServices : \E l \in ToSet(s.props) : l.value = NoValue
  /\ result = "error" =>
       \/ \E c \in ToSet(input.clusters) :
            c.os \notin DOMAIN input.os \/ Bad(ToSet(input.os[c.os]))
       \/ \E s \in AllServices :
            ~(ToSet(s.packages) \subseteq DOMAIN input.packages)

=============================================================================
