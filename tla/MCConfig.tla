------------------------------ MODULE MCConfig ------------------------------
(* Configurations for Features and the hosts of HostTasks: the             *)
(* repository's catalogue (config/schema), cut down, and families of       *)
(* features, services and properties.                                      *)
EXTENDS HostTasks

Task(type, priv, what) ==
  [type |-> type, priv |-> priv, package |-> "", what |-> what, of |-> ""]
Install(package) == [Task("install", "system", "") EXCEPT !.package = package]
For(task)        == [task EXCEPT !.of = Placeholder]

Wants(names) == [i \in DOMAIN names |-> <<names[i], "">>]
Feature(requires, tasks) ==
  [requires |-> Wants(requires), tasks |-> tasks,
   custom |-> [os \in {} |-> <<>>], packages |-> [p \in {} |-> <<>>]]

Root(fs, requires, root, clusters) ==
  [features |-> fs,
   pms |-> [yum |-> [requires |-> <<>>, root |-> TRUE],
            pip |-> [requires |-> Wants(requires), root |-> root]],
   packages |-> [cronie  |-> <<"dnf", "yum">>, python3 |-> <<"apt", "dnf", "yum">>,
                 ansible |-> <<"pip">>, viapip |-> <<"apk", "pip">>],
   os |-> [amazon |-> <<"yum">>, other |-> <<"pip">>, strange |-> <<"none">>],
   clusters |-> clusters]

Service(machine, names) ==
  [name |-> machine, machine |-> machine, features |-> Wants(names),
   packages |-> <<>>, artifact |-> FALSE, propsName |-> "", key |-> <<>>,
   port |-> 0, props |-> <<>>]
On(arch, services) == [os |-> "amazon", arch |-> arch, services |-> services]

-----------------------------------------------------------------------------
(* Features that require each other, install in several ways and are the   *)
(* system's or the service's own; buri and nerthus are empty here.         *)

Small == [buri |-> Feature(<<>>, <<>>), nerthus |-> Feature(<<>>, <<>>),
          service |-> Feature(<<"C">>, <<For(Task("user", "root", "user")),
                                        For(Task("command", "system", "su"))>>)]

Kind == [pip   |-> <<Install("viapip")>>,
         own   |-> <<Task("command", "service", "x")>>,
         local |-> <<Install("ofb")>>,
         mixed |-> <<Install("python3"), Task("command", "service", "x")>>]

Graphs ==
  { Root(Small @@
         [A |-> Feature(ra, Kind[ka]),
          B |-> [Feature(rb, Kind[kb]) EXCEPT !.packages = [ofb |-> <<"yum">>]],
          C |-> Feature(rc, Kind[kc])],
         rp, FALSE,
         << On("amd64", <<Service("s1", <<"A">>), Service("s2", <<"B", "A">>)>>) >>) :
    ra \in {<<>>, <<"B">>, <<"C">>, <<"C", "B">>}, rb \in {<<>>, <<"C">>, <<"A">>},
    rc \in {<<>>, <<"A">>}, rp \in {<<>>, <<"C">>, <<"B">>},
    ka \in {"pip", "own", "mixed"}, kb \in {"pip", "own"},
    kc \in {"mixed", "own", "local"} }

(* A is brought in again by the manager of what it installs, after another *)
(* manager has made that package installable: it comes twice.              *)
Twice ==
  { [Root(Small @@ [A |-> Feature(<<>>, Kind["pip"]), B |-> Feature(<<>>, <<Install("ofb")>>),
                    C |-> Feature(<<>>, <<>>)],
          <<>>, FALSE, << On("amd64", <<Service("s1", <<"A">>)>>) >>)
      EXCEPT !.packages = [viapip |-> <<"pip", "apk">>, ofb |-> <<"apk">>],
             !.pms = [yum |-> @.yum, pip |-> [requires |-> Wants(<<"B", "A">>), root |-> FALSE],
                      apk |-> [requires |-> Wants(<<"C">>), root |-> FALSE]]] }

(* Names that are wrong: of a feature, a package, a system, its manager.   *)
Wrong ==
  { Root(Small @@ [A |-> Feature(<<"gone">>, Kind[k]), B |-> Feature(<<>>, Kind["own"]),
                   C |-> Feature(<<>>, <<>>)],
         <<>>, FALSE, << On("amd64", <<Service("s1", <<"B", "A">>)>>) >>) :
    k \in {"own", "mixed"} }
  \cup { Root(Small @@ [C |-> Feature(<<>>, <<>>)], <<>>, FALSE,
              << [On("amd64", <<[Service("s1", <<>>) EXCEPT !.packages = ps]>>)
                    EXCEPT !.os = os] >>) :
         ps \in {<<>>, <<"gone">>}, os \in {"amazon", "other", "strange", "gone"} }

-----------------------------------------------------------------------------
(* Properties and ports. *)

Port     == <<"port">>
Line(v)  == [key |-> Port, value |-> v]
Longer   == [key |-> <<"port", "max">>, value |-> 5000]
Other    == [key |-> <<"name">>, value |-> 0]

Ports ==
  { Root(Small @@ [C |-> Feature(<<>>, <<>>)], <<>>, FALSE,
         << On("amd64", <<[Service("s1", <<>>) EXCEPT
              !.artifact = TRUE, !.propsName = "local", !.key = key,
              !.port = port, !.props = props]>>) >>) :
    key \in {<<>>, Port}, port \in {0, 1024, 1025},
    props \in { <<>>, <<Other>>, <<Other, Line(8080)>>, <<Line(80), Other>>,
                <<Line(1025)>>, <<Longer, Line(8080)>>, <<Line(NoValue)>>,
                <<Line(8080), Line(9090)>> } }

-----------------------------------------------------------------------------
(* The catalogue and the hosts. *)

Catalogue ==
  [service |-> Feature(<<>>, <<For(Task("user", "root", "user")),
                              For(Task("file_string", "system", "su")),
                              For(Task("command", "system", "su"))>>),
   buri    |-> Feature(<<>>, <<Task("download", "root", "buri"),
                              Task("command", "root", "buri"),
                              Task("link", "root", "buri")>>),
   nerthus |-> Feature(<<"manager", "monitor">>, <<>>),
   manager |-> Feature(<<>>, <<Task("command", "system", "probe")>>),
   monitor |-> Feature(<<>>, <<Task("command", "root", "health")>>),
   zulu    |-> [Feature(<<>>, <<Task("install_external", "system", "repo")>>)
                 EXCEPT !.packages = [zulu17 |-> <<"dnf", "yum">>]],
   java17  |-> Feature(<<"zulu">>, <<Install("zulu17")>>),
   cron    |-> [Feature(<<>>, <<>>) EXCEPT !.custom =
                 [amazon |-> <<Install("cronie"), Task("enable", "root", "crond")>>]],
   python  |-> Feature(<<>>, <<Install("python3")>>),
   ansible |-> Feature(<<>>, <<Install("ansible")>>)]

Real(requires, root, clusters) == Root(Catalogue, requires, root, clusters)

Runs(machine, names, file) ==
  [Service(machine, names) EXCEPT !.artifact = TRUE, !.propsName = file,
                                  !.props = <<Other>>]

Hosts ==
  { Real(<<"python">>, FALSE,
         << On(arch, <<Runs("s1", <<"cron", "ansible">>, "one"),
                       Runs("s2", <<"cron">>, "two")>>) >>) :
    arch \in {"amd64", "arm64"} }
  \cup { Real(<<"python">>, FALSE,
              << On("amd64", <<Runs("s1", <<>>, "one")>>),
                 On("amd64", <<Runs("s2", <<>>, "one")>>) >>),
         Real(<<>>, FALSE, << On("amd64", <<Runs("s1", <<"ansible">>, "")>>) >>),
         Real(<<"python">>, TRUE, << On("amd64", <<Runs("s1", <<"ansible">>, "")>>) >>),
         Real(<<>>, FALSE, << On("amd64", <<Runs("s1", <<"java17">>, "")>>) >>),
         Real(<<>>, FALSE, << On("amd64", <<Runs("s1", <<>>, "one"),
                                             Runs("s2", <<>>, "one")>>) >>),
         Real(<<>>, FALSE, << On("amd64",
               <<[Runs("s1", <<>>, "one") EXCEPT !.name = "s 1"]>>) >>),
         Real(<<>>, FALSE, << On("amd64",
               <<[Runs("s1", <<>>, "one") EXCEPT !.props = <<>>]>>) >>) }

-----------------------------------------------------------------------------

MCInputs      == Graphs \cup Twice \cup Wrong \cup Ports \cup Hosts
MCBuiltin     == Wants(<<"buri", "nerthus">>)
MCPlaceholder == "<service>"
MCRegistered  == {"install", "download", "link", "enable", "file_string",
                  "file_bytes", "user", "command"}
MCMaxFaults   == [k \in FaultKind |-> 1]
=============================================================================
