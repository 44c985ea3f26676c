------------------------------ MODULE MCProbe ------------------------------
(***************************************************************************)
(* Instances of Probe for TLC: one cluster with a feature of the system    *)
(* and one of a service, empty features and an empty service around them.  *)
(***************************************************************************)
EXTENDS Probe

TaskOf(type) == [type |-> type]

(* Three tasks, in a configuration whose service tasks are ts. *)
Cluster(ts) ==
  [system   |-> << <<>>, <<TaskOf("user")>>, <<>> >>,
   services |-> << <<>>, << <<>>, <<TaskOf("file_string")>>, ts >> >>]

(* The types main.go registers. *)
Types == {"next", "install", "download", "link", "enable", "file_string",
          "file_bytes", "user", "command"}

(* The second cluster has a task of a type the schema knows and main.go   *)
(* does not register.                                                      *)
Web      == Cluster(<<TaskOf("enable")>>)
Cleaned  == Cluster(<<TaskOf("delete"), TaskOf("enable")>>)
Clusters == {Web, Cleaned}
WebOnly  == {Web}
Known    == {TaskOf(t) : t \in (Types \ {"next"}) \cup {"delete"}}

OneOfEach   == [k \in FaultKind |-> 1]
CrashLosing == [k \in FaultKind |-> IF k \in {"crash", "lose"} THEN 1 ELSE 0]
=============================================================================
