------------------------------- MODULE Servers -------------------------------
(***************************************************************************)
(* The parts node, cleanup and target: the servers of a cluster.  A server *)
(* is found by its name, that of a node of the cluster; names are not      *)
(* unique, and a change of the wanted size makes a second server of the    *)
(* name, after which cleanup terminates the first.                         *)
(***************************************************************************)
EXTENDS Executions

CONSTANTS Nodes, Sizes  \* the nodes of a cluster are 1 .. Nodes

VARIABLES
  servers, \* [cluster, node, size, state] of each server ever made
  targets  \* <<service, server>>: registered with the service's target group

serverVars == <<servers, targets>>

States == {"starting", "pending", "running", "terminated"}

(* GetServers does not see a server without its devices, nor one that ends. *)
Seen(c, n) ==
  {s \in DOMAIN servers :
     /\ servers[s].cluster = c /\ servers[s].node = n
     /\ servers[s].state \in {"pending", "running"}}

Running(ss) == {s \in ss : servers[s].state = "running"}
OfSize(ss, size) == {s \in ss : servers[s].size = size}

-----------------------------------------------------------------------------
(* node: got are the servers of the nodes done.                            *)

NodeOf(w) == Len(exec[w].got) + 1

(* On to the next node.  Nothing is waited for: the list of servers to     *)
(* wait for is empty.                                                      *)
NextNode(w, s) ==
  LET done == Append(exec[w].got, s)
  IN  IF Len(done) = Nodes THEN Finish(w, done) ELSE Go(w, "start", done)

(* A server of the wanted size is taken, or one that does not run yet. *)
NodeLook(w) ==
  LET seen   == Seen(exec[w].cluster, NodeOf(w))
      usable == OfSize(seen, Config(w).size) \cup (seen \ Running(seen))
  IN  /\ At(w, "node", "start")
      /\ IF usable = {} THEN Go(w, "create", exec[w].got)
         ELSE \E s \in usable : NextNode(w, s)
      /\ UNCHANGED serverVars

(* Mutant: the node after the last server's is taken for its node. *)
NodeCreateShifted(w) ==
  /\ At(w, "node", "create")
  /\ servers' = Append(servers,
                  [cluster |-> exec[w].cluster, node |-> NodeOf(w) + 1,
                   size |-> Config(w).size, state |-> "starting"])
  /\ NextNode(w, Len(servers) + 1)
  /\ UNCHANGED targets

NodeCreate(w) ==
  /\ At(w, "node", "create")
  /\ servers' = Append(servers,
                  [cluster |-> exec[w].cluster, node |-> NodeOf(w),
                   size |-> Config(w).size, state |-> "starting"])
  /\ NextNode(w, Len(servers) + 1)
  /\ UNCHANGED targets

-----------------------------------------------------------------------------
(* cleanup: got has an entry for each node looked at, the servers that are *)
(* still to be terminated.                                                 *)

AfterCleaning(w, got) ==
  IF Len(got) = Len(exec[w].args["node"]) THEN Finish(w, <<1>>)
  ELSE Go(w, "start", got)

CleanupWith(w, doomed) ==
  LET got == Append(exec[w].got, doomed)
  IN  /\ At(w, "cleanup", "start")
      /\ IF doomed = {} THEN AfterCleaning(w, got) ELSE Go(w, "delete", got)
      /\ UNCHANGED serverVars

(* Mutant: a server that does not run yet counts as a successor. *)
CleanupLookEager(w) ==
  LET seen == Seen(exec[w].cluster, Len(exec[w].got) + 1)
      good == OfSize(seen, Config(w).size)
  IN  CleanupWith(w, IF good = {} THEN {} ELSE Running(seen \ good))

(* Servers that run with another size go when one of the wanted size runs. *)
CleanupLook(w) ==
  LET seen == Seen(exec[w].cluster, Len(exec[w].got) + 1)
      good == OfSize(seen, Config(w).size)
  IN  CleanupWith(w, IF Running(good) = {} THEN {} ELSE Running(seen \ good))

CleanupDelete(w) ==
  /\ At(w, "cleanup", "delete")
  /\ LET n == Len(exec[w].got)
     IN  \E s \in exec[w].got[n] :
           LET got == [exec[w].got EXCEPT ![n] = @ \ {s}]
           IN  /\ servers' = [servers EXCEPT ![s].state = "terminated"]
               /\ IF got[n] = {} THEN AfterCleaning(w, got) ELSE Go(w, "delete", got)
  /\ UNCHANGED targets

-----------------------------------------------------------------------------
(* target: every server is registered with every target group, one call    *)
(* each; got has an entry for each pair done.                              *)

(* AWS refuses a server that does not run. *)
TargetRegister(w) ==
  LET nodes    == exec[w].args["node"]
      services == Config(w).services
      k        == Len(exec[w].got)
      s        == nodes[(k % Len(nodes)) + 1]
      done     == Append(exec[w].got, 1)
  IN  /\ At(w, "target", "start")
      /\ IF servers[s].state # "running"
         THEN Refused(w) /\ UNCHANGED targets
         ELSE /\ targets' = targets \cup {<<services[(k \div Len(nodes)) + 1], s>>}
              /\ IF Len(done) = Len(nodes) * Len(services) THEN Finish(w, nodes)
                 ELSE Go(w, "start", done)
      /\ UNCHANGED servers

-----------------------------------------------------------------------------
(* EC2 starts a server: its devices appear, then it runs. *)
Proceeds(s) ==
  /\ \/ servers[s].state = "starting" /\ servers' = [servers EXCEPT ![s].state = "pending"]
     \/ servers[s].state = "pending"  /\ servers' = [servers EXCEPT ![s].state = "running"]
  /\ UNCHANGED targets

(* A cluster may have servers of an earlier deployment. *)
InitServers ==
  /\ servers \in {<<>>} \cup
       (IF "node" \notin slice.parts THEN {}
        ELSE {[n \in 1 .. Nodes |->
                 [cluster |-> c, node |-> n, size |-> z, state |-> "running"]] :
                c \in Clusters, z \in Sizes})
  /\ targets = {}

ServerStep(w) ==
  \/ NodeLook(w) \/ NodeCreate(w)
  \/ CleanupLook(w) \/ CleanupDelete(w)
  \/ TargetRegister(w)
=============================================================================
