----------------------------- MODULE MCDeployment -----------------------------
(***************************************************************************)
(* The instance of Wiring that is the story of a deployment.               *)
(***************************************************************************)
EXTENDS Wiring, TLC

(* deployment.go: the parts in the order of their definition, their links, *)
(* and what the adapters of the workers return and require.  A part's name *)
(* stands for its adapter's.                                               *)
Inner == <<"vpc", "key", "image", "cert", "lbsg", "sn", "ig", "tg", "sg", "node",
           "deploy", "cleanup", "lb", "listener", "rule", "target">>

DeploymentNext ==
  IdStart :> {"vpc", "key", "image", "cert", "node", "rule", "lbsg", "tg", "lb",
              "sg", "deploy", "cleanup"}
  @@ "vpc" :> {"lbsg", "sn", "ig", "tg", "sg"}
  @@ "key" :> {"node"} @@ "image" :> {"node"} @@ "cert" :> {"listener"}
  @@ "lbsg" :> {"lb"} @@ "sn" :> {"lb", "node"} @@ "ig" :> {IdEnd}
  @@ "tg" :> {"rule", "target"} @@ "sg" :> {"node"}
  @@ "node" :> {"target", "deploy", "cleanup"}
  @@ "deploy" :> {IdEnd} @@ "cleanup" :> {IdEnd}
  @@ "lb" :> {"listener"} @@ "listener" :> {"rule"}
  @@ "rule" :> {IdEnd} @@ "target" :> {IdEnd} @@ IdEnd :> {}

DeploymentTypes ==
  StartName :> "config.Environment" @@ EndName :> "[]adapter.Value"
  @@ AnyName :> NoType
  @@ "vpc" :> "vpc.VPC" @@ "key" :> "key.Key" @@ "image" :> "ami.Image"
  @@ "cert" :> "acm.Cert" @@ "lbsg" :> "security.Group" @@ "sg" :> "security.Group"
  @@ "sn" :> "[]string" @@ "deploy" :> "[]string" @@ "cleanup" :> "[]string"
  @@ "ig" :> "string" @@ "tg" :> "[]loadbalancer.TargetGroup"
  @@ "node" :> "[]server.Server" @@ "lb" :> "loadbalancer.Loadbalancer"
  @@ "listener" :> "loadbalancer.Listener" @@ "rule" :> "loadbalancer.Rule"
  @@ "target" :> "[]loadbalancer.Target"

DeploymentReqs ==
  LET s == StartName
  IN  s :> <<s>> @@ EndName :> <<AnyName>>
      @@ "vpc" :> <<s>> @@ "key" :> <<s>> @@ "image" :> <<s>> @@ "cert" :> <<s>>
      @@ "lbsg" :> <<s, "vpc">> @@ "sg" :> <<s, "vpc">> @@ "tg" :> <<s, "vpc">>
      @@ "sn" :> <<"vpc">> @@ "ig" :> <<"vpc">>
      @@ "node" :> <<s, "sn", "image", "key", "sg">>
      @@ "deploy" :> <<s, "node">> @@ "cleanup" :> <<s, "node">>
      @@ "lb" :> <<s, "sn", "lbsg">> @@ "listener" :> <<"cert", "lb">>
      @@ "rule" :> <<s, "listener", "tg">> @@ "target" :> <<"node", "tg">>

DeploymentParts == <<IdStart>> \o Inner \o <<IdEnd>>

Deployment ==
  {[parts    |-> DeploymentParts,
    prev     |-> InnLinks(DeploymentParts, DeploymentNext),
    adapter  |-> [p \in ToSet(Inner) \cup {IdStart, IdEnd} |->
                    CASE p = IdStart -> StartName
                      [] p = IdEnd   -> EndName
                      [] OTHER       -> p],
    adapters |-> <<StartName>> \o Inner,
    type     |-> DeploymentTypes,
    reqs     |-> DeploymentReqs]}

-----------------------------------------------------------------------------
(* The readers accept the deployment and no part of it but the end is      *)
(* refused its arguments: each gets the results of the parts it requires,  *)
(* in that order (Sound holds for them).                                   *)
InnerPartsRun ==
  story \in Deployment =>
    /\ verdict # "rejected"
    /\ \A p \in Parts \ {IdEnd} : outcome[p] \in {"waiting", "done"}
    /\ \A p \in Parts \ {IdEnd} :
         outcome[p] = "done" /\ p # IdStart =>
           \A j \in DOMAIN args[p] : Adapter(args[p][j]) = Reqs(p)[j]

(* The end of the deployment runs, as the author of Execute believes       *)
(* (adapter.go:146): data without a type needs no handling of its own.     *)
EndRuns == outcome[IdEnd] \in {"waiting", "done"}
=============================================================================
