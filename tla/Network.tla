------------------------------- MODULE Network -------------------------------
(***************************************************************************)
(* The parts vpc, sn, ig, sg, lbsg and key: get-or-create over the API of  *)
(* EC2.  The clusters of a system share the VPC, and with it the subnets,  *)
(* the gateway and the loadbalancers' security group, which are found by   *)
(* names made of the environment's and the system's.                       *)
(***************************************************************************)
EXTENDS Executions

CONSTANTS
  Blocks,  \* the blocks a VPC's addresses are cut into, four in the code
  Occupied \* the permissions the group may have before lbsg runs

VARIABLES
  vpcs,    \* the number of VPCs of the system's name, their ids
  named,   \* the VPCs with DNS host names
  subnets, \* <<vpc, zone>>
  igs,     \* of each gateway the VPC it is attached to, or 0
  routes,  \* <<vpc, destination, gateway>>
  groups,  \* the VPCs with a group for loadbalancers
  open,    \* <<vpc, permission>> of these groups
  unique   \* names taken by keys and by the clusters' security groups

networkVars == <<vpcs, named, subnets, igs, routes, groups, open, unique>>

Access  == {80, 443} \X {"0.0.0.0/0", "::/0"}  \* the permissions of lbsg
Foreign == <<22, "10.0.0.0/8">>                \* one nobody expects
Dests   == <<"0.0.0.0/0", "::/0">>             \* in the order of the code

Block(z) == z % Blocks

-----------------------------------------------------------------------------
(* vpc.                                                                    *)

(* Mutant: a VPC is created whether there is one or not. *)
VpcLookNot(w) ==
  /\ At(w, "vpc", "start")
  /\ Go(w, "create", <<>>)
  /\ UNCHANGED networkVars

VpcLook(w) ==
  /\ At(w, "vpc", "start")
  /\ Go(w, IF vpcs > 0 THEN "read" ELSE "create", <<>>)
  /\ UNCHANGED networkVars

VpcCreate(w) ==
  /\ At(w, "vpc", "create")
  /\ vpcs' = vpcs + 1
  /\ Go(w, "modify", <<vpcs + 1>>)
  /\ UNCHANGED <<named, subnets, igs, routes, groups, open, unique>>

(* Mutant: the attribute is set for the first VPC. *)
VpcModifyFirst(w) ==
  /\ At(w, "vpc", "modify")
  /\ named' = named \cup {1}
  /\ Go(w, "read", <<>>)
  /\ UNCHANGED <<vpcs, subnets, igs, routes, groups, open, unique>>

VpcModify(w) ==
  /\ At(w, "vpc", "modify")
  /\ named' = named \cup {exec[w].got[1]}
  /\ Go(w, "read", <<>>)
  /\ UNCHANGED <<vpcs, subnets, igs, routes, groups, open, unique>>

(* The VPC is read again; of two with the name, one. *)
VpcRead(w) ==
  /\ At(w, "vpc", "read")
  /\ \E v \in 1 .. vpcs : Finish(w, <<v>>)
  /\ UNCHANGED networkVars

-----------------------------------------------------------------------------
(* sn.                                                                     *)

Zones == 0 .. slice.zones - 1  \* the availability zones, as sorted

SubnetsOf(v) == {z \in Zones : <<v, z>> \in subnets}

FirstZone(zs) == {z \in zs : \A y \in zs : z <= y}

(* got is the set of zones without a subnet when they were read. *)
SubnetLook(w) ==
  LET missing == Zones \ SubnetsOf(Arg(w, "vpc"))
  IN  /\ At(w, "sn", "start")
      /\ IF missing = {} THEN Go(w, "read", <<>>) ELSE Go(w, "create", missing)
      /\ UNCHANGED networkVars

(* Mutant: a subnet that cannot be created is passed over. *)
SubnetCreateAny(w) ==
  /\ At(w, "sn", "create")
  /\ \E z \in FirstZone(exec[w].got) :
       LET v    == Arg(w, "vpc")
           rest == exec[w].got \ {z}
       IN  /\ subnets' = IF \E y \in SubnetsOf(v) : Block(y) = Block(z)
                         THEN subnets ELSE subnets \cup {<<v, z>>}
           /\ IF rest = {} THEN Go(w, "read", <<>>) ELSE Go(w, "create", rest)
  /\ UNCHANGED <<vpcs, named, igs, routes, groups, open, unique>>

(* AWS refuses a block that overlaps another subnet's. *)
SubnetCreate(w) ==
  /\ At(w, "sn", "create")
  /\ \E z \in FirstZone(exec[w].got) :
       LET v    == Arg(w, "vpc")
           rest == exec[w].got \ {z}
       IN  IF \E y \in SubnetsOf(v) : Block(y) = Block(z)
           THEN Refused(w) /\ UNCHANGED subnets
           ELSE /\ subnets' = subnets \cup {<<v, z>>}
                /\ IF rest = {} THEN Go(w, "read", <<>>) ELSE Go(w, "create", rest)
  /\ UNCHANGED <<vpcs, named, igs, routes, groups, open, unique>>

SubnetRead(w) ==
  /\ At(w, "sn", "read")
  /\ Finish(w, <<Arg(w, "vpc")>>)
  /\ UNCHANGED networkVars

-----------------------------------------------------------------------------
(* ig.                                                                     *)

Attached(v) == {i \in DOMAIN igs : igs[i] = v}

GatewayLook(w) ==
  /\ At(w, "ig", "start")
  /\ LET found == Attached(Arg(w, "vpc"))
     IN  IF found = {} THEN Go(w, "create", <<>>)
         ELSE \E i \in found : Go(w, "table", <<i>>)
  /\ UNCHANGED networkVars

GatewayCreate(w) ==
  /\ At(w, "ig", "create")
  /\ igs' = Append(igs, 0)
  /\ Go(w, "attach", <<Len(igs) + 1>>)
  /\ UNCHANGED <<vpcs, named, subnets, routes, groups, open, unique>>

(* Mutant: the error of the call is not looked at. *)
GatewayAttachAnyhow(w) ==
  /\ At(w, "ig", "attach")
  /\ LET v == Arg(w, "vpc")
     IN  /\ igs' = IF Attached(v) = {} THEN [igs EXCEPT ![exec[w].got[1]] = v] ELSE igs
         /\ Go(w, "table", exec[w].got)
  /\ UNCHANGED <<vpcs, named, subnets, routes, groups, open, unique>>

(* A VPC has at most one gateway; the one just created stays unattached. *)
GatewayAttach(w) ==
  /\ At(w, "ig", "attach")
  /\ LET v == Arg(w, "vpc")
     IN  IF Attached(v) # {} THEN Refused(w) /\ UNCHANGED igs
         ELSE /\ igs' = [igs EXCEPT ![exec[w].got[1]] = v]
              /\ Go(w, "table", exec[w].got)
  /\ UNCHANGED <<vpcs, named, subnets, routes, groups, open, unique>>

RouteTo(v, d) == {r \in routes : r[1] = v /\ r[2] = d}

(* The destinations without a route. *)
Unrouted(v) == {d \in {Dests[1], Dests[2]} : RouteTo(v, d) = {}}

FirstDest(ds) == IF Dests[1] \in ds THEN Dests[1] ELSE Dests[2]

(* The route table is read once: got is the gateway and what it lacks. *)
TableRead(w) ==
  /\ At(w, "ig", "table")
  /\ LET missing == Unrouted(Arg(w, "vpc"))
     IN  IF missing = {} THEN Finish(w, exec[w].got)
         ELSE Go(w, "route", <<exec[w].got[1], missing>>)
  /\ UNCHANGED networkVars

(* AWS refuses a second route to a destination. *)
RouteCreate(w) ==
  /\ At(w, "ig", "route")
  /\ LET v       == Arg(w, "vpc")
         gateway == exec[w].got[1]
         d       == FirstDest(exec[w].got[2])
         rest    == exec[w].got[2] \ {d}
     IN  IF RouteTo(v, d) # {} THEN Refused(w) /\ UNCHANGED routes
         ELSE /\ routes' = routes \cup {<<v, d, gateway>>}
              /\ IF rest = {} THEN Finish(w, <<gateway>>)
                 ELSE Go(w, "route", <<gateway, rest>>)
  /\ UNCHANGED <<vpcs, named, subnets, igs, groups, open, unique>>

-----------------------------------------------------------------------------
(* lbsg.                                                                   *)

GroupLook(w) ==
  /\ At(w, "lbsg", "start")
  /\ Go(w, IF Arg(w, "vpc") \in groups THEN "rules" ELSE "create", <<>>)
  /\ UNCHANGED networkVars

GroupCreate(w) ==
  /\ At(w, "lbsg", "create")
  /\ LET v == Arg(w, "vpc")
     IN  IF v \in groups THEN Refused(w) /\ UNCHANGED groups
         ELSE groups' = groups \cup {v} /\ Go(w, "rules", <<>>)
  /\ UNCHANGED <<vpcs, named, subnets, igs, routes, open, unique>>

OpenIn(v) == {p \in Access \cup {Foreign} : <<v, p>> \in open}

(* Any other rule for incoming traffic is an error. *)
GroupRules(w) ==
  /\ At(w, "lbsg", "rules")
  /\ LET v       == Arg(w, "vpc")
         missing == Access \ OpenIn(v)
     IN  IF Foreign \in OpenIn(v) THEN Refused(w)
         ELSE IF missing = {} THEN Finish(w, <<v>>) ELSE Go(w, "open", missing)
  /\ UNCHANGED networkVars

(* One call for all of them, refused when one is there already. *)
GroupOpen(w) ==
  /\ At(w, "lbsg", "open")
  /\ LET v == Arg(w, "vpc")
     IN  IF exec[w].got \cap OpenIn(v) # {} THEN Refused(w) /\ UNCHANGED open
         ELSE open' = open \cup ({v} \X exec[w].got) /\ Finish(w, <<v>>)
  /\ UNCHANGED <<vpcs, named, subnets, igs, routes, groups, unique>>

-----------------------------------------------------------------------------
(* key and sg: AWS keeps their names unique, a group's in its VPC.         *)

NameFor(w) ==
  LET e == exec[w]
  IN  IF e.part = "key" THEN <<"key", e.cluster>>
      ELSE <<"sg", e.cluster, Arg(w, "vpc")>>

UniqueLook(w) ==
  /\ \E p \in {"key", "sg"} : At(w, p, "start")
  /\ IF NameFor(w) \in unique THEN Finish(w, <<1>>) ELSE Go(w, "create", <<>>)
  /\ UNCHANGED networkVars

UniqueCreate(w) ==
  /\ \E p \in {"key", "sg"} : At(w, p, "create")
  /\ IF NameFor(w) \in unique THEN Refused(w) /\ UNCHANGED unique
     ELSE unique' = unique \cup {NameFor(w)} /\ Finish(w, <<1>>)
  /\ UNCHANGED <<vpcs, named, subnets, igs, routes, groups, open>>

-----------------------------------------------------------------------------
(* The parts done before have made one of each, and a group that lbsg is   *)
(* to open may have permissions already.                                   *)
InitNetwork ==
  LET made(p) == p \in slice.done
  IN  /\ vpcs = IF made("vpc") THEN 1 ELSE 0
      /\ named = 1 .. vpcs
      /\ subnets = IF made("sn") THEN {1} \X Zones ELSE {}
      /\ igs = <<>> /\ routes = {} /\ unique = {}
      /\ groups \in IF made("lbsg") THEN {{1}}
                    ELSE IF made("vpc") THEN {{}, {1}} ELSE {{}}
      /\ \E ps \in (IF made("lbsg") THEN {Access} ELSE Occupied) :
           open = groups \X ps

NetworkStep(w) ==
  \/ VpcLook(w) \/ VpcCreate(w) \/ VpcModify(w) \/ VpcRead(w)
  \/ SubnetLook(w) \/ SubnetCreate(w) \/ SubnetRead(w)
  \/ GatewayLook(w) \/ GatewayCreate(w) \/ GatewayAttach(w)
  \/ TableRead(w) \/ RouteCreate(w)
  \/ GroupLook(w) \/ GroupCreate(w) \/ GroupRules(w) \/ GroupOpen(w)
  \/ UniqueLook(w) \/ UniqueCreate(w)
=============================================================================
