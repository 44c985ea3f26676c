--------------------------- MODULE MCProvisioning ---------------------------
(***************************************************************************)
(* An instance of Provisioning for TLC.  A deployment is looked at slice   *)
(* by slice: parts that share resources, with two clusters at once where   *)
(* clusters share them, with two runs of one cluster where they do not.    *)
(* Clusters are interchangeable.                                           *)
(***************************************************************************)
EXTENDS Provisioning, TLC

Cfg(services, path, frontend, size) ==
  [services |-> services, path |-> path, frontend |-> frontend, size |-> size]

Api == Cfg(<<"s1", "s2">>, "p1", FALSE, "small")
Web == Cfg(<<"s2">>, "p2", TRUE, "big")

(* One run of each cluster, or n runs of one. *)
OfBoth(done, parts, zones) ==
  {[done |-> done, parts |-> parts, runs |-> [c \in Clusters |-> 1],
    configs |-> {Api}, zones |-> zones]}

OfOne(done, parts, n, configs) ==
  {[done |-> done, parts |-> parts, runs |-> [c \in Clusters |-> IF c = d THEN n ELSE 0],
    configs |-> configs, zones |-> 1] : d \in Clusters}

InVpc == {"vpc", "sn", "lbsg", "key", "sg"}

(* Three zones are one too many for the two blocks of a VPC. *)
AllSlices ==
  UNION {OfBoth({}, {"vpc", "sn"}, 2), OfBoth({"vpc"}, {"sn"}, 3),
         OfBoth({}, {"vpc", "ig"}, 1), OfBoth({"vpc"}, {"lbsg"}, 1), OfBoth({}, {"cert"}, 1),
         OfOne({"vpc"}, {"key", "sg"}, 2, {Api}),
         OfOne({}, {"vpc", "sn", "lbsg", "lb"}, 1, {Api}),
         OfOne(InVpc \cup {"lb"}, {"cert", "listener"}, 1, {Api}),
         OfOne(InVpc \cup {"lb", "cert", "listener"}, {"tg", "rule"}, 2, {Api, Web}),
         OfOne(InVpc, {"node", "cleanup"}, 2, {Api}),
         OfOne(InVpc \cup {"tg"}, {"node", "target"}, 1, {Api, Web})}

(* None of the permissions, some, all, one of somebody else's. *)
SomeAccess == {{}, {<<80, "0.0.0.0/0">>, <<443, "::/0">>}, Access, {Foreign}}

(* Of a cluster that is not provisioned it does not matter what it has: no *)
(* servers, and nothing or the same target group for each service.         *)
MCInit ==
  /\ Init
  /\ \A c \in Clusters : slice.runs[c] = 0 =>
       /\ tgs[c] \in {[s \in Services |-> p] : p \in {None, "p1"}}
       /\ \A s \in DOMAIN servers : servers[s].cluster # c

MCSpec == MCInit /\ [][Next]_vars

Symmetry == Permutations(Clusters)
=============================================================================
