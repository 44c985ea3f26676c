------------------------------ MODULE MCStories ------------------------------
(***************************************************************************)
(* An instance of Fairytale for TLC; the stories that are given to New as  *)
(* they are are those of MCWiring.                                         *)
(*                                                                         *)
(* Builders: every graph of the start and three nodes, and every one of    *)
(* two nodes with links to the end and to c, which nobody defined, or to   *)
(* the end and back to the start.                                          *)
(***************************************************************************)
EXTENDS MCWiring, Fairytale

Nodes == {"a", "b", "c"}

Linked(defs, f) ==
  [defs |-> <<IdStart>> \o defs \o <<IdEnd>>,
   out  |-> [n \in {IdStart, IdEnd} \cup ToSet(defs) |->
               IF n = IdEnd THEN {} ELSE f[n]]]

(* Links with loops and cycles, parts that cannot be reached included. *)
Graphs ==
  {Linked(<<"a", "b", "c">>, f) : f \in [Nodes \cup {IdStart} -> SUBSET Nodes]}
  \cup
  {Linked(<<"a", "b">>, f) :
     f \in [{IdStart, "a", "b"} -> SUBSET (Nodes \cup {IdEnd})]}
  \cup
  {Linked(<<"a", "b">>, f) :
     f \in [{IdStart, "a", "b"} -> SUBSET {IdStart, IdEnd, "a", "b"}]}

(* Types of their own, or the start's. *)
MCTypes ==
  {[n \in Nodes \cup {StartName, EndName} |-> IF n \in own THEN n ELSE T] :
     own \in {Nodes \cup {EndName}, {"b", "c", EndName}}}

(* What End() returns and the readers' New agree on what a story is: one   *)
(* whose adapters require what its links say is accepted, unless a node    *)
(* cannot be reached, and each of its parts runs; so does the deployment   *)
(* but for its end.                                                        *)
StoriesRun ==
  /\ InnerPartsRun
  /\ pc = "ok" /\ verdict # "none" =>
       /\ B!Blank \notin ToSet(nodes) => verdict # "rejected"
       /\ \A p \in ToSet(nodes) : outcome[p] \in {"waiting", "done"}

=============================================================================
