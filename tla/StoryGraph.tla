----------------------------- MODULE StoryGraph -----------------------------
(***************************************************************************)
(* The story a reader runs: a directed graph of parts, as story.End()      *)
(* returns it (fairytale/story/story.go).  Links[p] is part p's outgoing   *)
(* list (Part.Next), Prev(p) the incomming list that buildInnLinks derives *)
(* from it (Part.Prev).  Lists are kept as sets: only the arguments of a   *)
(* part depend on their order, see Wiring.                                 *)
(***************************************************************************)
EXTENDS Naturals, FiniteSets

CONSTANTS
  Part,   \* ids of the parts of the story
  Start,  \* story.IdStart
  Links   \* Part.Next, as a function to sets of parts

Prev(p) == {q \in Part : p \in Links[q]}

(* What the graph of a story is like: links lead to parts of the story,    *)
(* which End() checks, and nothing leads back to the start, which would    *)
(* close a cycle.  End() misses some of those (StoryBuilder, CyclesFound); *)
(* no story of the repository has one.                                     *)
ASSUME StoryAssumption ==
  /\ Start \in Part
  /\ Links \in [Part -> SUBSET Part]
  /\ \A p \in Part : Start \notin Links[p]
=============================================================================
