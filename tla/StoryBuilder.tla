---------------------------- MODULE StoryBuilder ----------------------------
(***************************************************************************)
(* story.End() (fairytale/story/story.go): the builder's nodes are sorted, *)
(* starting at the start and following the links (sortGraph), the sorted   *)
(* graph is searched for cycles (validateAsyclic), and the nodes become    *)
(* the story.                                                              *)
(*                                                                         *)
(* A story under construction is the sequence of its nodes' ids in the     *)
(* order of definition, End() adding IdEnd when it is not there, and their *)
(* outgoing lists.  These are sets here: sortGraph goes through a list in  *)
(* any order.  Indices count from 1.                                       *)
(***************************************************************************)
EXTENDS Naturals, FiniteSets, SequencesExt

CONSTANTS
  IdStart, IdEnd,
  Inputs     \* builders: [defs : sequence of ids, out : ids to sets of ids]

(* The zero value of part: an entry of nodes that sortGraph did not fill. *)
Blank == "blank"

VARIABLES
  input,     \* b.nodes when End() is called
  nodes,     \* the slice sortGraph builds
  i, cur,    \* its counters
  todo,      \* outgoing links of nodes[cur] not looked at yet
  pc         \* "sort", "validate", or what End() returned

vars == <<input, nodes, i, cur, todo, pc>>

Defs == ToSet(input.defs)
N    == Len(input.defs)

(* Nodes link from nowhere but from the builder; IdEnd has no links. *)
Out(n) == IF n \in Defs THEN input.out[n] ELSE {}

(* What Start, Id and LinkTo collect: the start and, added by End(), the    *)
(* end, which leads nowhere, are among the nodes, and every id is a name.  *)
IsBuilder(b) ==
  /\ b.defs \in Seq(ToSet(b.defs))
  /\ {IdStart, IdEnd} \subseteq ToSet(b.defs)
  /\ b.out[IdEnd] = {}
  /\ Blank \notin ToSet(b.defs) \cup UNION {b.out[n] : n \in ToSet(b.defs)}

Init ==
  /\ input \in Inputs /\ IsBuilder(input)
  /\ nodes = [k \in 1 .. Len(input.defs) |-> IF k = 1 THEN IdStart ELSE Blank]
  /\ i = 2 /\ cur = 1
  /\ todo = input.out[IdStart]
  /\ pc = "sort"

Before == {nodes[k] : k \in 1 .. cur - 1}
From   == {nodes[k] : k \in cur .. N}
IndexOf(n) == CHOOSE k \in DOMAIN nodes : nodes[k] = n

Look(n) == pc = "sort" /\ n \in todo /\ todo' = todo \ {n}

(* The end is placed last, and what is still ahead is looked at later. *)
LinkSkip(n) ==
  /\ Look(n)
  /\ n = IdEnd \/ n \in From \ Before
  /\ UNCHANGED <<input, nodes, i, cur, pc>>

(* A node that was passed already changes places with the current one. *)
LinkSwap(n) ==
  /\ Look(n)
  /\ n # IdEnd /\ n \in Before
  /\ nodes' = [nodes EXCEPT ![IndexOf(n)] = nodes[cur], ![cur] = n]
  /\ UNCHANGED <<input, i, cur, pc>>

LinkMissing(n) ==
  /\ Look(n)
  /\ n # IdEnd /\ n \notin Before \cup From /\ n \notin Defs
  /\ pc' = "ErrMissingNode"
  /\ UNCHANGED <<input, nodes, i, cur>>

LinkNew(n) ==
  /\ Look(n)
  /\ n # IdEnd /\ n \notin Before \cup From /\ n \in Defs
  /\ nodes' = [nodes EXCEPT ![i] = n]
  /\ i' = i + 1
  /\ UNCHANGED <<input, cur, pc>>

(* Mutant: the end goes behind the last part placed.                       *)
NextNodeEndEarly ==
  /\ pc = "sort" /\ todo = {}
  /\ cur' = IF i <= N /\ cur < N THEN cur + 1 ELSE cur
  /\ IF i <= N /\ cur' < N
     THEN todo' = Out(nodes[cur']) /\ UNCHANGED <<nodes, pc>>
     ELSE /\ nodes' = [nodes EXCEPT ![i] = IdEnd]
          /\ pc' = "validate"
          /\ UNCHANGED todo
  /\ UNCHANGED <<input, i>>

(* The next node's links, or, at the last place, the end. *)
NextNode ==
  /\ pc = "sort" /\ todo = {}
  /\ cur' = IF i <= N /\ cur < N THEN cur + 1 ELSE cur
  /\ IF i <= N /\ cur' < N
     THEN todo' = Out(nodes[cur']) /\ UNCHANGED <<nodes, pc>>
     ELSE /\ nodes' = [nodes EXCEPT ![cur'] = IdEnd]
          /\ pc' = "validate"
          /\ UNCHANGED todo
  /\ UNCHANGED <<input, i>>

(* Mutant: a branch that is fine ends the search.                          *)
WalkFirstBranch ==
  LET all == ToSet(nodes)
      walk[seen \in SUBSET all] ==
        [n \in all |->
           IF n \in seen THEN {"ErrSyclicGraph"}
           ELSE IF Out(n) = {} THEN {"ok"}
           ELSE IF ~(Out(n) \subseteq all) THEN {"panic"}
           ELSE walk[seen \cup {n}][CHOOSE m \in Out(n) : TRUE]]
  IN  walk[{}][nodes[1]]

(* validateAsyclic from the first node: what it may return.  A link that   *)
(* leads out of the slice makes it index -1.                               *)
Walk ==
  LET all == ToSet(nodes)
      walk[seen \in SUBSET all] ==
        [n \in all |->
           IF n \in seen THEN {"ErrSyclicGraph"}
           ELSE LET found == (UNION {walk[seen \cup {n}][m] : m \in Out(n) \cap all}) \ {"ok"}
                    panic == IF Out(n) \subseteq all THEN {} ELSE {"panic"}
                IN  IF found \cup panic = {} THEN {"ok"} ELSE found \cup panic]
  IN  walk[{}][nodes[1]]

Validate ==
  /\ pc = "validate"
  /\ pc' \in Walk
  /\ UNCHANGED <<input, nodes, i, cur, todo>>

Next ==
  \/ \E n \in todo : LinkSkip(n) \/ LinkSwap(n) \/ LinkMissing(n) \/ LinkNew(n)
  \/ NextNode
  \/ Validate

Spec == Init /\ [][Next]_vars

-----------------------------------------------------------------------------
(* What End() is for, said without the algorithm.                          *)

(* Nodes that can be reached from those of a set along the links. *)
ReachedFrom(from) ==
  LET step[k \in 0 .. N] ==
        IF k = 0 THEN from ELSE step[k-1] \cup UNION {Out(n) : n \in step[k-1]}
  IN  step[N]

Reachable  == ReachedFrom({IdStart})
Undefined  == Reachable \ Defs
Cyclic     == \E n \in Reachable \cap Defs : n \in ReachedFrom(Out(n))

(* A link back to the start makes LinkSwap move the start away from the    *)
(* first place, where Walk begins: a cycle may then be missed.             *)
BackToStart == \E n \in Reachable : IdStart \in Out(n)

Results == {"ok", "ErrMissingNode", "ErrSyclicGraph", "panic"}

(* End() returns the story exactly when everything that can be reached     *)
(* from the start is defined and free of cycles, and otherwise the error   *)
(* that says which of the two it is; it never panics.                      *)
ResultRight ==
  pc \in Results /\ ~BackToStart =>
    pc = IF Undefined # {} THEN "ErrMissingNode"
         ELSE IF Cyclic THEN "ErrSyclicGraph" ELSE "ok"

(* The swaps lose and double no node: a story starts with the start, ends  *)
(* with the end, and has every reachable node once in between; nodes that  *)
(* cannot be reached leave blanks.                                         *)
StoryComplete ==
  pc = "ok" /\ ~BackToStart =>
    /\ nodes[1] = IdStart /\ nodes[N] = IdEnd
    /\ \A n \in Reachable : Cardinality({k \in 1 .. N : nodes[k] = n}) = 1
    /\ \A k \in 1 .. N : nodes[k] \in Reachable \cup {Blank, IdEnd}
=============================================================================
