------------------------------ MODULE StoryRun ------------------------------
(***************************************************************************)
(* What a story reader promises, whatever its queue, its workers and its   *)
(* bookkeeping do: a run begins with its start part, a part is issued only *)
(* once every part that leads to it is done in the same run, and what is   *)
(* issued or done stays so.  Repeatable and Reader implement it.           *)
(***************************************************************************)
EXTENDS StoryGraph

CONSTANT Run       \* run ids (uuids in the code)

VARIABLES
  issued,          \* {<<run, part>>} whose event is on the stream
  done             \* {<<run, part>>} whose event was acknowledged with data

Task == Run \X Part

PrevDone(r, p) == \A q \in Prev(p) : <<r, q>> \in done

Init ==
  /\ issued = {}
  /\ done = {}

(* A new run begins: its start part is issued. *)
Begin(r) ==
  /\ \A p \in Part : <<r, p>> \notin issued
  /\ issued' = issued \cup {<<r, Start>>}
  /\ UNCHANGED done

(* A part becomes runnable when every part before it is done. *)
Issue(r, p) ==
  /\ p # Start
  /\ PrevDone(r, p)
  /\ issued' = issued \cup {<<r, p>>}
  /\ UNCHANGED done

(* An issued part is executed. *)
Finish(r, p) ==
  /\ <<r, p>> \in issued
  /\ done' = done \cup {<<r, p>>}
  /\ UNCHANGED issued

Next == \E r \in Run, p \in Part : Begin(r) \/ Issue(r, p) \/ Finish(r, p)

Spec == Init /\ [][Next]_<<issued, done>>

-----------------------------------------------------------------------------

TypeOK ==
  /\ issued \in SUBSET Task
  /\ done \in SUBSET Task

(* No part is executed, or even queued, before the parts it takes its      *)
(* input from: the order the links of a story prescribe.                   *)
DependencyOrder ==
  /\ done \subseteq issued
  /\ \A r \in Run, p \in Part : <<r, p>> \in issued => PrevDone(r, p)

=============================================================================
