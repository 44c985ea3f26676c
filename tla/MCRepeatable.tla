---------------------------- MODULE MCRepeatable ----------------------------
(***************************************************************************)
(* Instances of Repeatable for TLC: a diamond story, in which two parts    *)
(* run at once and a third waits for both, and, for the larger instances,  *)
(* a shorter one in which the end waits for the start and for a.           *)
(***************************************************************************)
EXTENDS Repeatable, TLC

CONSTANTS a, b, end

Diamond == {Start, a, b, end}
DiamondLinks ==
  (Start :> {a, b}) @@ (a :> {end}) @@ (b :> {end}) @@ (end :> {})

Short == {Start, a, end}
ShortLinks == (Start :> {a, end}) @@ (a :> {end}) @@ (end :> {})

NoFaults == [k \in FaultKind |-> 0]
CrashAndLoss ==
  [NoFaults EXCEPT !["slow"] = 1, !["crash"] = 1, !["werr"] = 1]
Failing == [NoFaults EXCEPT !["fail"] = 1]
FailAndPanic == [NoFaults EXCEPT !["fail"] = 1, !["panic"] = 1]

(* Workers are alike, and so are the two parts in the middle.              *)
Symmetry == Permutations(Worker) \cup Permutations({a, b})
=============================================================================
