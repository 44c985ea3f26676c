------------------------------ MODULE MCReader ------------------------------
(* An instance of Reader for TLC: the end waits for the start and for a,   *)
(* which is the second part the start leads to.                            *)
EXTENDS Reader, TLC

CONSTANTS a, end

Short == {Start, a, end}
ShortLinks == (Start :> {a, end}) @@ (a :> {end}) @@ (end :> {})

(* A part whose id is refused is passed over, as one that is not written.  *)
Once == [k \in FaultKind |-> IF k = "refuse" THEN 0 ELSE 1]
=============================================================================
