--------------------------- MODULE MCHostActions ---------------------------
(***************************************************************************)
(* Instances of HostActions for TLC.  A channel holds one action instead   *)
(* of ten, so that it is full as soon as a second one is sent.             *)
(***************************************************************************)
EXTENDS HostActions

Breaking == [k \in FaultKind |-> 1]
=============================================================================
