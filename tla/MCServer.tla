------------------------------ MODULE MCServer ------------------------------
(***************************************************************************)
(* Two environments with repositories of two revisions: the second has one *)
(* system less and one more, other files, and a directory of package       *)
(* managers before the new system.                                         *)
(***************************************************************************)
EXTENDS Environments

Dirs(names) == [i \in DOMAIN names |->
                  [name |-> names[i],
                   kind |-> IF names[i] \in {"features", "files"} THEN names[i]
                            ELSE IF names[i] = "packageManagers" THEN "other"
                            ELSE "system"]]

MCRevisions ==
  << [dirs |-> Dirs(<<"a", "features", "b", "files">>), files |-> {"f"}],
     [dirs |-> Dirs(<<"a", "packageManagers", "z">>), files |-> {"g"}] >>

MCMaxFaults == [k \in FaultKind |-> 1]
=============================================================================
