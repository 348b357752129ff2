------------------------------- MODULE MCVaults -------------------------------
(* An instance of Vaults for TLC: a and b have the same name in different     *)
(* directories, c is inside a folder.                                         *)
EXTENDS Vaults
CONSTANTS a, b, c

PlaceOf == [f \in Files |-> IF f = c THEN "folder/name" ELSE "name"]
TwoChoices == {<<a, b>>, <<c, a>>}
OlderVault == {NoVault, <<[file |-> a, type |-> "file", size |-> 1]>>}
=============================================================================
