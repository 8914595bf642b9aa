---------------------------- MODULE MCRegStore ----------------------------
(* Constants for checking RegStore with TLC.                               *)
EXTENDS RegStore, TLC

CONSTANTS a, b

Owners == {a, b}
Users == Permutations(Owners)

AnyBlank == SUBSET Field
NoBlank == {{}}
=============================================================================
