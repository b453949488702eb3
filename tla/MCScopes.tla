------------------------------ MODULE MCScopes ------------------------------
(* The instance of Scopes that TLC checks.                                   *)
EXTENDS Scopes, TLC

\* No construct tells one name from another, "self" excepted.
NameSymmetry == Permutations(Names \ {Self})
=============================================================================
