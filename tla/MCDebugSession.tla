--------------------------- MODULE MCDebugSession ---------------------------
(* Model values for the debug session.                                     *)
EXTENDS DebugSession, TLC

FileSymmetry == Permutations(Files)
=============================================================================
