------------------------------- MODULE MCAtoms -------------------------------
(* Five names: enough for every order of first and repeated evaluations,   *)
(* and for exit statuses to wrap.                                          *)
EXTENDS Atoms
=============================================================================
