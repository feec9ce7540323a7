----------------------------- MODULE MCCollector -----------------------------
(* Three cells make a cons of two strings, or a string and a cons in a     *)
(* list and in a binding; the second scope is a copy or empty.             *)
EXTENDS Collector, TLC

Symmetric == Permutations(Addr) \cup Permutations(Vector)
=============================================================================
