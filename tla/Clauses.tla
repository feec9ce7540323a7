------------------------------- MODULE Clauses -------------------------------
(***************************************************************************)
(* What a generated program consists of, seen from its dispatch code: the  *)
(* functions (ExRemote_...) and cases (ExCase...) with their clauses in    *)
(* source order.  Matching and guards are parameters; ExMatch says what    *)
(* matching is.                                                            *)
(***************************************************************************)
EXTENDS Environment

CONSTANTS
  Fun,            \* functions: a clause starts from an empty binding
  Case,           \* cases: a clause starts from a copy of the caller's
  Clause,
  ClausesOf,      \* the clauses of each function and case, in source order
  Outcome(_, _),  \* how matching a clause's pattern with a value ends
  Writes(_, _),   \* the names that match writes, with their values
  Guard(_, _)     \* what the clause's guard yields on a binding

Callee == Fun \cup Case

Outcomes == {"match", "nomatch", "foreign", "undefined"}

ASSUME ClausesAssumption ==
  /\ Fun \cap Case = {}
  /\ ClausesOf \in [Callee -> Seq(Clause)]
  /\ \A c \in Clause, v \in Value : /\ Outcome(c, v) \in Outcomes
                                    /\ Writes(c, v) \in Binding
  /\ \A c \in Clause, b \in Binding : Guard(c, b) \in {"true", "false", "throw"}

\* The binding a clause of g is matched in, when b is the caller's.
Base(g, b) == IF g \in Fun THEN Empty ELSE b

\* The binding the guard and the body of clause c see first.
Bound(c, v, b) == Insert(b, Writes(c, v))

Accepts(c, v, b) == Outcome(c, v) = "match" /\ Guard(c, Bound(c, v, b)) = "true"

Rejects(c, v, b) ==
  \/ Outcome(c, v) = "nomatch"
  \/ Outcome(c, v) = "match" /\ Guard(c, Bound(c, v, b)) = "false"

\* All clauses of g before the k-th reject v.
FirstUpTo(g, k, v, b) == \A j \in 1..k - 1 : Rejects(ClausesOf[g][j], v, b)
=============================================================================
