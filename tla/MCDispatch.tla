----------------------------- MODULE MCDispatch -----------------------------
(* One function of three clauses and one case of two, matched by ExMatch:  *)
(* partial writes before a mismatch, a guard that rejects, a guard that    *)
(* throws, a name the caller may have bound already, an empty list met by  *)
(* a cons pattern and an argument no clause accepts all occur.             *)
EXTENDS Dispatch

M == INSTANCE ExMatch

x == M!EX_VAR("x")
y == M!EX_VAR("y")
one == M!EX_NUMBER("1")
two == M!EX_NUMBER("2")
none == M!EX_LIST(<<>>)
twoList == M!EX_LIST(<<two>>)
pair == M!EX_LIST(<<one, two>>)

MCVar == {"x", "y"}
MCValue == {one, two, none, twoList, pair}

C(pattern, guard) == [pattern |-> pattern, guard |-> guard]

FirstClauses  == <<C(M!EX_LIST(<<x, one>>), "true"),
                   C(M!EX_CONS(x, y), "x is one"),
                   C(M!EX_LIST(<<x>>), "true")>>
CaseClauses   == <<C(x, "x is one"), C(M!EX_CONS(one, x), "y is one")>>

MCFun == {"f"}
MCCase == {"k"}
MCClause == {FirstClauses[i] : i \in 1..3} \cup {CaseClauses[i] : i \in 1..2}
MCClausesOf == [g \in {"f", "k"} |-> IF g = "f" THEN FirstClauses ELSE CaseClauses]

MCOutcome(c, v) == M!ExMatch_pattern(c.pattern, v, Empty).how
MCWrites(c, v) == M!ExMatch_pattern(c.pattern, v, Empty).bind

IsOne(b, name) ==
  IF b[name] = Unbound THEN "throw" ELSE IF b[name] = one THEN "true" ELSE "false"

MCGuard(c, b) ==
  CASE c.guard = "true" -> "true"
    [] c.guard = "x is one" -> IsOne(b, "x")
    [] c.guard = "y is one" -> IsOne(b, "y")
=============================================================================
