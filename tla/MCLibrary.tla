------------------------------ MODULE MCLibrary ------------------------------
(* Literals of every type that are written alike or nearly so: :true and   *)
(* "true", ":" to put before it, 1 and "1", numbers that differ in the     *)
(* seventh or eighth digit, whole ones and fractions; the empty string;    *)
(* patterns with [h | t] alone and in a list.                              *)
EXTENDS Library

MCNumbers ==
  {Decimal(1, 0), Decimal(1234567, 0), Decimal(1234568, 0),
   Decimal(1234567, -7), Decimal(12345671, -8), Decimal(123457, -6)}
MCLiterals ==
  {Number(n) : n \in MCNumbers}
    \cup {EX_ATOM("true"), EX_STRING("true"), EX_STRING(":"), EX_NIL, EX_LIST(<<>>)}
MCTexts == {"", "1"}

Uncons == EX_CONS(EX_VAR("h"), EX_VAR("t"))
MCPatterns == {EX_LIST(<<EX_VAR("h"), EX_ATOM("true")>>), Uncons, EX_LIST(<<Uncons, EX_ATOM("true")>>)}
=============================================================================
