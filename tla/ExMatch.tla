------------------------------- MODULE ExMatch -------------------------------
(***************************************************************************)
(* The pattern matcher every "=", every function clause and every case     *)
(* clause is compiled to: ExMatch_pattern and ExMatch_tryMatch of          *)
(* aotlib.cpp.                                                             *)
(*                                                                         *)
(* A match is a function of the two objects and the binding on top of the  *)
(* scope stack; it yields the binding afterwards and how the call ended:   *)
(*   "match"     it returned;                                              *)
(*   "nomatch"   it threw an ExObject, which tryMatch turns into false;    *)
(*   "foreign"   it threw std::out_of_range, which no handler in the       *)
(*               program catches;                                          *)
(*   "undefined" it reinterpreted a scalar as a pointer to a vector.       *)
(* The recursion is over the pattern, so only TLC uses this module;        *)
(* Matcher has the same functions step by step.                            *)
(***************************************************************************)
EXTENDS Objects, SequencesExt

CONSTANT Unbound   \* marks a name a binding does not hold

(* ExObject_equals on two objects: vectors and scalars are compared member *)
(* by member, variables are never equal.  Of two cons cells the heads are  *)
(* compared and the tail of a with itself, which only fails when there is  *)
(* a variable in it.                                                       *)
RECURSIVE ExObject_equals(_, _)
ExObject_equals(a, b) ==
  /\ a.type = b.type
  /\ a.type # "var"
  /\ IF a.type = "cons"
     THEN ExObject_equals(a.items[1], b.items[1]) /\ ExObject_equals(a.items[2], a.items[2])
     ELSE /\ a.sym = b.sym
          /\ Len(a.items) = Len(b.items)
          /\ \A i \in DOMAIN a.items : ExObject_equals(a.items[i], b.items[i])

(* ExEnvironment::write: insert keeps the entry a name already has.        *)
WriteName(b, x, o) == IF b[x] = Unbound THEN [b EXCEPT ![x] = o] ELSE b

Ended(b, how) == [bind |-> b, how |-> how]

RECURSIVE ExMatch_pattern(_, _, _)

(* The loop over the elements: each one goes through tryMatch, the first   *)
(* that does not match throws again, and what was written stays written.   *)
MatchItems(lefts, rights, b) ==
  FoldLeft(LAMBDA r, i : IF r.how # "match" THEN r
                         ELSE ExMatch_pattern(lefts[i], rights[i], r.bind),
           Ended(b, "match"), [i \in DOMAIN lefts |-> i])

(* A list pattern takes a tuple and a tuple pattern a list: only the       *)
(* lengths are compared.  A cons pattern splits off the first element      *)
(* without asking whether there is one.                                    *)
ExMatch_pattern(left, right, b) ==
  CASE left.type = "var" -> Ended(WriteName(b, left.sym, right), "match")
    [] left.type \in {"list", "tuple", "cons"} /\ ~IsVector(right) ->
         Ended(b, "undefined")
    [] IsVector(left) /\ IsVector(right) ->
         IF Len(left.items) # Len(right.items) THEN Ended(b, "nomatch")
         ELSE MatchItems(left.items, right.items, b)
    [] left.type = "cons" /\ IsVector(right) ->
         IF right.items = <<>> THEN Ended(b, "foreign")
         ELSE MatchItems(left.items, SplitFirst(right), b)
    [] OTHER -> Ended(b, IF ExObject_equals(left, right) THEN "match"
                         ELSE "nomatch")

-----------------------------------------------------------------------------
(* What Elixir means by a match: some choice of values for the names of    *)
(* the pattern makes the pattern equal to the value.                       *)

RECURSIVE VarsOf(_), Parts(_), Fill(_, _), Untagged(_)

VarsOf(p) ==
  IF p.type = "var" THEN {p.sym}
  ELSE UNION {VarsOf(p.items[i]) : i \in DOMAIN p.items}

\* The objects a name of a pattern can stand for in a match with v.
Parts(v) ==
  {v} \cup UNION {Parts(v.items[i]) : i \in DOMAIN v.items}
      \cup {EX_LIST(SubSeq(v.items, i, Len(v.items))) : i \in 1..Len(v.items) + 1}

(* The value the pattern p denotes when its names stand for sigma; with a  *)
(* tail that is no list, a cons is an improper list, which is no value.    *)
Fill(p, sigma) ==
  CASE p.type = "var" -> sigma[p.sym]
    [] p.type = "cons" ->
         LET head == Fill(p.items[1], sigma)
             tail == Fill(p.items[2], sigma)
         IN  IF tail.type = "list" THEN EX_LIST(<<head>> \o tail.items) ELSE EX_CONS(head, tail)
    [] OTHER -> [p EXCEPT !.items = [i \in DOMAIN @ |-> Fill(@[i], sigma)]]

\* The object with the difference between lists and tuples forgotten.
Untagged(o) ==
  [o EXCEPT !.type = IF @ = "tuple" THEN "list" ELSE @,
            !.items = [i \in DOMAIN @ |-> Untagged(@[i])]]

ElixirMatches(p, v) ==
  \E sigma \in [VarsOf(p) -> Parts(v)] : Fill(p, sigma) = v
=============================================================================
