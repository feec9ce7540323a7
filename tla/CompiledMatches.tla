-------------------------- MODULE CompiledMatches --------------------------
(***************************************************************************)
(* Matches from the source to their outcome: the "=" clause of create_ast  *)
(* compiles a pattern and a value (CreateAst), Matcher carries the match   *)
(* out.  The functions of ExMatch are what it amounts to.                  *)
(***************************************************************************)
EXTENDS Matcher

CONSTANTS
  Patterns,  \* the left sides a program writes, as syntax trees
  Values     \* the right sides

A == INSTANCE CreateAst

CompiledPattern(left) == A!create_ast(left, A!MATCH)
CompiledValue(right) == A!create_ast(right, A!BODY)

\* A C++ compiler takes an emitted expression without Elixir text in it.
RECURSIVE Compiles(_)
Compiles(e) == e.type # "text" /\ \A i \in DOMAIN e.items : Compiles(e.items[i])

\* An object: nothing in it is computed.
RECURSIVE IsObject(_)
IsObject(e) ==
  e.type \notin {"text", "call", "get"} /\ \A i \in DOMAIN e.items : IsObject(e.items[i])

\* The [h | t] of a pattern, which has an object of its own.
Uncons(ast) == ast.op = "list" /\ Len(ast.args) = 1 /\ A!Bar(ast.args[1])

(* The parts of a tree that are compiled: the second element of a pair is  *)
(* not; of an [h | t] that is a pattern, h and t are.                      *)
RECURSIVE Kept(_, _)
Kept(ast, matching) ==
  LET parts == CASE A!Pair(ast) -> <<ast.args[1]>>
                 [] matching /\ Uncons(ast) -> ast.args[1].args
                 [] OTHER -> ast.args
  IN  {ast} \cup UNION {Kept(parts[i], matching \/ (ast.op = "match" /\ i = 1))
                        : i \in DOMAIN parts}

Operation(ast) == ast.op = "local" /\ ast.name \in A!BinaryOperators /\ Len(ast.args) = 2

\* What a pattern leaves as text: -1 and ^x are local calls.
TextInPattern(ast) ==
  ast.op \in {"quoted", "block"} \/ (ast.op = "local" /\ ~Operation(ast))

Literals == {"number", "atom", "string", "escaped", "nil", "tuple", "list"}

\* What is compiled to what it says: no pair, no escape.
Plain(ast, matching) ==
  \A t \in Kept(ast, matching) : ~A!Pair(t) /\ t.op # "escaped"

(* A pattern is C++ exactly if no part of it that is compiled is a block,  *)
(* a string with a quotation mark or a local call other than the binary    *)
(* operators; it is an object exactly if these parts are literals and      *)
(* variables, so that an operator, a remote call and a match in a pattern  *)
(* are computed before there is a pattern.  And a pattern and a value that *)
(* are matched are the objects that were written, exactly if there was no  *)
(* tuple of two elements, of which the first is compiled, and no backslash *)
(* in a string.                                                            *)
CompiledAsWritten ==
  /\ \A l \in Patterns :
       /\ Compiles(CompiledPattern(l)) <=> \A t \in Kept(l, TRUE) : ~TextInPattern(t)
       /\ IsObject(CompiledPattern(l)) <=>
            \A t \in Kept(l, TRUE) : t.op \in Literals \cup {"var"}
  /\ \A r \in Values :
       IsObject(CompiledValue(r)) <=> \A t \in Kept(r, FALSE) : t.op \in Literals
  /\ Made("match") =>
       /\ \A l \in Patterns : CompiledPattern(l) = Target.left =>
            (Target.left = A!Denoted(l) <=> Plain(l, TRUE))
       /\ \A r \in Values : CompiledValue(r) = Target.right =>
            (Target.right = A!Denoted(r) <=> Plain(r, FALSE))

(* What the steps of a call amount to, to the binding and to the end, is   *)
(* what the recursive functions of ExMatch compute at once.                *)
AgreesWithExMatch ==
  /\ Ended("match") =>
       A!ExMatch_pattern(Target.left, Target.right, start) = A!Ended(bind, how)
  /\ Ended("equals") =>
       how = IF A!ExObject_equals(Target.left, Target.right) THEN "match" ELSE "nomatch"

(* What MATCH_ERROR announces ("cannot match values"): a value that does   *)
(* not match is refused by an ExObject exception, the one kind that        *)
(* tryMatch turns into "try the next clause".                              *)
RefusalsAreMatchErrors ==
  Ended("match") /\ ~A!ElixirMatches(A!Untagged(Target.left), A!Untagged(Target.right)) =>
    how \in {"nomatch", "match"}
=============================================================================
