------------------------------ MODULE CreateAst ------------------------------
(***************************************************************************)
(* create_ast (ElixirAOT.Transformator) on expressions: literals,          *)
(* variables, operators, calls, matches and blocks.                        *)
(*                                                                         *)
(* A syntax tree is a record of one shape: op, name (the payload of a      *)
(* scalar, a variable's name, or the name called), path (the alias of a    *)
(* remote call) and args.  The list [a, b | t] is the list of a and the    *)
(* local call |(b, t), and -1 is the local call -(1), as in Elixir's own   *)
(* trees.  Strings are of three kinds: "quoted" ones have a quotation mark *)
(* in them, "escaped" ones a backslash, the others neither.  Emitted C++   *)
(* is an object of Objects when it is built from constructors only.        *)
(***************************************************************************)
EXTENDS ExMatch, Resolution

Tree(op, name, path, args) == [op |-> op, name |-> name, path |-> path, args |-> args]

Pair(ast) == ast.op = "tuple" /\ Len(ast.args) = 2

Bar(ast) == ast.op = "local" /\ ast.name = <<"|">> /\ Len(ast.args) = 2

BinaryOperators ==
  {<<o>> : o \in {"+", "-", "*", "/", "<>", "<", ">", "<=", ">=", "==", "!="}}

\* The states of a body that calls no function of its module, and of a pattern.
BODY == State("module", <<>>, {}, [modules |-> {}, macros |-> {}])
MATCH == State("match", <<>>, {}, [modules |-> {}, macros |-> {}])

RECURSIVE create_ast(_, _)

\* Mutant: the elements of a list are compiled from the last to the first.
create_all_reversed(args, state) ==
  [i \in DOMAIN args |-> create_ast(args[Len(args) + 1 - i], state)]

\* create_curly_list
create_all(args, state) == [i \in DOMAIN args |-> create_ast(args[i], state)]

(* A string is put between quotation marks as it is: one in it ends the    *)
(* literal, and of a backslash C++ makes an escape.                        *)
Literal(ast) ==
  CASE ast.op = "quoted" -> Emitted("text", ast.name, <<>>)
    [] ast.op = "escaped" -> Scalar("string", "escape of " \o ast.name)
    [] OTHER -> Scalar(ast.op, ast.name)

(* The clauses of create_ast.  A tuple of two elements is its own syntax   *)
(* tree and meets the clause {expr, _}, which compiles the first; [h | t]  *)
(* is a cons in a pattern only; a match is a call, in a pattern too; a     *)
(* block is statements in braces and no expression.                        *)
create_ast(ast, state) ==
  LET args == create_all(ast.args, state)
      matching == state.kind = "match"
      operator == ast.op = "local" /\ ast.name \in BinaryOperators /\ Len(ast.args) = 2
  IN  CASE ast.op \in {"number", "atom", "string", "quoted", "escaped", "nil"} -> Literal(ast)
        [] ast.op = "var" -> IF matching THEN EX_VAR(ast.name) ELSE Emitted("get", ast.name, <<>>)
        [] Pair(ast) -> create_ast(ast.args[1], state)
        [] ast.op = "tuple" /\ ~Pair(ast) -> EX_TUPLE(args)
        [] ast.op = "list" /\ matching /\ Len(ast.args) = 1 /\ Bar(ast.args[1]) ->
             LET parts == create_all(ast.args[1].args, state) IN EX_CONS(parts[1], parts[2])
        [] ast.op = "block" -> Emitted("text", "braces", args)
        [] ast.op = "match" ->
             Emitted("call", <<"ExMatch_pattern">>,
                     <<create_ast(ast.args[1], MATCH), create_ast(ast.args[2], state)>>)
        [] operator -> Emitted("call", ast.name, args)
        [] ast.op \in {"local", "remote"} /\ ~operator ->
             CreateCall(ast.path, ast.name, args, state)
        [] OTHER -> EX_LIST(args)

-----------------------------------------------------------------------------
(* What a literal or a pattern of literals and variables denotes.          *)
RECURSIVE Denoted(_)
Denoted(ast) ==
  LET args == [i \in DOMAIN ast.args |-> Denoted(ast.args[i])]
      n == Len(ast.args)
  IN  CASE ast.op = "var" -> EX_VAR(ast.name)
        [] ast.op = "tuple" -> EX_TUPLE(args)
        [] ast.op = "list" /\ n > 0 /\ Bar(ast.args[n]) ->
             FoldRight(EX_CONS, SubSeq(args, 1, n - 1),
                       EX_CONS(Denoted(ast.args[n].args[1]), Denoted(ast.args[n].args[2])))
        [] ast.op = "list" /\ (n = 0 \/ ~Bar(ast.args[n])) -> EX_LIST(args)
        [] OTHER -> Scalar(IF ast.op \in {"quoted", "escaped"} THEN "string" ELSE ast.op, ast.name)
=============================================================================
