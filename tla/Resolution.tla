----------------------------- MODULE Resolution -----------------------------
(***************************************************************************)
(* Which function a call is compiled to: the names create_ast              *)
(* (ElixirAOT.Transformator) makes of modules, the search of the Traverser *)
(* for the module a local call means, and the macros.                      *)
(*                                                                         *)
(* An identifier is the sequence of its parts between underscores, so that *)
(* joining names by "_" is concatenation.  The alias of a module is such a *)
(* sequence and the positions followed by a dot in place of an underscore: *)
(* A_B is [parts |-> <<"A", "B">>, dots |-> {}], A.B is the same with      *)
(* dots |-> {1}.                                                           *)
(***************************************************************************)
EXTENDS Sequences, Integers

(* Emitted C++: a call of a C++ function ("call"), a look-up in            *)
(* EX_ENVIRONMENT ("get"), Kernel.inspect's text of a tree ("text"), which *)
(* no C++ compiler accepts; and beside these an expanded macro ("macro")   *)
(* and a compiler that raises ("refused") or never returns ("diverges").   *)
Emitted(type, sym, items) == [type |-> type, sym |-> sym, items |-> items]

\* No alias: the call is a local one.
Nowhere == [parts |-> <<>>, dots |-> {}]

(* What is compiled in: a module's body has the chain of the enclosing     *)
(* modules, innermost first, each with the names its traversal found, and  *)
(* what the session knows of macros (guards: the names written in          *)
(* ex_aot_guards; loaded: the host's modules and their macros).            *)
State(kind, chain, guards, loaded) ==
  [kind |-> kind, chain |-> chain, guards |-> guards, loaded |-> loaded]

\* create_module: every dot becomes an underscore.
create_module(path) == path.parts

\* Mutant: the alias is one name.
AliasWhole(alias) == [parts |-> alias, dots |-> {}]

(* generate_remote_alias: every underscore of the joined name becomes a    *)
(* dot, those within the module's own name too.                            *)
generate_remote_alias(alias) == [parts |-> alias, dots |-> 1..Len(alias) - 1]

\* The levels of a chain that have the name in their list.
Levels(chain, name) == {i \in DOMAIN chain : name \in chain[i].names}

(* traverse_state_list: the alias of the innermost module that has the     *)
(* name in its list.                                                       *)
traverse_state_list(chain, name) ==
  chain[CHOOSE i \in Levels(chain, name) : \A j \in Levels(chain, name) : i <= j].alias

\* Mutant: the module is left out.
RemoteNameBare(alias, name) == <<"ExRemote">> \o name

\* create_remote: the C++ name of a function.
RemoteName(alias, name) == <<"ExRemote">> \o (alias \o name)

(* A remote call of a name in ex_aot_guards is expanded by the host, which *)
(* must have the module; a call that is no macro of this many arguments    *)
(* comes back as it was and is expanded again.                             *)
CreateRemote(path, name, args, state) ==
  LET macro == [path |-> path, macro |-> name, arity |-> Len(args)] IN
  IF create_module(path) \o name \notin state.guards
  THEN Emitted("call", RemoteName(create_module(path), name), args)
  ELSE CASE path \notin state.loaded.modules -> Emitted("refused", <<>>, <<>>)
         [] macro \in state.loaded.macros -> Emitted("macro", <<path, name>>, args)
         [] OTHER -> Emitted("diverges", <<>>, <<>>)

(* A call with no module: first the macros, then the functions of the      *)
(* enclosing modules, whatever the number of arguments; what is in neither *)
(* list is taken for a variable.                                           *)
CreateLocal(name, args, state) ==
  LET alias(kind) == traverse_state_list(state.chain, <<kind, name>>)
      listed(kind) == Levels(state.chain, <<kind, name>>) # {}
  IN  CASE listed("macro") ->
             CreateRemote(generate_remote_alias(alias("macro")), name, args, state)
        [] ~listed("macro") /\ listed("def") ->
             Emitted("call", RemoteName(alias("def"), name), args)
        [] OTHER -> Emitted("get", name, <<>>)

\* A call; a local one outside modules meets the last clause of create_ast.
CreateCall(path, name, args, state) ==
  CASE path # Nowhere -> CreateRemote(path, name, args, state)
    [] path = Nowhere /\ state.kind = "module" -> CreateLocal(name, args, state)
    [] OTHER -> Emitted("text", name, <<>>)
=============================================================================
