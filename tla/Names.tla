-------------------------------- MODULE Names --------------------------------
(***************************************************************************)
(* Which C++ function a call of the source ends up in: a program of        *)
(* modules and calls, compiled by create_ast with the chains of names the  *)
(* Traverser collects and the macros it records in ex_aot_guards, linked   *)
(* against the functions create_managers names and the library's.          *)
(*                                                                         *)
(* A module is its path and its definitions [kind, name, arity]; a macro   *)
(* whose clauses have guards is a "defmacro when".  Modules within modules *)
(* end a session before they are linked (Transform), so a chain is one     *)
(* module and Kernel_.  The host runs every defmodule (Code.eval_quoted)   *)
(* before it is compiled, and refuses local calls that mean nothing or two *)
(* things.                                                                 *)
(***************************************************************************)
EXTENDS Resolution, FiniteSets

CONSTANTS
  Modules,   \* the modules a program may define
  Callable,  \* the calls it may make: [path, name, arity], Nowhere for local calls
  Library,   \* the C++ functions of the runtime, as definitions of modules
  MaxModules, MaxCalls  \* bounds on a program

Kinds == {"def", "defp", "defmacro", "defmacro when"}

Alias ==
  {a \in [parts : Seq(STRING) \ {<<>>}, dots : SUBSET Nat] : a.dots \subseteq 1..Len(a.parts) - 1}

\* when is a reserved word.
Name == Seq(STRING) \ {<<>>, <<"when">>}

KernelPath == [parts |-> <<"Kernel">>, dots |-> {}]

(* The host compiles a module only if what it defines under one name and   *)
(* number of arguments is of one kind.                                     *)
ASSUME ModulesAssumption ==
  \A m \in Modules :
    /\ m.path \in Alias \ {KernelPath}
    /\ m.defs \subseteq [kind : Kinds, name : Name, arity : Nat]
    /\ \A d, e \in m.defs : d.name = e.name /\ d.arity = e.arity => d = e

\* No program defines a module of the library.
ASSUME LibraryAssumption ==
  /\ Library \subseteq [path : Alias, kind : {"def"}, name : Name, arity : Nat]
  /\ \A d \in Library, m \in Modules : d.path # m.path

ASSUME NamesAssumption ==
  /\ Callable \subseteq [path : Alias \cup {Nowhere}, name : Name, arity : Nat]
  /\ MaxModules \in Nat /\ MaxCalls \in Nat

VARIABLES
  phase,    \* "main", "module" (the last one is being compiled) or "linked"
  program,  \* the modules so far, in order
  guards,   \* the names in ex_aot_guards
  calls,    \* the calls compiled so far and what was emitted for them
  pending   \* the calls in cases, compiled after the walk

vars == <<phase, program, guards, calls, pending>>

Definition(path, d) == [path |-> path, kind |-> d.kind, name |-> d.name, arity |-> d.arity]

DefinitionsOf(m) == {Definition(m.path, d) : d \in m.defs}

\* The names aotlib/ex/kernel.ex lists, without their arguments.
KernelNames == {<<"to", "string">>, <<"hd">>, <<"tl">>, <<"exit">>, <<"inspect">>}

KernelLevel ==
  [alias |-> create_module(KernelPath), names |-> {<<"def", f>> : f \in KernelNames}]

Current == program[Len(program)]

Macros(m) == {d \in m.defs : d.kind \in {"defmacro", "defmacro when"}}

(* What traverse_module takes for the name of a macro: the head of its     *)
(* definition is m(x), or when(m(x), guard).                               *)
HeadName(d) == IF d.kind = "defmacro when" THEN <<"when">> ELSE d.name

(* traverse_module: the names of def and defmacro; it has no clause for    *)
(* defp.                                                                   *)
Traversed(m) ==
  {<<"def", d.name>> : d \in {e \in m.defs : e.kind = "def"}}
    \cup {<<"macro", HeadName(d)>> : d \in Macros(m)}

Level(m) == [alias |-> create_module(m.path), names |-> Traversed(m)]

\* add_guard, for every defmacro.
GuardsOf(m) == {create_module(m.path) \o HeadName(d) : d \in Macros(m)}

\* Mutant: the guards are those of the current module.
GuardsReplaced(m) == GuardsOf(m)

WithGuards(m) == guards \cup GuardsOf(m)

\* The modules the host has, with their macros.
Loaded ==
  [modules |-> {program[i].path : i \in DOMAIN program} \cup {d.path : d \in Library},
   macros |-> UNION {{[path |-> program[i].path, macro |-> d.name, arity |-> d.arity] :
                        d \in Macros(program[i])} : i \in DOMAIN program}]

\* Mutant: the module being compiled is behind Kernel_.
ChainKernelFirst ==
  IF phase = "module" THEN <<KernelLevel, Level(Current)>> ELSE <<KernelLevel>>

\* The chain of the state a body is compiled in.
Chain == IF phase = "module" THEN <<Level(Current), KernelLevel>> ELSE <<KernelLevel>>

\* The arguments of a call, all nil.
Args(arity) == [i \in 1..arity |-> Emitted("nil", <<>>, <<>>)]

\* The C++ for a call.
Compile(c, state) == CreateCall(c.path, c.name, Args(c.arity), state)

-----------------------------------------------------------------------------
(* What a call means in Elixir.                                            *)

\* The definitions of the program, Kernel's and IO's included.
Elixir == Library \cup UNION {DefinitionsOf(program[i]) : i \in DOMAIN program}

\* The definitions a call in the module at path may mean.
MeantBy(c, path) ==
  {d \in Elixir : /\ d.name = c.name /\ d.arity = c.arity
                  /\ IF c.path = Nowhere THEN d.path \in {path, KernelPath}
                     ELSE d.path = c.path /\ d.kind # "defp"}

Here == IF phase = "module" THEN Current.path ELSE Nowhere

\* The host compiles a module only if each local call in it means one thing.
HostAccepts(c) ==
  phase = "module" /\ c.path = Nowhere => \E d \in Elixir : MeantBy(c, Here) = {d}

-----------------------------------------------------------------------------
Init ==
  /\ phase = "main"
  /\ program = <<>>
  /\ guards = {}
  /\ calls = {}
  /\ pending = {}

\* The compiler goes on as long as nothing was refused.
Going == \A c \in calls : c.emitted.type \notin {"refused", "diverges"}

\* defmodule, up to its body.
OpenModule(m) ==
  /\ Going /\ phase = "main"
  /\ Len(program) < MaxModules
  /\ \A i \in DOMAIN program : program[i].path # m.path
  /\ phase' = "module"
  /\ program' = Append(program, m)
  /\ guards' = WithGuards(m)
  /\ UNCHANGED <<calls, pending>>

\* A call as it stands in the source, after so many modules.
Made(c, place) == [call |-> c, place |-> place, from |-> Here, seen |-> Len(program)]

Compiled(made, state) ==
  [call |-> made.call, place |-> made.place, from |-> made.from, seen |-> made.seen,
   emitted |-> Compile(made.call, state)]

Ready(c) ==
  /\ Going /\ phase # "linked"
  /\ Cardinality(calls \cup pending) < MaxCalls
  /\ HostAccepts(c)

\* A call in a function or in main.
CompileCall(c) ==
  /\ Ready(c)
  /\ calls' = calls \cup {Compiled(Made(c, "body"), State("module", Chain, guards, Loaded))}
  /\ UNCHANGED <<phase, program, guards, pending>>

\* A call in the body or in a guard of a case.
MeetCallInCase(c) ==
  /\ Ready(c)
  /\ pending' = pending \cup {Made(c, "case")}
  /\ UNCHANGED <<phase, program, guards, calls>>

\* end
CloseModule ==
  /\ Going /\ phase = "module"
  /\ phase' = "main"
  /\ UNCHANGED <<program, guards, calls, pending>>

(* The walk is over: construct_case_condition compiles the cases in the    *)
(* state :normal, and the program is linked.                               *)
FinishWalk ==
  /\ Going /\ phase = "main"
  /\ phase' = "linked"
  /\ calls' = calls \cup {Compiled(made, State("normal", <<>>, guards, Loaded)) : made \in pending}
  /\ pending' = {}
  /\ UNCHANGED <<program, guards>>

Over == (phase = "linked" \/ ~Going) /\ UNCHANGED vars

Next ==
  \/ \E m \in Modules : OpenModule(m)
  \/ \E c \in Callable : CompileCall(c) \/ MeetCallInCase(c)
  \/ CloseModule
  \/ FinishWalk
  \/ Over

Spec == Init /\ [][Next]_vars

-----------------------------------------------------------------------------
(* The linked program.                                                     *)

\* The C++ function def and defp are compiled to; clauses of all arities share it.
CppName(d) == RemoteName(create_module(d.path), d.name)

Functions == {d \in Elixir : d.kind \in {"def", "defp"}}

\* The definitions with a clause for the call in the C++ function it was compiled to.
ReachedBy(c) ==
  {d \in Functions : c.emitted.type = "call" /\ CppName(d) = c.emitted.sym
                     /\ d.arity = c.call.arity}

\* A macro is one only after its module.
Meaning(c) ==
  {d \in MeantBy(c.call, c.from) :
     d \notin Functions => \E i \in 1..c.seen : program[i].path = d.path}

\* Names of different modules that differ only in dots and underscores.
WrittenAlike(p, f, q, g) == p # q /\ create_module(p) \o f = create_module(q) \o g

NamesOf(d) == {d.name, HeadName(d)}

\* No two definitions of the program and the library are written alike.
NoTwins ==
  \A d, e \in Elixir : \A f \in NamesOf(d), g \in NamesOf(e) : ~WrittenAlike(d.path, f, e.path, g)

Underscored(path) == path.dots # 1..Len(path.parts) - 1

IsLocal(c) == c.call.path = Nowhere

\* The modules a call may be compiled to a function or macro of.
Targets(c) == IF IsLocal(c) THEN {c.from, KernelPath} ELSE {c.call.path}

\* A function of the call's own module that the Traverser takes for what is called.
HiddenByOwn(c) == \E d \in Elixir : d.path = c.from /\ d.name = c.call.name /\ d.kind = "def"

Finished == phase = "linked" /\ Going

-----------------------------------------------------------------------------
(* A call of a public function, of a module of the program or the library, *)
(* ends in the definition it means and in no other, from wherever it is    *)
(* made: unless two definitions are written alike, or it is a local call   *)
(* in a case, of a function of Kernel that kernel.ex does not list, or of  *)
(* one that its module has a public function of the name of.               *)
PublicCallsArrive ==
  Finished /\ NoTwins =>
    \A c \in calls : \A d \in Meaning(c) :
      /\ d.kind = "def"
      /\ IsLocal(c) =>
           /\ c.place = "body"
           /\ d.path = c.from \/ (d.name \in KernelNames /\ ~HiddenByOwn(c))
      => ReachedBy(c) = {d}

(* No call ends in a definition it does not mean, but for one written like *)
(* the one that is meant, and for a private function, which other modules  *)
(* reach.                                                                  *)
WrongTargetExplained ==
  Finished =>
    \A c \in calls : \A d \in ReachedBy(c) \ Meaning(c) :
      \/ \E q \in Targets(c) : WrittenAlike(d.path, d.name, q, c.call.name)
      \/ d.kind = "defp" /\ d.path = c.call.path

(* A macro whose definition has no guard is never called at run time: a    *)
(* call that means one is expanded, or is not compiled to a call at all.   *)
MacrosExpanded ==
  Finished /\ NoTwins =>
    \A c \in calls : \A d \in Meaning(c) :
      d.kind = "defmacro" =>
        IF c.place = "case" /\ IsLocal(c) THEN c.emitted.type = "text"
        ELSE c.emitted.type = "macro" /\ c.emitted.sym = <<d.path, d.name>>

(* The compiler raises, or expands for ever, only at the call of a name    *)
(* that is a macro's: of a macro that takes another number of arguments,   *)
(* of one of the call's own module when that has an underscore in its      *)
(* name, or of one written like what is called.                            *)
RefusalExplained ==
  \A c \in calls : c.emitted.type \in {"refused", "diverges"} =>
    \E q \in Targets(c) : \E d \in Elixir \ Functions :
      \/ WrittenAlike(d.path, HeadName(d), q, c.call.name)
      \/ /\ d.path = q /\ d.name = c.call.name
         /\ d.arity = c.call.arity => IsLocal(c) /\ Underscored(q)

-----------------------------------------------------------------------------
(* aot_cli.ex has a module PrivacyTesting with defp test: a module calls   *)
(* its private functions.                                                  *)
PrivateCallsArrive ==
  \A c \in calls : \A d \in Meaning(c) :
    d.kind = "defp" /\ c.place = "body" => ReachedBy(c) = {d}
=============================================================================
