----------------------------- MODULE Transform -----------------------------
(***************************************************************************)
(* A compiler session: ElixirAOT.Transformator.transform run on one prompt *)
(* after another by one process (ElixirAOT.CLI), over the ETS tables that  *)
(* carry its state from one step of the walk to the next and, when they    *)
(* are not cleared, from one prompt to the next.                           *)
(*                                                                         *)
(* A prompt is the syntax tree the walk visits: a sequence of items        *)
(* [op, name, fn, arity, line, body].  Emitted code is reduced to the set  *)
(* of C++ functions it calls.  By op, an item is                           *)
(*   "module"  defmodule; name is its alias, as in Resolution;             *)
(*   "def"     def and defp; fn is the name, in parts;                     *)
(*   "macro"   defmacro without a guard;                                   *)
(*   "case"    case and if; body is the code of all the clauses;           *)
(*   "call"    a call of fn in the module name, the calls in its arguments *)
(*             standing behind it; body is what the host makes of it when  *)
(*             it is a macro's: calls and text;                            *)
(*   "local"   a local call that was found to mean fn of the module name   *)
(*             (one that means a macro has become a "call");               *)
(*   "text"    what no C++ compiler takes: Elixir's text of a syntax tree, *)
(*             a block or a string with a quotation mark in an expression, *)
(*             a name that is none in C++.                                 *)
(* What the host is given to evaluate, modules and macros, ends; it may    *)
(* end with an exception (Refusable).                                      *)
(*                                                                         *)
(* An exception ends the process, and a new one starts from nothing; or it *)
(* is rescued, as a shell rescues what it evaluates, and the next prompt   *)
(* meets the tables as the exception left them.                            *)
(***************************************************************************)
EXTENDS Resolution, FiniteSets, Functions

CONSTANTS
  Prompts,     \* the programs typed in
  Refusable,   \* the modules and calls of macros the host can raise for
  Ids,         \* what Enum.random(0..@clause_identifier_limit) can yield
  MaxPrompts   \* bound on the prompts of a session

ASSUME TransformAssumption == MaxPrompts \in Nat

VARIABLES
  phase,            \* "idle", "walk", "cases" or "crashed"
  ets,              \* the live named tables, with their contents
  registry,         \* the rows of ex_aot_ets_registry
  module_registry,  \* the rows of ex_aot_module_table_registry
  todo,             \* the items the walk has still to visit
  frames,           \* the code being built, the innermost last
  program,          \* the C++ program of the latest prompt
  host,             \* the modules loaded into the compiler's own Elixir
  session,          \* the prompts so far (history)
  since,            \* the first of them in this process (history)
  rescued,          \* an exception was rescued in this process (history)
  drawn,            \* the clauses of the latest prompt, in source order (history)
  emitted           \* what became calls and text in its code (history)

history == <<session, since, rescued, drawn, emitted>>

vars == <<phase, ets, registry, module_registry, todo, frames, program, host, history>>

-----------------------------------------------------------------------------
(* Names of tables, which are also the names of the C++ functions made     *)
(* from them; ExRemote_ functions are named by their function's table.     *)
Includes == <<"ex_aot_includes">>
ModulesTable == <<"ex_aot_modules">>
Predefines == <<"ex_aot_predefines">>
PurgeTargets == <<"ex_aot_purge_targets">>
GuardsTable == <<"ex_aot_guards">>
CasesTable == <<"ex_aot_cases">>
FunctionsList == <<"ex_aot_functions_list">>
ProcessedFunctions == <<"ex_aot_processed_functions">>

\* The name of a function: A.f_g and A_f.g are both A_f_g.
Written(alias, f) == create_module(alias) \o f

ModuleTable(m) == <<"module", create_module(m)>>
FunctionTable(m, f) == <<"function", Written(m, f)>>
ClauseTable(m, f, id) == <<"clause", Written(m, f), id>>
CaseTable(id) == <<"case", id>>

\* The function a clause belongs to (def_original_name).
FunctionOf(clause) == <<"function", clause[2]>>

\* What an item is called in C++; text is nobody's name.
NameOf(item) ==
  IF item.op = "text" THEN <<"text">> ELSE FunctionTable(item.name, item.fn)

SetupTables == {Includes, ModulesTable, Predefines, PurgeTargets, GuardsTable, CasesTable}

\* A table that has just been made; tables of one row hold its tuple.
Fresh(table) == IF table \in {ModulesTable, Predefines, GuardsTable} THEN {} ELSE <<>>

NoTables == [table \in {} |-> {}]

(* :ets.new for the tables that are not there yet.                         *)
Created(tables, names) ==
  [t \in DOMAIN tables \cup names |-> IF t \in DOMAIN tables THEN tables[t] ELSE Fresh(t)]

\* Mutant: the tables of a module are not deleted at its end.
DeletedButModules(tables, names) ==
  Restrict(tables, DOMAIN tables \ (names \cap SetupTables))

\* :ets.delete
Deleted(tables, names) == Restrict(tables, DOMAIN tables \ names)

\* Mutant: append_ets_table puts the new element first.
Prepended(tables, name, element) == [tables EXCEPT ![name] = <<element>> \o @]

\* append_ets_table: the table is made anew with the longer tuple.
Appended(tables, name, element) == [tables EXCEPT ![name] = Append(@, element)]

\* Mutant: the predefines share one row.
PredefinedLatest(tables, names) == [tables EXCEPT ![Predefines] = names]

\* add_predefine
Predefined(tables, names) == [tables EXCEPT ![Predefines] = @ \cup names]

Frame(kind, name) == [kind |-> kind, name |-> name, calls |-> {}]

InnerFrame == frames[Len(frames)]

\* The code being built calls some more functions.
Calling(names) == [frames EXCEPT ![Len(frames)].calls = @ \cup names]

\* What stands behind the body of a module or a def.
EndOf(kind) ==
  [op |-> "end", name |-> Nowhere, fn |-> <<kind>>, arity |-> 0, line |-> 0, body |-> <<>>]

Next_item(op) == todo # <<>> /\ todo[1].op = op

\* The body of the innermost frame has been visited.
Leaving(kind) == todo # <<>> /\ todo[1] = EndOf(kind) /\ InnerFrame.kind = kind

NoProgram == [declared |-> {}, called |-> {}, cases |-> <<>>, modules |-> {}]

-----------------------------------------------------------------------------
(* Macros.                                                                 *)

Inner(m) == {i \in Range(m.body) : i.op = "module"}

WithInner(modules) == modules \cup UNION {Inner(m) : m \in modules}

(* What add_guard records when the module is traversed: the names of its   *)
(* macros and, under their own aliases, of the macros of modules in it.    *)
GuardsOf(m) ==
  UNION {{Written(n.name, d.fn) : d \in {b \in Range(n.body) : b.op = "macro"}}
         : n \in WithInner(WithInner({m}))}

Recorded(tables, m) == [tables EXCEPT ![GuardsTable] = @ \cup GuardsOf(m)]

\* ensure_guard
Guarded(item) == item.op = "call" /\ Written(item.name, item.fn) \in ets[GuardsTable]

\* The module has the macro that is called, and of so many arguments.
HasMacro(m, call) ==
  \E d \in Range(m.body) : d.op = "macro" /\ d.fn = call.fn /\ d.arity = call.arity

\* A module i in m as the host knows it, by the alias m.i.
Under(m, i) ==
  [i EXCEPT !.name = [parts |-> m.name.parts \o @.parts,
                      dots  |-> m.name.dots \cup {Len(m.name.parts) + d : d \in @.dots \cup {0}}]]

\* The modules Code.eval_quoted defines.
Loads(m) ==
  LET inner(n) == {Under(n, i) : i \in Inner(n)}
  IN  {m} \cup inner(m) \cup UNION {inner(i) : i \in inner(m)}

\* Modules of the same alias are replaced.
Loaded(m) == {n \in host : \A l \in Loads(m) : n.name # l.name} \cup Loads(m)

Callee(call) == {m \in host : m.name = call.name}

-----------------------------------------------------------------------------
(* An exception, with the tables as it finds them.                         *)
Raise(tables) ==
  /\ phase' = "crashed"
  /\ ets' = tables
  /\ todo' = <<>>
  /\ frames' = <<>>
  /\ UNCHANGED <<program, host, history>>

Init ==
  /\ phase = "idle"
  /\ ets = NoTables
  /\ registry = {}
  /\ module_registry = {}
  /\ todo = <<>>
  /\ frames = <<>>
  /\ program = NoProgram
  /\ host = {}
  /\ session = <<>>
  /\ since = 1
  /\ rescued = FALSE
  /\ drawn = <<>>
  /\ emitted = {}

\* Mutant: the table of cases is made without a row in the registry.
NewRowsButCases == SetupTables \ (DOMAIN ets \cup {CasesTable})

\* Processing.create_table records the tables that were not there.
NewRows == SetupTables \ DOMAIN ets

\* transform up to its first create_ast (ElixirAOT.Processing.setup).
StartTransform(prompt) ==
  /\ phase = "idle"
  /\ Len(session) < MaxPrompts
  /\ phase' = "walk"
  /\ ets' = Created(ets, SetupTables)
  /\ registry' = registry \cup NewRows
  /\ todo' = prompt
  /\ frames' = <<Frame("main", <<"main">>)>>
  /\ program' = NoProgram
  /\ session' = Append(session, prompt)
  /\ drawn' = <<>>
  /\ emitted' = {}
  /\ UNCHANGED <<module_registry, host, since, rescued>>

\* A step at the item in front, in the walk or in a case.
At(op) == phase \in {"walk", "cases"} /\ Next_item(op)

\* The code gets the items, and the walk goes on with the rest.
Emit(items, rest) ==
  /\ frames' = Calling({NameOf(i) : i \in items})
  /\ emitted' = emitted \cup items
  /\ todo' = rest
  /\ UNCHANGED <<phase, ets, registry, module_registry, program, host, session, since, rescued, drawn>>

\* Mutant: the walk does not go on behind a call.
CompileCallAgain ==
  /\ At("call") /\ ~Guarded(todo[1])
  /\ frames' = Calling({NameOf(todo[1])})
  /\ UNCHANGED <<phase, ets, registry, module_registry, todo, program, host, history>>

\* Module.function(...), no macro
CompileCall == At("call") /\ ~Guarded(todo[1]) /\ Emit({todo[1]}, Tail(todo))

\* construct_headless_call_ast
CompileLocal == At("local") /\ Emit({todo[1]}, Tail(todo))

LeaveText == At("text") /\ Emit({todo[1]}, Tail(todo))

\* defmacro: the host has it.
SkipMacro == At("macro") /\ Emit({}, Tail(todo))

\* The host expands the call, and what it yields is compiled.
ExpandMacro ==
  /\ At("call") /\ Guarded(todo[1])
  /\ \E m \in Callee(todo[1]) : HasMacro(m, todo[1])
  /\ Emit({}, todo[1].body \o Tail(todo))

(* Macro.expand returns what is no macro of the host's as it is, and       *)
(* create_ast meets the same call again.                                   *)
ExpandAgain ==
  /\ At("call") /\ Guarded(todo[1])
  /\ \E m \in Callee(todo[1]) : ~HasMacro(m, todo[1])
  /\ UNCHANGED vars

\* require of a module the host does not have
RequireRaises ==
  /\ At("call") /\ Guarded(todo[1])
  /\ Callee(todo[1]) = {}
  /\ Raise(ets)
  /\ UNCHANGED <<registry, module_registry>>

\* Code.eval_quoted of a module or of a macro's call
HostRaises ==
  /\ (phase = "walk" /\ Next_item("module")) \/ (At("call") /\ Guarded(todo[1]) /\ Callee(todo[1]) # {})
  /\ todo[1] \in Refusable
  /\ Raise(ets)
  /\ UNCHANGED <<registry, module_registry>>

(* case and if: the clauses are kept as they are in the case's own table   *)
(* and compiled by get_cases after the walk.                               *)
CompileCase(id) ==
  LET name == CaseTable(id)
      made == Appended(Created(Predefined(ets, {name}), {name}), CasesTable, name)
  IN  /\ At("case")
      /\ ets' = [made EXCEPT ![name] = @ \o todo[1].body]
      /\ registry' = IF name \in DOMAIN ets THEN registry ELSE registry \cup {name}
      /\ frames' = Calling({name})
      /\ todo' = Tail(todo)
      /\ UNCHANGED <<phase, module_registry, program, host, history>>

\* Mutant: the list of functions is left to the first def.
ModuleTableAlone(m) == {ModuleTable(m)}

\* The tables defmodule makes before its body is visited.
TablesOfModule(m) == {ModuleTable(m), FunctionsList}

(* defmodule: the host loads the module, its tables are made, its macros   *)
(* are recorded, and its body is visited.                                  *)
OpenModule ==
  LET tables == TablesOfModule(todo[1].name) IN
  /\ phase = "walk" /\ Next_item("module")
  /\ host' = Loaded(todo[1])
  /\ ets' = Recorded(Created(ets, tables), todo[1])
  /\ module_registry' = module_registry \cup tables
  /\ frames' = Append(frames, Frame("module", todo[1].name))
  /\ todo' = todo[1].body \o <<EndOf("module")>> \o Tail(todo)
  /\ UNCHANGED <<phase, registry, program, history>>

\* def and defp up to create_return_block, which visits the body.
OpenDef(id) ==
  /\ phase = "walk" /\ Next_item("def")
  /\ InnerFrame.kind = "module"
  /\ LET clause == ClauseTable(InnerFrame.name, todo[1].fn, id)
     IN  /\ frames' = Append(frames, Frame("def", clause))
         /\ drawn' = Append(drawn, clause)
  /\ todo' = todo[1].body \o <<EndOf("def")>> \o Tail(todo)
  /\ UNCHANGED <<phase, ets, registry, module_registry, program, host, session, since, rescued, emitted>>

\* Mutant: only the clause's table is registered for deletion.
ClauseTables(clause) == {clause}

\* The tables of a clause.
TablesOfClause(clause) == {clause, FunctionOf(clause)}

(* The rest of def: unless the clause's table is there already, it and the *)
(* function's are made; then the clause is recorded in three tables.       *)
CloseDef ==
  LET clause == InnerFrame.name
      isNew == clause \notin DOMAIN ets
      made == Created(ets, IF isNew THEN {clause, FunctionOf(clause)} ELSE {})
      row == [Predefined(made, {clause}) EXCEPT ![clause] = InnerFrame.calls]
  IN  /\ phase = "walk" /\ Leaving("def")
      /\ module_registry' =
           IF isNew THEN module_registry \cup TablesOfClause(clause) ELSE module_registry
      /\ IF FunctionsList \notin DOMAIN ets
         THEN Raise(row) /\ UNCHANGED registry
         ELSE /\ ets' = Appended(Appended(row, FunctionsList, clause), FunctionOf(clause), clause)
              /\ frames' = SubSeq(frames, 1, Len(frames) - 1)
              /\ todo' = Tail(todo)
              /\ UNCHANGED <<phase, registry, program, host, history>>

(* create_managers makes one function for each name, at its first clause.  *)
FirstClauses(clauses) ==
  {i \in DOMAIN clauses : \A j \in 1..i - 1 : FunctionOf(clauses[j]) # FunctionOf(clauses[i])}

(* create_module_functions: the clauses, and the ExRemote_ functions that  *)
(* try them in order.                                                      *)
ModuleCode ==
  LET clauses == ets[FunctionsList] IN
  [clauses  |-> clauses,
   calls    |-> UNION {ets[clauses[i]] : i \in DOMAIN clauses},
   managers |-> {[at |-> i, function |-> FunctionOf(clauses[i]),
                  clauses |-> ets[FunctionOf(clauses[i])]] : i \in FirstClauses(clauses)}]

(* The end of defmodule; terminate_module_tables deletes what is left of   *)
(* every table any module has registered.                                  *)
CloseModule ==
  /\ phase = "walk" /\ Leaving("module")
  /\ module_registry' = module_registry \cup {ProcessedFunctions}
  /\ UNCHANGED registry
  /\ IF FunctionsList \notin DOMAIN ets
     THEN Raise(Created(ets, {ProcessedFunctions}))
     ELSE LET filled == [Predefined(ets, {m.function : m \in ModuleCode.managers})
                           EXCEPT ![ModulesTable] = @ \cup {ModuleCode}]
              outer == SubSeq(frames, 1, Len(frames) - 1)
          IN  /\ ets' = Deleted(filled, module_registry')
              /\ frames' = [outer EXCEPT ![Len(outer)].calls = @ \cup InnerFrame.calls]
              /\ todo' = Tail(todo)
              /\ UNCHANGED <<phase, program, host, history>>

\* Mutant: only the first case is asked for.
TooManyNever(cases) == FALSE

\* construct_cases has no clause for the row.
TooMany(cases) == Len(cases) > 1

(* The walk is over: transform reads the predefines, then get_cases reads  *)
(* the row of ex_aot_cases, which construct_cases takes apart with a       *)
(* pattern of one element before it reads the table the row names.         *)
FinishWalk ==
  LET cases == ets[CasesTable] IN
  /\ phase = "walk" /\ todo = <<>> /\ Len(frames) = 1
  /\ IF TooMany(cases) \/ ~(Range(cases) \subseteq DOMAIN ets)
     THEN Raise(ets) /\ UNCHANGED <<registry, module_registry>>
     ELSE /\ phase' = "cases"
          /\ program' = [program EXCEPT !.declared = ets[Predefines], !.cases = cases]
          /\ IF cases = <<>> THEN UNCHANGED <<todo, frames>>
             ELSE /\ todo' = ets[cases[1]]
                  /\ frames' = Append(frames, Frame("case", cases[1]))
          /\ UNCHANGED <<ets, registry, module_registry, host, history>>

(* The tables terminate has deleted when it meets a row without a table:   *)
(* they go by name, ExCase... first, and only cases' tables can be gone.   *)
DeletedBefore(missing) ==
  {t \in registry : t[1] = "case" /\ \A gone \in missing : t[2] < gone[2]}

(* The cases are compiled: the modules are read, and terminate deletes     *)
(* every table in the registry, whose rows stay.                           *)
FinishTransform ==
  LET missing == registry \ DOMAIN ets IN
  /\ phase = "cases" /\ todo = <<>>
  /\ IF missing # {}
     THEN Raise(Deleted(ets, DeletedBefore(missing))) /\ UNCHANGED <<registry, module_registry>>
     ELSE /\ phase' = "idle"
          /\ ets' = Deleted(ets, registry)
          /\ program' = [program EXCEPT
                           !.called = UNION ({frames[i].calls : i \in DOMAIN frames}
                                             \cup {m.calls : m \in ets[ModulesTable]}),
                           !.modules = ets[ModulesTable]]
          /\ frames' = <<>>
          /\ UNCHANGED <<registry, module_registry, todo, host, history>>

\* The process died, and its tables with it; a new one takes the next prompt.
Restart ==
  /\ phase = "crashed"
  /\ phase' = "idle"
  /\ ets' = NoTables
  /\ registry' = {}
  /\ module_registry' = {}
  /\ since' = Len(session) + 1
  /\ rescued' = FALSE
  /\ host' = {}
  /\ UNCHANGED <<todo, frames, program, session, drawn, emitted>>

\* The exception was rescued; the process keeps its tables.
Rescue ==
  /\ phase = "crashed"
  /\ phase' = "idle"
  /\ rescued' = TRUE
  /\ UNCHANGED <<ets, registry, module_registry, todo, frames, program, host, session, since, drawn,
                 emitted>>

Over ==
  /\ phase = "idle" /\ Len(session) = MaxPrompts
  /\ UNCHANGED vars

\* The steps of transform behind its first.
Walk ==
  \/ CompileCall \/ CompileLocal \/ LeaveText \/ SkipMacro
  \/ ExpandMacro \/ ExpandAgain \/ RequireRaises \/ HostRaises
  \/ \E id \in Ids : CompileCase(id) \/ OpenDef(id)
  \/ OpenModule \/ CloseDef \/ CloseModule
  \/ FinishWalk \/ FinishTransform

Next ==
  \/ \E prompt \in Prompts : StartTransform(prompt)
  \/ Walk
  \/ Restart \/ Rescue
  \/ Over

Spec == Init /\ [][Next]_vars

-----------------------------------------------------------------------------
(* What can be said of a prompt before it is compiled.                     *)

\* items and what is directly in them; what is in a case is not walked.
Opened(items) == items \cup UNION {Range(i.body) : i \in {j \in items : j.op # "case"}}

\* An item and what the walk can visit in it; bodies are nested at most three deep.
Inside(item) == Opened(Opened(Opened({item})))

Walked(prompt) == UNION {Inside(i) : i \in Range(prompt)}

OuterCases(prompt) == {i \in Walked(prompt) : i.op = "case"}

\* What the walk and the cases can visit.
Visited(prompt) ==
  Walked(prompt) \cup UNION {UNION {Inside(i) : i \in Range(c.body)} : c \in OuterCases(prompt)}

\* No item stands in two places: they have lines of their own.
Apart(items) == \A j, k \in DOMAIN items : j # k => Inside(items[j]) \cap Inside(items[k]) = {}

\* What a parser yields, as far as the walk can tell.
Parsed(prompt) ==
  /\ prompt \in Seq(Walked(prompt)) /\ Apart(prompt)
  /\ \A i \in Visited(prompt) :
       /\ i.op \in {"module", "def", "macro", "case", "call", "local", "text"}
       /\ i.op \in {"macro", "local", "text"} => i.body = <<>>
       /\ i.op = "call" => \A d \in Inside(i) : d.op \in {"call", "text"}
       /\ i.body \in Seq(Range(i.body))
       /\ Opened(Inside(i)) = Inside(i)
  /\ \A i \in Walked(prompt) :
       /\ i.op # "case" => i.body \in Seq(Walked(prompt)) /\ Apart(i.body)
       /\ \A d \in Range(i.body) : i \notin Inside(d)
       /\ i.op = "def" => \E m \in Walked(prompt) : m.op = "module" /\ i \in Range(m.body)

ASSUME PromptsAssumption == \A p \in Prompts : Parsed(p)

ModulesOf(prompt) == {i \in Walked(prompt) : i.op = "module"}

HasTwoCases(prompt) == \E c, d \in OuterCases(prompt) : c # d

HasNestedCase(prompt) == \E c \in OuterCases(prompt) : \E i \in Range(c.body) : i.op = "case"

\* In a module directly, or in a def of it.
HasNestedModule(prompt) ==
  \E m \in ModulesOf(prompt) : \E i \in Inside(m) : i # m /\ i.op = "module"

HasRefusable(prompt) == Visited(prompt) \cap Refusable # {}

(* A call is taken for a macro's, and there is a module of its alias, or   *)
(* one that was taken for it, that does not have the macro.                *)
MistakesMacro(prompt) ==
  \E i \in Visited(prompt), m, n \in ModulesOf(prompt) :
    /\ i.op = "call" /\ Written(i.name, i.fn) \in GuardsOf(m)
    /\ n.name = i.name \/ n = m
    /\ ~(n.name = i.name /\ HasMacro(n, i))

\* The functions the module defines.
FunctionsIn(m) == {FunctionTable(m.name, d.fn) : d \in {b \in Range(m.body) : b.op = "def"}}

\* No two modules, or one module defined twice, have functions of one name.
NamesOnce(prompt) ==
  \A m, n \in ModulesOf(prompt) : m # n => FunctionsIn(m) \cap FunctionsIn(n) = {}

Latest == session[Len(session)]

\* All that was emitted are calls of functions of the prompt.
Resolved ==
  \A i \in emitted : i.op # "text" /\ \E m \in ModulesOf(Latest) : NameOf(i) \in FunctionsIn(m)

UsedCaseBefore == \E k \in since..Len(session) - 1 : OuterCases(session[k]) # {}

\* The latest prompt has been compiled; none of this process was rescued before.
Compiled == phase = "idle" /\ ~rescued /\ Len(session) >= since

Managers == UNION {m.managers : m \in program.modules}

\* The C++ functions the program defines.
Defined ==
  Range(program.cases) \cup {g.function : g \in Managers}
    \cup UNION {Range(m.clauses) : m \in program.modules}

Distinct(s) == \A i, j \in DOMAIN s : i # j => s[i] # s[j]

\* The clauses are those of s that belong to f, in the order of s.
Selects(clauses, s, f) ==
  LET places == {i \in DOMAIN s : FunctionOf(s[i]) = f} IN
  \E at \in [DOMAIN clauses -> places] :
    /\ Range(at) = places
    /\ \A j, k \in DOMAIN clauses : j < k => at[j] < at[k]
    /\ \A k \in DOMAIN clauses : clauses[k] = s[at[k]]

-----------------------------------------------------------------------------
(* The shape of the session's state; the setup tables are there whenever a *)
(* prompt is being compiled, whatever was compiled before.                 *)
TypeOK ==
  /\ phase \in {"idle", "walk", "cases", "crashed"}
  /\ phase \in {"walk", "cases"} => SetupTables \subseteq DOMAIN ets \cap registry
  /\ \A i \in DOMAIN frames : frames[i].kind \in {"main", "module", "def", "case"}

(* A table is in one of the two registries as long as it lives, so there   *)
(* is someone to delete it, also after an exception was rescued.           *)
TablesAccounted == DOMAIN ets \subseteq registry \cup module_registry

(* Between prompts no table is left, unless an exception was rescued:      *)
(* whatever was registered where, what defmodule did not delete terminate  *)
(* did, so a prompt starts from empty tables and no function of an earlier *)
(* one leaks into its program.                                             *)
IdleClean == phase = "idle" /\ ~rescued => DOMAIN ets = {}

(* An exception has five reasons only: a module inside a module (its end   *)
(* deletes the outer one's tables), a second case or if in one prompt      *)
(* (construct_cases takes one), a prompt after one with a case (its table  *)
(* is still in ex_aot_ets_registry), a call that is taken for a macro's by *)
(* its joined name only (require does not find its module), and what the   *)
(* host itself refuses.                                                    *)
CrashExplained ==
  phase = "crashed" /\ ~rescued =>
    \/ HasNestedModule(Latest)
    \/ HasTwoCases(Latest)
    \/ UsedCaseBefore
    \/ MistakesMacro(Latest)
    \/ HasRefusable(Latest)

(* ... and the first three let no prompt through, except that an           *)
(* identifier drawn a second time can stand in for the table that is gone. *)
SurvivalExplained ==
  Compiled =>
    /\ ~HasNestedModule(Latest)
    /\ ~HasTwoCases(Latest)
    /\ UsedCaseBefore => OuterCases(Latest) # {}

(* The program declares what it defines and nothing else, the clauses an   *)
(* ExRemote_ function tries among it.  If no text is left and it calls its *)
(* own functions only, it links exactly if no case is inside a case, whose *)
(* function would be called and never made, or the two have drawn one      *)
(* identifier.                                                             *)
Links ==
  Compiled =>
    /\ program.declared = Defined
    /\ \A g \in Managers : Range(g.clauses) \subseteq program.declared
    /\ Resolved =>
         (program.called \subseteq program.declared
            <=> \/ ~HasNestedCase(Latest)
                \/ {c \in program.called : c[1] = "case"} \subseteq Range(program.cases))

(* Every function has one ExRemote_ that tries its clauses in the order of *)
(* the source, clauses of other functions in between or not, in one module *)
(* or several, unless two modules have functions of one joined name.       *)
ManagersFollowSource ==
  Compiled /\ NamesOnce(Latest) =>
    \A f \in {FunctionOf(c) : c \in Range(drawn)} :
      /\ Cardinality({g \in Managers : g.function = f}) = 1
      /\ \A g \in Managers :
           g.function = f => Selects(g.clauses, drawn, f)

(* Every clause of the source is defined; if no two modules have functions *)
(* of one joined name, in one module, and twice there exactly if another   *)
(* clause of its function drew its identifier.                             *)
OneDefinition ==
  Compiled =>
    /\ UNION {Range(m.clauses) : m \in program.modules} = Range(drawn)
    /\ NamesOnce(Latest) =>
         /\ (\A m \in program.modules : Distinct(m.clauses)) <=> Distinct(drawn)
         /\ \A m, n \in program.modules :
              m # n => Range(m.clauses) \cap Range(n.clauses) = {}

(* A process in which a prompt with two cases was rescued, or died of an   *)
(* earlier case with two known, compiles no prompt again: terminate is     *)
(* never reached, so the row stays.                                        *)
Doomed ==
  /\ phase \in {"idle", "walk", "crashed"}
  /\ CasesTable \in DOMAIN ets /\ Len(ets[CasesTable]) > 1

PoisonedForGood == [][Doomed /\ since' = since => Doomed']_vars

-----------------------------------------------------------------------------
(* "ElixirAOT is a tool for converting Elixir AST to CPP code" (README.md) *)
(* and, typed at the prompt of ElixirAOT.CLI, one program after another:   *)
(* transform returns the code.                                             *)
SessionGoesOn == phase # "crashed"
=============================================================================
