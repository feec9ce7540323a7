----------------------------- MODULE NamesProofs -----------------------------
(* Which function a call ends in, for any modules, any library and any     *)
(* number of calls: proofs of the properties of Names.                     *)
EXTENDS Names, SequenceTheorems, TLAPS

-----------------------------------------------------------------------------
(* Joined names.                                                           *)

LEMMA JoinedEqual ==
  ASSUME NEW S, NEW s \in Seq(S), NEW t \in Seq(S), NEW u \in Seq(S), s \o t = s \o u
  PROVE  t = u
<1>1. Len(t) = Len(u)
  OBVIOUS
<1>2. ASSUME NEW i \in 1..Len(t) PROVE t[i] = u[i]
  <2>1. (s \o t)[Len(s) + i] = t[i] /\ (s \o u)[Len(s) + i] = u[i]
    BY <1>1
  <2>. QED  BY <2>1
<1>. QED  BY <1>1, <1>2, SeqEqual

\* The provers do not take literals for members of STRING.
Word == STRING \cup {"ExRemote", "Kernel", "when"}

Parts == Seq(Word)

LEMMA SeqMonotone == ASSUME NEW S, NEW T, S \subseteq T PROVE Seq(S) \subseteq Seq(T)
OBVIOUS

LEMMA StringParts == Seq(STRING) \subseteq Parts
BY SeqMonotone, Zenon DEF Parts, Word

LEMMA JoinedParts ==
  ASSUME NEW s \in Parts, NEW t \in Parts, NEW u \in Parts
  PROVE  /\ s \o t \in Parts
         /\ s \o t = s \o u => t = u
<1>1. s \o t \in Parts
  BY DEF Parts
<1>2. ASSUME s \o t = s \o u PROVE t = u
  BY <1>2, JoinedEqual, Zenon DEF Parts
<1>. QED  BY <1>1, <1>2

LEMMA OnePart == ASSUME NEW S, NEW x \in S PROVE <<x>> \in Seq(S)
OBVIOUS

LEMMA RemoteNames ==
  ASSUME NEW a \in Parts, NEW f \in Parts, NEW b \in Parts, NEW g \in Parts,
         RemoteName(a, f) = RemoteName(b, g)
  PROVE  a \o f = b \o g
<1>1. <<"ExRemote">> \in Parts
  <2>1. "ExRemote" \in Word
    BY DEF Word
  <2>. QED  BY <2>1, OnePart, Zenon DEF Parts
<1>2. a \o f \in Parts /\ b \o g \in Parts
  BY JoinedParts
<1>. QED  BY <1>1, <1>2, JoinedParts, Zenon DEF RemoteName

LEMMA NameParts == \A f \in Name : f \in Parts /\ f # <<>> /\ f # <<"when">>
BY StringParts DEF Name

LEMMA AliasParts ==
  ASSUME NEW p \in Alias \cup {Nowhere}
  PROVE  /\ create_module(p) \in Parts
         /\ p \in Alias <=> create_module(p) # <<>>
         /\ p \in Alias <=> p # Nowhere
<1>1. CASE p \in Alias
  <2>1. p.parts \in Seq(STRING) /\ p.parts # <<>>
    BY <1>1 DEF Alias
  <2>. QED  BY <1>1, <2>1, StringParts DEF create_module, Nowhere
<1>2. CASE p = Nowhere
  <2>1. p.parts = <<>>
    BY <1>2 DEF Nowhere
  <2>2. p \notin Alias
    BY <2>1 DEF Alias
  <2>3. <<>> \in Parts
    BY DEF Parts
  <2>. QED  BY <1>2, <2>1, <2>2, <2>3 DEF create_module
<1>. QED  BY <1>1, <1>2

LEMMA RemoteAlias ==
  ASSUME NEW p \in Alias
  PROVE  /\ create_module(generate_remote_alias(create_module(p))) = create_module(p)
         /\ generate_remote_alias(create_module(p)) # Nowhere
         /\ generate_remote_alias(create_module(p)) = p <=> ~Underscored(p)
<1>1. p = [parts |-> p.parts, dots |-> p.dots] /\ p.parts # <<>>
  BY DEF Alias
<1>. DEFINE q == generate_remote_alias(create_module(p))
<1>2. q = [parts |-> p.parts, dots |-> 1..Len(p.parts) - 1]
  BY DEF create_module, generate_remote_alias
<1>3. q.parts = p.parts /\ q.dots = 1..Len(p.parts) - 1
  BY <1>2
<1>4. q # Nowhere
  BY <1>1, <1>3 DEF Nowhere
<1>5. q = p <=> q.dots = p.dots
  BY <1>1, <1>2, <1>3
<1>. QED  BY <1>3, <1>4, <1>5 DEF create_module, Underscored

LEMMA ArgsFacts == \A n \in Nat : Len(Args(n)) = n
BY DEF Args

-----------------------------------------------------------------------------
(* What was emitted for a call is what create_ast makes of it among the    *)
(* modules p that were there then.                                         *)

MacroNames(p, n) == UNION {GuardsOf(p[i]) : i \in 1..n}

MacrosOf(m) == {[path |-> m.path, macro |-> d.name, arity |-> d.arity] : d \in Macros(m)}

LoadedBefore(p, n) ==
  [modules |-> {p[i].path : i \in 1..n} \cup {d.path : d \in Library},
   macros |-> UNION {MacrosOf(p[i]) : i \in 1..n}]

ChainAt(p, c) ==
  IF c.from = Nowhere THEN <<KernelLevel>> ELSE <<Level(p[c.seen]), KernelLevel>>

StateAt(p, c) ==
  IF c.place = "body"
  THEN State("module", ChainAt(p, c), MacroNames(p, c.seen), LoadedBefore(p, c.seen))
  ELSE State("normal", <<>>, MacroNames(p, Len(p)), LoadedBefore(p, Len(p)))

ProgramOK(p) ==
  /\ p \in Seq(Modules)
  /\ \A i, j \in 1..Len(p) : p[i].path = p[j].path => i = j

PlaceOK(p, c) ==
  /\ c.call \in Callable
  /\ c.place \in {"body", "case"}
  /\ c.seen \in 0..Len(p)
  /\ c.from = Nowhere \/ (c.seen # 0 /\ c.from = p[c.seen].path)

NamesInv ==
  /\ ProgramOK(program)
  /\ phase = "module" => program # <<>>
  /\ guards = MacroNames(program, Len(program))
  /\ \A c \in pending : PlaceOK(program, c) /\ c.place = "case"
  /\ \A c \in calls : /\ PlaceOK(program, c)
                      /\ c.place = "case" => phase = "linked"
                      /\ c.emitted = Compile(c.call, StateAt(program, c))

LEMMA ModulesBefore ==
  ASSUME NEW p \in Seq(Modules), NEW m \in Modules, NEW n \in 0..Len(p)
  PROVE  /\ \A i \in 1..n : Append(p, m)[i] = p[i]
         /\ MacroNames(Append(p, m), n) = MacroNames(p, n)
         /\ LoadedBefore(Append(p, m), n) = LoadedBefore(p, n)
<1>. DEFINE q == Append(p, m)
<1>1. \A i \in 1..n : q[i] = p[i]
  OBVIOUS
<1>. HIDE DEF q
<1>2. MacroNames(q, n) = MacroNames(p, n)
  BY <1>1 DEF MacroNames
<1>3. {q[i].path : i \in 1..n} = {p[i].path : i \in 1..n}
  BY <1>1
<1>4. UNION {MacrosOf(q[i]) : i \in 1..n} = UNION {MacrosOf(p[i]) : i \in 1..n}
  BY <1>1
<1>5. LoadedBefore(q, n) = LoadedBefore(p, n)
  BY <1>3, <1>4 DEF LoadedBefore
<1>. QED  BY <1>1, <1>2, <1>5 DEF q

LEMMA CallsBefore ==
  ASSUME NEW p \in Seq(Modules), NEW m \in Modules, NEW c, PlaceOK(p, c)
  PROVE  /\ PlaceOK(Append(p, m), c)
         /\ c.place = "body" => StateAt(Append(p, m), c) = StateAt(p, c)
<1>. DEFINE q == Append(p, m)
<1>1. Len(q) = Len(p) + 1 /\ c.seen \in 0..Len(p) /\ Len(p) \in Nat
  BY DEF PlaceOK
<1>2. /\ \A i \in 1..c.seen : q[i] = p[i]
      /\ MacroNames(q, c.seen) = MacroNames(p, c.seen)
      /\ LoadedBefore(q, c.seen) = LoadedBefore(p, c.seen)
  BY <1>1, ModulesBefore
<1>. HIDE DEF q
<1>3. c.seen # 0 => q[c.seen] = p[c.seen]
  BY <1>1, <1>2
<1>4. PlaceOK(q, c)
  BY <1>1, <1>3 DEF PlaceOK
<1>5. ChainAt(q, c) = ChainAt(p, c)
  BY <1>3 DEF ChainAt, PlaceOK
<1>6. c.place = "body" => StateAt(q, c) = StateAt(p, c)
  BY <1>2, <1>5 DEF StateAt
<1>. QED  BY <1>4, <1>6 DEF q

LEMMA InitNames == Init => NamesInv
<1>. SUFFICES ASSUME Init PROVE NamesInv
  OBVIOUS
<1>1. ProgramOK(program)
  BY DEF Init, ProgramOK
<1>2. MacroNames(program, Len(program)) = {}
  BY DEF Init, MacroNames
<1>. QED  BY <1>1, <1>2 DEF Init, NamesInv

LEMMA OpenModuleNames ==
  ASSUME NamesInv, NEW m \in Modules, OpenModule(m)
  PROVE  NamesInv'
<1>1. program \in Seq(Modules) /\ program' = Append(program, m) /\ Len(program) \in Nat
  BY DEF NamesInv, ProgramOK, OpenModule
<1>2. /\ program' \in Seq(Modules) /\ program' # <<>>
      /\ Len(program') = Len(program) + 1
      /\ program'[Len(program) + 1] = m
      /\ \A i \in 1..Len(program) : program'[i] = program[i]
  BY <1>1
<1>3. ProgramOK(program')
  <2>. SUFFICES ASSUME NEW i \in 1..Len(program'), NEW j \in 1..Len(program'),
                       program'[i].path = program'[j].path
                PROVE  i = j
    BY <1>2 DEF ProgramOK
  <2>1. \A k \in 1..Len(program) : program[k].path # m.path
    BY <1>1 DEF OpenModule
  <2>. QED  BY <1>2, <2>1 DEF NamesInv, ProgramOK
<1>4. guards' = MacroNames(program', Len(program'))
  <2>1. MacroNames(program', Len(program)) = guards
    BY <1>1, ModulesBefore DEF NamesInv
  <2>2. MacroNames(program', Len(program) + 1)
          = MacroNames(program', Len(program)) \cup GuardsOf(program'[Len(program) + 1])
    <3>1. 1..Len(program) + 1 = (1..Len(program)) \cup {Len(program) + 1}
      BY <1>1
    <3>. QED  BY <3>1 DEF MacroNames
  <2>. QED  BY <1>2, <2>1, <2>2 DEF OpenModule, WithGuards
<1>5. \A c : PlaceOK(program, c) => PlaceOK(program', c)
  BY <1>1, CallsBefore
<1>6. ASSUME NEW c \in calls
      PROVE  c.place = "body" /\ c.emitted = Compile(c.call, StateAt(program', c))
  <2>1. PlaceOK(program, c) /\ c.place # "case"
    BY DEF NamesInv, OpenModule
  <2>2. c.place = "body"
    BY <2>1 DEF PlaceOK
  <2>3. StateAt(program', c) = StateAt(program, c)
    BY <1>1, <2>1, <2>2, CallsBefore
  <2>. QED  BY <2>2, <2>3 DEF NamesInv
<1>7. calls' = calls /\ pending' = pending
  BY DEF OpenModule
<1>. QED  BY <1>2, <1>3, <1>4, <1>5, <1>6, <1>7 DEF NamesInv

LEMMA StateNow ==
  ASSUME NamesInv, phase # "linked", NEW c \in Callable, NEW place \in {"body", "case"}
  PROVE  /\ PlaceOK(program, Made(c, place))
         /\ Loaded = LoadedBefore(program, Len(program))
         /\ StateAt(program, Made(c, "body")) = State("module", Chain, guards, Loaded)
<1>1. program \in Seq(Modules) /\ Len(program) \in Nat /\ DOMAIN program = 1..Len(program)
  BY DEF NamesInv, ProgramOK
<1>2. /\ Made(c, place).call = c /\ Made(c, place).place = place
      /\ Made(c, place).from = Here /\ Made(c, place).seen = Len(program)
      /\ Made(c, "body").place = "body"
      /\ Made(c, "body").from = Here /\ Made(c, "body").seen = Len(program)
  BY DEF Made
<1>3. phase = "module" => Len(program) # 0 /\ Current = program[Len(program)] /\ Current \in Modules
  BY <1>1 DEF NamesInv, Current
<1>4. Here = IF phase = "module" THEN Current.path ELSE Nowhere
  BY DEF Here
<1>5. phase = "module" => Here # Nowhere
  BY <1>3, <1>4, ModulesAssumption, AliasParts
<1>6. PlaceOK(program, Made(c, place))
  BY <1>1, <1>2, <1>3, <1>4 DEF PlaceOK
<1>7. Loaded = LoadedBefore(program, Len(program))
  BY <1>1 DEF Loaded, LoadedBefore, MacrosOf
<1>8. Chain = ChainAt(program, Made(c, "body"))
  BY <1>2, <1>3, <1>4, <1>5 DEF Chain, ChainAt
<1>. QED  BY <1>2, <1>6, <1>7, <1>8 DEF StateAt, NamesInv

LEMMA CompiledFacts ==
  ASSUME NEW made, NEW state
  PROVE  /\ Compiled(made, state).call = made.call
         /\ Compiled(made, state).place = made.place
         /\ Compiled(made, state).from = made.from
         /\ Compiled(made, state).seen = made.seen
         /\ Compiled(made, state).emitted = Compile(made.call, state)
BY DEF Compiled

LEMMA SamePlace ==
  ASSUME NEW p, NEW c, NEW d,
         c.call = d.call, c.place = d.place, c.from = d.from, c.seen = d.seen
  PROVE  /\ PlaceOK(p, c) <=> PlaceOK(p, d)
         /\ StateAt(p, c) = StateAt(p, d)
BY DEF PlaceOK, StateAt, ChainAt

LEMMA CompileCallNames ==
  ASSUME NamesInv, NEW c \in Callable, CompileCall(c)
  PROVE  NamesInv'
<1>. DEFINE made == Made(c, "body")
            new == Compiled(made, State("module", Chain, guards, Loaded))
<1>1. phase # "linked" /\ calls' = calls \cup {new}
  BY DEF CompileCall, Ready
<1>2. PlaceOK(program, made) /\ StateAt(program, made) = State("module", Chain, guards, Loaded)
  BY <1>1, StateNow
<1>3. made.call = c /\ made.place = "body"
  BY DEF Made
<1>4. /\ new.call = made.call /\ new.place = made.place
      /\ new.from = made.from /\ new.seen = made.seen
      /\ new.emitted = Compile(made.call, State("module", Chain, guards, Loaded))
  BY CompiledFacts
<1>. HIDE DEF made, new
<1>5. PlaceOK(program, new) /\ StateAt(program, new) = StateAt(program, made)
  BY <1>2, <1>4, SamePlace
<1>. QED  BY <1>1, <1>2, <1>3, <1>4, <1>5 DEF NamesInv, CompileCall

LEMMA MeetCallNames ==
  ASSUME NamesInv, NEW c \in Callable, MeetCallInCase(c)
  PROVE  NamesInv'
<1>1. PlaceOK(program, Made(c, "case"))
  BY StateNow DEF MeetCallInCase, Ready
<1>2. Made(c, "case").place = "case"
  BY DEF Made
<1>. QED  BY <1>1, <1>2 DEF NamesInv, MeetCallInCase

LEMMA FinishWalkNames ==
  ASSUME NamesInv, FinishWalk
  PROVE  NamesInv'
<1>. DEFINE state == State("normal", <<>>, guards, Loaded)
<1>1. /\ calls' = calls \cup {Compiled(made, state) : made \in pending}
      /\ phase' = "linked" /\ pending' = {}
      /\ UNCHANGED <<program, guards>>
  BY DEF FinishWalk
<1>2. ASSUME NEW made \in pending
      PROVE  /\ PlaceOK(program, Compiled(made, state))
             /\ Compiled(made, state).emitted
                  = Compile(Compiled(made, state).call, StateAt(program, Compiled(made, state)))
  <2>. DEFINE new == Compiled(made, state)
  <2>1. /\ new.call = made.call /\ new.place = made.place
        /\ new.from = made.from /\ new.seen = made.seen
        /\ new.emitted = Compile(made.call, state)
    BY CompiledFacts
  <2>2. PlaceOK(program, made) /\ made.place = "case"
    BY DEF NamesInv
  <2>. HIDE DEF new
  <2>3. PlaceOK(program, new) /\ StateAt(program, new) = StateAt(program, made)
    BY <2>1, <2>2, SamePlace
  <2>4. program \in Seq(Modules) /\ DOMAIN program = 1..Len(program)
    BY DEF NamesInv, ProgramOK
  <2>5. Loaded = LoadedBefore(program, Len(program))
    BY <2>4 DEF Loaded, LoadedBefore, MacrosOf
  <2>6. StateAt(program, made) = state
    BY <2>2, <2>5 DEF StateAt, NamesInv
  <2>. QED  BY <2>1, <2>3, <2>6 DEF new
<1>3. ASSUME NEW c \in calls
      PROVE  PlaceOK(program, c) /\ c.emitted = Compile(c.call, StateAt(program, c))
  BY DEF NamesInv
<1>4. ASSUME NEW c \in calls'
      PROVE  PlaceOK(program', c) /\ c.emitted = Compile(c.call, StateAt(program', c))
  BY <1>1, <1>2, <1>3
<1>. QED  BY <1>1, <1>4 DEF NamesInv

LEMMA NextNames == NamesInv /\ [Next]_vars => NamesInv'
<1>. SUFFICES ASSUME NamesInv, [Next]_vars PROVE NamesInv'
  OBVIOUS
<1>1. ASSUME NEW m \in Modules, OpenModule(m) PROVE NamesInv'
  BY <1>1, OpenModuleNames
<1>2. ASSUME NEW c \in Callable, CompileCall(c) PROVE NamesInv'
  BY <1>2, CompileCallNames
<1>3. ASSUME NEW c \in Callable, MeetCallInCase(c) PROVE NamesInv'
  BY <1>3, MeetCallNames
<1>4. CASE CloseModule
  BY <1>4 DEF CloseModule, NamesInv
<1>5. CASE FinishWalk
  BY <1>5, FinishWalkNames
<1>6. CASE UNCHANGED vars
  BY <1>6 DEF vars, NamesInv
<1>. QED  BY <1>1, <1>2, <1>3, <1>4, <1>5, <1>6 DEF Next, Over

LEMMA NamesInvHolds == Spec => []NamesInv
BY InitNames, NextNames, PTL DEF Spec

-----------------------------------------------------------------------------
(* Definitions, and the macros among them that the session knows.          *)

LEMMA ElixirFacts ==
  ASSUME NamesInv, NEW d \in Elixir
  PROVE  /\ d.path \in Alias /\ d.kind \in Kinds /\ d.name \in Name /\ d.arity \in Nat
         /\ d = [path |-> d.path, kind |-> d.kind, name |-> d.name, arity |-> d.arity]
         /\ \/ d \in Library /\ d.kind = "def"
            \/ \E i \in 1..Len(program) : \E e \in program[i].defs :
                  d = Definition(program[i].path, e)
<1>1. CASE d \in Library
  BY <1>1, LibraryAssumption DEF Kinds
<1>2. ASSUME NEW i \in DOMAIN program, d \in DefinitionsOf(program[i])
      PROVE  /\ d.path \in Alias /\ d.kind \in Kinds /\ d.name \in Name /\ d.arity \in Nat
             /\ d = [path |-> d.path, kind |-> d.kind, name |-> d.name, arity |-> d.arity]
             /\ i \in 1..Len(program)
             /\ \E e \in program[i].defs : d = Definition(program[i].path, e)
  <2>1. i \in 1..Len(program) /\ program[i] \in Modules
    BY DEF NamesInv, ProgramOK
  <2>2. PICK e \in program[i].defs : d = Definition(program[i].path, e)
    BY <1>2 DEF DefinitionsOf
  <2>3. e \in [kind : Kinds, name : Name, arity : Nat] /\ program[i].path \in Alias
    BY <2>1, ModulesAssumption
  <2>. QED  BY <2>1, <2>2, <2>3 DEF Definition
<1>. QED  BY <1>1, <1>2 DEF Elixir

LEMMA OneOfAKind ==
  ASSUME NamesInv, NEW d \in Elixir, NEW e \in Elixir,
         d.path = e.path, d.name = e.name, d.arity = e.arity
  PROVE  d = e
<1>. DEFINE InProgram(x, i, y) ==
       i \in 1..Len(program) /\ y \in program[i].defs /\ x = Definition(program[i].path, y)
<1>1. \A i \in 1..Len(program) : program[i] \in Modules
  BY DEF NamesInv, ProgramOK
<1>2. \A x, i, y : InProgram(x, i, y) => x.path = program[i].path /\ x.name = y.name
                                         /\ x.arity = y.arity
  BY DEF Definition
<1>3. CASE d \in Library /\ e \in Library
  BY <1>3, ElixirFacts, LibraryAssumption
<1>4. ASSUME NEW i, NEW y, InProgram(d, i, y), e \in Library PROVE FALSE
  BY <1>1, <1>2, <1>4, LibraryAssumption
<1>5. ASSUME NEW i, NEW y, InProgram(e, i, y), d \in Library PROVE FALSE
  BY <1>1, <1>2, <1>5, LibraryAssumption
<1>6. ASSUME NEW i, NEW y, InProgram(d, i, y), NEW j, NEW z, InProgram(e, j, z) PROVE d = e
  <2>1. i = j
    BY <1>2, <1>6 DEF NamesInv, ProgramOK
  <2>2. y = z
    BY <1>1, <1>2, <1>6, <2>1, ModulesAssumption
  <2>. QED  BY <1>6, <2>1, <2>2
<1>. QED  BY <1>3, <1>4, <1>5, <1>6, ElixirFacts

LEMMA InModule ==
  ASSUME NamesInv, NEW i \in 1..Len(program), NEW d \in Elixir, d.path = program[i].path
  PROVE  \E e \in program[i].defs : d = Definition(program[i].path, e)
<1>1. \A j \in 1..Len(program) : program[j] \in Modules
  BY DEF NamesInv, ProgramOK
<1>2. d \notin Library
  BY <1>1, LibraryAssumption
<1>3. PICK j \in 1..Len(program) : \E e \in program[j].defs : d = Definition(program[j].path, e)
  BY <1>2, ElixirFacts
<1>4. d.path = program[j].path
  BY <1>3 DEF Definition
<1>5. i = j
  BY <1>4 DEF NamesInv, ProgramOK
<1>. QED  BY <1>3, <1>5

LEMMA OfModule ==
  ASSUME NamesInv, NEW i \in 1..Len(program), NEW e \in program[i].defs
  PROVE  Definition(program[i].path, e) \in Elixir
BY DEF NamesInv, ProgramOK, Elixir, DefinitionsOf

IsMacro(d) == d.kind \in {"defmacro", "defmacro when"}

LEMMA MacroOrFunction ==
  ASSUME NamesInv, NEW d \in Elixir
  PROVE  d \in Functions <=> ~IsMacro(d)
BY ElixirFacts DEF Functions, IsMacro, Kinds

LEMMA HeadNames ==
  ASSUME NamesInv, NEW d \in Elixir
  PROVE  /\ HeadName(d) \in Parts
         /\ HeadName(d) \in Name => HeadName(d) = d.name /\ d.kind # "defmacro when"
         /\ d.kind # "defmacro when" => HeadName(d) = d.name
<1>1. d.name \in Parts
  BY ElixirFacts, NameParts
<1>2. <<"when">> \in Parts
  BY StringParts, OnePart, Zenon DEF Word, Parts
<1>. QED  BY <1>1, <1>2, NameParts DEF HeadName

\* The macro d stands in one of the first n modules.
Early(d, n) == IsMacro(d) /\ \E i \in 1..n : d.path = program[i].path

LEMMA KnownMacros ==
  ASSUME NamesInv, NEW n \in 0..Len(program)
  PROVE  /\ \A x : x \in MacroNames(program, n) <=>
               \E d \in Elixir : Early(d, n) /\ x = create_module(d.path) \o HeadName(d)
         /\ \A x : x \in LoadedBefore(program, n).macros <=>
               \E d \in Elixir : /\ Early(d, n)
                                 /\ x = [path |-> d.path, macro |-> d.name, arity |-> d.arity]
<1>1. \A i \in 1..n : i \in 1..Len(program)
  BY DEF NamesInv, ProgramOK
<1>2. ASSUME NEW i \in 1..n, NEW e \in Macros(program[i])
      PROVE  LET d == Definition(program[i].path, e)
             IN  /\ d \in Elixir /\ Early(d, n) /\ d.path = program[i].path
                 /\ HeadName(d) = HeadName(e) /\ d.name = e.name /\ d.arity = e.arity
  BY <1>1, OfModule DEF Macros, Definition, Early, IsMacro, HeadName
<1>3. ASSUME NEW d \in Elixir, Early(d, n)
      PROVE  \E i \in 1..n : \E e \in Macros(program[i]) :
               /\ d.path = program[i].path
               /\ HeadName(d) = HeadName(e) /\ d.name = e.name /\ d.arity = e.arity
  <2>1. PICK i \in 1..n : d.path = program[i].path
    BY <1>3 DEF Early
  <2>2. PICK e \in program[i].defs : d = Definition(program[i].path, e)
    BY <1>1, <2>1, InModule
  <2>. QED  BY <1>3, <2>1, <2>2 DEF Early, IsMacro, Macros, Definition, HeadName
<1>4. \A x : x \in MacroNames(program, n) <=>
         \E i \in 1..n : \E e \in Macros(program[i]) :
           x = create_module(program[i].path) \o HeadName(e)
  <2>. TAKE x
  <2>1. x \in MacroNames(program, n) <=> \E i \in 1..n : x \in GuardsOf(program[i])
    BY DEF MacroNames
  <2>2. \A i \in 1..n : x \in GuardsOf(program[i]) <=>
          \E e \in Macros(program[i]) : x = create_module(program[i].path) \o HeadName(e)
    BY DEF GuardsOf
  <2>. QED  BY <2>1, <2>2, Zenon
<1>5. \A x : x \in LoadedBefore(program, n).macros <=>
         \E i \in 1..n : \E e \in Macros(program[i]) :
           x = [path |-> program[i].path, macro |-> e.name, arity |-> e.arity]
  <2>. TAKE x
  <2>1. x \in LoadedBefore(program, n).macros <=> \E i \in 1..n : x \in MacrosOf(program[i])
    BY DEF LoadedBefore
  <2>2. \A i \in 1..n : x \in MacrosOf(program[i]) <=>
          \E e \in Macros(program[i]) :
            x = [path |-> program[i].path, macro |-> e.name, arity |-> e.arity]
    BY DEF MacrosOf
  <2>. QED  BY <2>1, <2>2, Zenon
<1>6. ASSUME NEW x, x \in MacroNames(program, n)
      PROVE  \E d \in Elixir : Early(d, n) /\ x = create_module(d.path) \o HeadName(d)
  <2>1. PICK i \in 1..n : \E e \in Macros(program[i]) :
               x = create_module(program[i].path) \o HeadName(e)
    BY <1>4, <1>6
  <2>2. PICK e \in Macros(program[i]) : x = create_module(program[i].path) \o HeadName(e)
    BY <2>1
  <2>. QED  BY <1>2, <2>2
<1>7. ASSUME NEW x, NEW d \in Elixir, Early(d, n), x = create_module(d.path) \o HeadName(d)
      PROVE  x \in MacroNames(program, n)
  BY <1>3, <1>4, <1>7
<1>8. ASSUME NEW x, x \in LoadedBefore(program, n).macros
      PROVE  \E d \in Elixir : /\ Early(d, n)
                               /\ x = [path |-> d.path, macro |-> d.name, arity |-> d.arity]
  <2>1. PICK i \in 1..n : \E e \in Macros(program[i]) :
               x = [path |-> program[i].path, macro |-> e.name, arity |-> e.arity]
    BY <1>5, <1>8
  <2>2. PICK e \in Macros(program[i]) :
               x = [path |-> program[i].path, macro |-> e.name, arity |-> e.arity]
    BY <2>1
  <2>. QED  BY <1>2, <2>2
<1>9. ASSUME NEW x, NEW d \in Elixir, Early(d, n),
             x = [path |-> d.path, macro |-> d.name, arity |-> d.arity]
      PROVE  x \in LoadedBefore(program, n).macros
  BY <1>3, <1>5, <1>9
<1>. QED  BY <1>6, <1>7, <1>8, <1>9

-----------------------------------------------------------------------------
(* What a call was compiled to.                                            *)

\* create_ast and add_guard join p.f and q.g to one name.
SameName(p, f, q, g) == create_module(p) \o f = create_module(q) \o g

\* One of the first n modules has a macro whose name, joined, is that of p.f.
Collides(p, f, n) == \E d \in Elixir : Early(d, n) /\ SameName(d.path, HeadName(d), p, f)

\* One of the first n modules is p and has the macro.
Expands(p, f, k, n) ==
  \E d \in Elixir : Early(d, n) /\ d.path = p /\ d.name = f /\ d.arity = k

RemoteCase(e, p, f, k, n) ==
  IF ~Collides(p, f, n)
  THEN e.type = "call" /\ e.sym = RemoteName(create_module(p), f)
  ELSE \/ e.type = "refused" /\ p \notin LoadedBefore(program, n).modules
       \/ e.type = "macro" /\ e.sym = <<p, f>> /\ Expands(p, f, k, n)
       \/ e.type = "diverges" /\ ~Expands(p, f, k, n)

LEMMA EmittedFacts ==
  ASSUME NEW type, NEW sym, NEW items
  PROVE  Emitted(type, sym, items).type = type /\ Emitted(type, sym, items).sym = sym
BY DEF Emitted

LEMMA RemoteOutcome ==
  ASSUME NamesInv, NEW n \in 0..Len(program), NEW p, NEW f, NEW k \in Nat, NEW state,
         state.guards = MacroNames(program, n), state.loaded = LoadedBefore(program, n)
  PROVE  RemoteCase(CreateRemote(p, f, Args(k), state), p, f, k, n)
<1>. DEFINE e == CreateRemote(p, f, Args(k), state)
            macro == [path |-> p, macro |-> f, arity |-> k]
<1>1. create_module(p) \o f \in state.guards <=> Collides(p, f, n)
  BY KnownMacros DEF Collides, SameName
<1>2. macro \in state.loaded.macros <=> Expands(p, f, k, n)
  <2>1. \A d : macro = [path |-> d.path, macro |-> d.name, arity |-> d.arity]
                 <=> d.path = p /\ d.name = f /\ d.arity = k
    OBVIOUS
  <2>2. macro \in state.loaded.macros <=>
          \E d \in Elixir : /\ Early(d, n)
                            /\ macro = [path |-> d.path, macro |-> d.name, arity |-> d.arity]
    BY KnownMacros
  <2>. QED  BY <2>1, <2>2 DEF Expands
<1>3. Len(Args(k)) = k
  BY ArgsFacts
<1>4. CASE ~Collides(p, f, n)
  BY <1>1, <1>4, EmittedFacts DEF CreateRemote, RemoteCase
<1>5. CASE Collides(p, f, n) /\ p \notin state.loaded.modules
  <2>1. macro \notin state.loaded.macros
    <3>1. Expands(p, f, k, n) => p \in LoadedBefore(program, n).modules
      BY DEF Expands, Early, LoadedBefore
    <3>. QED  BY <1>2, <1>5, <3>1
  <2>2. e = Emitted("refused", <<>>, <<>>)
    BY <1>1, <1>3, <1>5, <2>1 DEF CreateRemote
  <2>. QED  BY <1>5, <2>2, EmittedFacts DEF RemoteCase
<1>6. CASE Collides(p, f, n) /\ p \in state.loaded.modules /\ Expands(p, f, k, n)
  <2>1. e = Emitted("macro", <<p, f>>, Args(k))
    BY <1>1, <1>2, <1>3, <1>6 DEF CreateRemote
  <2>. QED  BY <1>6, <2>1, EmittedFacts DEF RemoteCase
<1>7. CASE Collides(p, f, n) /\ p \in state.loaded.modules /\ ~Expands(p, f, k, n)
  <2>1. e = Emitted("diverges", <<>>, <<>>)
    BY <1>1, <1>2, <1>3, <1>7 DEF CreateRemote
  <2>. QED  BY <1>7, <2>1, EmittedFacts DEF RemoteCase
<1>. QED  BY <1>4, <1>5, <1>6, <1>7

LEMMA SearchFirst ==
  ASSUME NEW chain, DOMAIN chain \subseteq Int, NEW name, NEW i \in Levels(chain, name),
         \A j \in Levels(chain, name) : i <= j
  PROVE  traverse_state_list(chain, name) = chain[i].alias
<1>. DEFINE First(j) == j \in Levels(chain, name) /\ \A k \in Levels(chain, name) : j <= k
<1>1. Levels(chain, name) \subseteq Int
  BY DEF Levels
<1>2. \A j : First(j) => j = i
  BY <1>1
<1>3. First(i)
  OBVIOUS
<1>4. (CHOOSE j \in Levels(chain, name) : \A k \in Levels(chain, name) : j <= k) = i
  BY <1>2, <1>3
<1>. QED  BY <1>4 DEF traverse_state_list

LEMMA OneLevel ==
  ASSUME NEW k, NEW name
  PROVE  /\ Levels(<<k>>, name) # {} <=> name \in k.names
         /\ name \in k.names => traverse_state_list(<<k>>, name) = k.alias
<1>. DEFINE chain == <<k>>
<1>1. DOMAIN chain = {1} /\ chain[1] = k
  OBVIOUS
<1>. HIDE DEF chain
<1>2. Levels(chain, name) = {i \in {1} : name \in k.names}
  BY <1>1 DEF Levels
<1>3. ASSUME name \in k.names PROVE traverse_state_list(chain, name) = k.alias
  <2>1. Levels(chain, name) = {1}
    BY <1>2, <1>3
  <2>. QED  BY <1>1, <2>1, SearchFirst
<1>. QED  BY <1>2, <1>3 DEF chain

LEMMA TwoLevels ==
  ASSUME NEW k, NEW l, NEW name
  PROVE  /\ Levels(<<k, l>>, name) # {} <=> name \in k.names \/ name \in l.names
         /\ name \in k.names => traverse_state_list(<<k, l>>, name) = k.alias
         /\ name \notin k.names /\ name \in l.names =>
              traverse_state_list(<<k, l>>, name) = l.alias
<1>. DEFINE chain == <<k, l>>
<1>1. DOMAIN chain = {1, 2} /\ chain[1] = k /\ chain[2] = l
  OBVIOUS
<1>. HIDE DEF chain
<1>2. /\ Levels(chain, name) \subseteq {1, 2}
      /\ 1 \in Levels(chain, name) <=> name \in k.names
      /\ 2 \in Levels(chain, name) <=> name \in l.names
  BY <1>1 DEF Levels
<1>3. Levels(chain, name) # {} <=> name \in k.names \/ name \in l.names
  BY <1>2
<1>4. ASSUME name \in k.names PROVE traverse_state_list(chain, name) = k.alias
  BY <1>1, <1>2, <1>4, SearchFirst
<1>5. ASSUME name \notin k.names, name \in l.names
      PROVE  traverse_state_list(chain, name) = l.alias
  <2>1. Levels(chain, name) = {2}
    BY <1>2, <1>5
  <2>. QED  BY <1>1, <2>1, SearchFirst
<1>. QED  BY <1>3, <1>4, <1>5 DEF chain

HasFunction(m, f) == \E d \in m.defs : d.kind = "def" /\ d.name = f

HasMacro(m, f) == \E d \in Macros(m) : HeadName(d) = f

LEMMA LevelNames ==
  ASSUME NEW m, NEW f
  PROVE  /\ <<"def", f>> \in Level(m).names <=> HasFunction(m, f)
         /\ <<"macro", f>> \in Level(m).names <=> HasMacro(m, f)
<1>1. Level(m).names = Traversed(m)
  BY DEF Level
<1>2. \A g : <<"def", g>> # <<"macro", f>> /\ <<"macro", g>> # <<"def", f>>
  OBVIOUS
<1>3. \A g : (<<"def", g>> = <<"def", f>> <=> g = f) /\ (<<"macro", g>> = <<"macro", f>> <=> g = f)
  OBVIOUS
<1>4. <<"def", f>> \in Traversed(m) <=> HasFunction(m, f)
  BY <1>2, <1>3 DEF Traversed, HasFunction
<1>5. <<"macro", f>> \in Traversed(m) <=> HasMacro(m, f)
  BY <1>2, <1>3 DEF Traversed, HasMacro
<1>. QED  BY <1>1, <1>4, <1>5

LEMMA KernelLevelNames ==
  /\ KernelLevel.alias = create_module(KernelPath)
  /\ \A f : /\ <<"def", f>> \in KernelLevel.names <=> f \in KernelNames
            /\ <<"macro", f>> \notin KernelLevel.names
<1>1. /\ KernelLevel.names = {<<"def", g>> : g \in KernelNames}
      /\ KernelLevel.alias = create_module(KernelPath)
  BY DEF KernelLevel
<1>2. \A f, g : <<"def", g>> # <<"macro", f>> /\ (<<"def", g>> = <<"def", f>> <=> g = f)
  OBVIOUS
<1>. QED  BY <1>1, <1>2

\* How many modules had been compiled when the call was.
Then(c) == IF c.place = "body" THEN c.seen ELSE Len(program)

\* The call's own module has a macro whose definition has that head.
OwnMacro(c) == \E d \in Elixir : IsMacro(d) /\ d.path = c.from /\ HeadName(d) = c.call.name

LocalCase(c) ==
  CASE OwnMacro(c) -> RemoteCase(c.emitted, generate_remote_alias(create_module(c.from)),
                                 c.call.name, c.call.arity, c.seen)
    [] ~OwnMacro(c) /\ HiddenByOwn(c) ->
         /\ c.emitted.type = "call"
         /\ c.emitted.sym = RemoteName(create_module(c.from), c.call.name)
    [] ~OwnMacro(c) /\ ~HiddenByOwn(c) /\ c.call.name \in KernelNames ->
         /\ c.emitted.type = "call"
         /\ c.emitted.sym = RemoteName(create_module(KernelPath), c.call.name)
    [] OTHER -> c.emitted.type = "get"

CallCase(c) ==
  IF IsLocal(c)
  THEN IF c.place = "body" THEN LocalCase(c) ELSE c.emitted.type = "text"
  ELSE RemoteCase(c.emitted, c.call.path, c.call.name, c.call.arity, Then(c))

LEMMA CallFacts ==
  ASSUME NamesInv, NEW c \in calls
  PROVE  /\ c.call.path \in Alias \cup {Nowhere} /\ c.call.name \in Name /\ c.call.arity \in Nat
         /\ c.place \in {"body", "case"}
         /\ c.seen \in 0..Len(program) /\ Then(c) \in 0..Len(program) /\ Len(program) \in Nat
         /\ StateAt(program, c).guards = MacroNames(program, Then(c))
         /\ StateAt(program, c).loaded = LoadedBefore(program, Then(c))
         /\ c.emitted = CreateCall(c.call.path, c.call.name, Args(c.call.arity), StateAt(program, c))
<1>1. PlaceOK(program, c) /\ c.emitted = Compile(c.call, StateAt(program, c))
  BY DEF NamesInv
<1>2. Len(program) \in Nat
  BY DEF NamesInv, ProgramOK
<1>3. \A kind, chain, g, l : State(kind, chain, g, l).guards = g /\ State(kind, chain, g, l).loaded = l
  BY DEF State
<1>4. c.call \in [path : Alias \cup {Nowhere}, name : Name, arity : Nat]
  BY <1>1, NamesAssumption DEF PlaceOK
<1>. QED  BY <1>1, <1>2, <1>3, <1>4 DEF PlaceOK, Then, StateAt, Compile

LEMMA OwnModule ==
  ASSUME NamesInv, NEW c \in calls, c.from # Nowhere
  PROVE  /\ c.seen \in 1..Len(program) /\ c.from = program[c.seen].path /\ c.from \in Alias
         /\ OwnMacro(c) <=> HasMacro(program[c.seen], c.call.name)
         /\ HiddenByOwn(c) <=> HasFunction(program[c.seen], c.call.name)
<1>1. c.seen \in 1..Len(program) /\ c.from = program[c.seen].path /\ program[c.seen] \in Modules
  BY DEF NamesInv, PlaceOK, ProgramOK
<1>2. c.from \in Alias
  BY <1>1, ModulesAssumption
<1>3. \A d \in Elixir : d.path = c.from =>
         \E e \in program[c.seen].defs : d = Definition(program[c.seen].path, e)
  BY <1>1, InModule
<1>4. \A e \in program[c.seen].defs : Definition(program[c.seen].path, e) \in Elixir
  BY <1>1, OfModule
<1>5. \A p, e : LET d == Definition(p, e)
                IN  d.path = p /\ d.kind = e.kind /\ d.name = e.name /\ HeadName(d) = HeadName(e)
  BY DEF Definition, HeadName
<1>6. OwnMacro(c) <=> HasMacro(program[c.seen], c.call.name)
  <2>1. \A e : e \in Macros(program[c.seen]) <=> e \in program[c.seen].defs /\ IsMacro(e)
    BY DEF Macros, IsMacro
  <2>2. \A d, e : d.kind = e.kind => (IsMacro(d) <=> IsMacro(e))
    BY DEF IsMacro
  <2>3. ASSUME OwnMacro(c) PROVE HasMacro(program[c.seen], c.call.name)
    <3>1. PICK d \in Elixir : IsMacro(d) /\ d.path = c.from /\ HeadName(d) = c.call.name
      BY <2>3 DEF OwnMacro
    <3>2. PICK e \in program[c.seen].defs : d = Definition(program[c.seen].path, e)
      BY <1>3, <3>1
    <3>. QED  BY <1>5, <2>1, <2>2, <3>1, <3>2 DEF HasMacro
  <2>4. ASSUME HasMacro(program[c.seen], c.call.name) PROVE OwnMacro(c)
    BY <1>1, <1>4, <1>5, <2>1, <2>2, <2>4 DEF OwnMacro, HasMacro
  <2>. QED  BY <2>3, <2>4
<1>7. HiddenByOwn(c) <=> HasFunction(program[c.seen], c.call.name)
  BY <1>1, <1>3, <1>4, <1>5 DEF HiddenByOwn, HasFunction
<1>. QED  BY <1>1, <1>2, <1>6, <1>7

LEMMA NoModule ==
  ASSUME NamesInv, NEW c \in calls, c.from = Nowhere
  PROVE  ~OwnMacro(c) /\ ~HiddenByOwn(c)
BY ElixirFacts, AliasParts DEF OwnMacro, HiddenByOwn

LEMMA LocalOutcome ==
  ASSUME NamesInv, NEW c \in calls, IsLocal(c), c.place = "body"
  PROVE  LocalCase(c)
<1>. DEFINE f == c.call.name
            args == Args(c.call.arity)
            state == StateAt(program, c)
            chain == ChainAt(program, c)
            mine == Level(program[c.seen])
<1>1. state.chain = chain /\ state.kind = "module" /\ Then(c) = c.seen
  BY DEF StateAt, State, Then
<1>2. c.emitted = CreateLocal(f, args, state)
  BY <1>1, CallFacts DEF CreateCall, IsLocal
<1>3. /\ OwnMacro(c) => c.from # Nowhere
      /\ HiddenByOwn(c) => c.from # Nowhere
  BY NoModule
<1>4. CASE c.from = Nowhere
  <2>1. chain = <<KernelLevel>>
    BY <1>4 DEF ChainAt
  <2>2. Levels(chain, <<"macro", f>>) = {}
    BY <2>1, OneLevel, KernelLevelNames
  <2>3. Levels(chain, <<"def", f>>) # {} <=> f \in KernelNames
    BY <2>1, OneLevel, KernelLevelNames
  <2>4. ~OwnMacro(c) /\ ~HiddenByOwn(c)
    BY <1>4, NoModule
  <2>5. CASE f \in KernelNames
    <3>1. traverse_state_list(chain, <<"def", f>>) = create_module(KernelPath)
      BY <2>1, <2>5, OneLevel, KernelLevelNames
    <3>2. c.emitted = Emitted("call", RemoteName(create_module(KernelPath), f), args)
      BY <1>1, <1>2, <2>2, <2>3, <2>5, <3>1 DEF CreateLocal
    <3>. QED  BY <2>4, <2>5, <3>2, EmittedFacts DEF LocalCase
  <2>6. CASE f \notin KernelNames
    <3>1. c.emitted = Emitted("get", f, <<>>)
      BY <1>1, <1>2, <2>2, <2>3, <2>6 DEF CreateLocal
    <3>. QED  BY <2>4, <2>6, <3>1, EmittedFacts DEF LocalCase
  <2>. QED  BY <2>5, <2>6
<1>5. CASE c.from # Nowhere
  <2>1. chain = <<mine, KernelLevel>> /\ mine.alias = create_module(c.from)
    <3>1. c.from = program[c.seen].path
      BY <1>5, OwnModule
    <3>. QED  BY <1>5, <3>1 DEF ChainAt, Level
  <2>2. /\ <<"macro", f>> \in mine.names <=> OwnMacro(c)
        /\ <<"def", f>> \in mine.names <=> HiddenByOwn(c)
    <3>1. /\ <<"def", f>> \in mine.names <=> HasFunction(program[c.seen], f)
          /\ <<"macro", f>> \in mine.names <=> HasMacro(program[c.seen], f)
      BY LevelNames
    <3>. QED  BY <1>5, <3>1, OwnModule
  <2>. HIDE DEF mine
  <2>3. /\ Levels(chain, <<"macro", f>>) # {} <=> OwnMacro(c)
        /\ Levels(chain, <<"def", f>>) # {} <=> HiddenByOwn(c) \/ f \in KernelNames
    BY <2>1, <2>2, TwoLevels, KernelLevelNames
  <2>4. CASE OwnMacro(c)
    <3>1. traverse_state_list(chain, <<"macro", f>>) = create_module(c.from)
      BY <2>1, <2>2, <2>4, TwoLevels
    <3>2. c.emitted = CreateRemote(generate_remote_alias(create_module(c.from)), f, args, state)
      BY <1>1, <1>2, <2>3, <2>4, <3>1 DEF CreateLocal
    <3>3. RemoteCase(c.emitted, generate_remote_alias(create_module(c.from)),
                     f, c.call.arity, c.seen)
      BY <1>1, <3>2, CallFacts, RemoteOutcome
    <3>. QED  BY <2>4, <3>3 DEF LocalCase
  <2>5. CASE ~OwnMacro(c) /\ HiddenByOwn(c)
    <3>1. traverse_state_list(chain, <<"def", f>>) = create_module(c.from)
      BY <2>1, <2>2, <2>5, TwoLevels
    <3>2. c.emitted = Emitted("call", RemoteName(create_module(c.from), f), args)
      BY <1>1, <1>2, <2>3, <2>5, <3>1 DEF CreateLocal
    <3>. QED  BY <2>5, <3>2, EmittedFacts DEF LocalCase
  <2>6. CASE ~OwnMacro(c) /\ ~HiddenByOwn(c) /\ f \in KernelNames
    <3>1. traverse_state_list(chain, <<"def", f>>) = create_module(KernelPath)
      BY <2>1, <2>2, <2>6, TwoLevels, KernelLevelNames
    <3>2. c.emitted = Emitted("call", RemoteName(create_module(KernelPath), f), args)
      BY <1>1, <1>2, <2>2, <2>3, <2>6, <3>1 DEF CreateLocal
    <3>. QED  BY <2>6, <3>2, EmittedFacts DEF LocalCase
  <2>7. CASE ~OwnMacro(c) /\ ~HiddenByOwn(c) /\ f \notin KernelNames
    <3>1. c.emitted = Emitted("get", f, <<>>)
      BY <1>1, <1>2, <2>3, <2>7 DEF CreateLocal
    <3>. QED  BY <2>7, <3>1, EmittedFacts DEF LocalCase
  <2>. QED  BY <2>4, <2>5, <2>6, <2>7
<1>. QED  BY <1>4, <1>5

LEMMA CallOutcome ==
  ASSUME NamesInv, NEW c \in calls
  PROVE  CallCase(c)
<1>1. CASE IsLocal(c) /\ c.place = "body"
  BY <1>1, LocalOutcome DEF CallCase
<1>2. CASE IsLocal(c) /\ c.place # "body"
  <2>1. StateAt(program, c).kind = "normal"
    BY <1>2 DEF StateAt, State
  <2>2. c.emitted = Emitted("text", c.call.name, <<>>)
    BY <1>2, <2>1, CallFacts DEF CreateCall, IsLocal
  <2>. QED  BY <1>2, <2>2, EmittedFacts DEF CallCase
<1>3. CASE ~IsLocal(c)
  <2>1. c.emitted = CreateRemote(c.call.path, c.call.name, Args(c.call.arity), StateAt(program, c))
    BY <1>3, CallFacts DEF CreateCall, IsLocal
  <2>2. RemoteCase(c.emitted, c.call.path, c.call.name, c.call.arity, Then(c))
    BY <2>1, CallFacts, RemoteOutcome
  <2>. QED  BY <1>3, <2>2 DEF CallCase
<1>. QED  BY <1>1, <1>2, <1>3

-----------------------------------------------------------------------------
(* The host: a local call of a module means no two things.                 *)

HostInv ==
  \A c \in calls \cup pending : IsLocal(c) /\ c.from # Nowhere =>
    \A d, e \in MeantBy(c.call, c.from) : d = e

LEMMA HostReady ==
  ASSUME NamesInv, NEW c \in Callable, Ready(c), NEW place, IsLocal(Made(c, place)), Here # Nowhere
  PROVE  \A d, e \in MeantBy(c, Here) : d = e
<1>1. c.path = Nowhere /\ phase = "module"
  BY DEF IsLocal, Made, Here
<1>. QED  BY <1>1 DEF Ready, HostAccepts

LEMMA MeantByOwn ==
  ASSUME NEW c, c.path = Nowhere, NEW path, NEW d
  PROVE  d \in MeantBy(c, path) <=> /\ d \in Elixir /\ d.name = c.name /\ d.arity = c.arity
                                    /\ d.path \in {path, KernelPath}
BY DEF MeantBy

LEMMA OpenModuleHost ==
  ASSUME NamesInv, HostInv, NEW m \in Modules, OpenModule(m)
  PROVE  HostInv'
<1>1. /\ calls' = calls /\ pending' = pending
      /\ program \in Seq(Modules) /\ program' = Append(program, m)
      /\ \A i \in DOMAIN program : program[i].path # m.path
  BY DEF OpenModule, NamesInv, ProgramOK
<1>2. m.path # KernelPath
  BY ModulesAssumption
<1>3. \A d \in DefinitionsOf(m) : d.path = m.path
  BY DEF DefinitionsOf, Definition
<1>4. \A i \in DOMAIN program' :
        (i \in DOMAIN program /\ program'[i] = program[i]) \/ program'[i] = m
  BY <1>1
<1>5. \A d \in Elixir' : d \in Elixir \/ d \in DefinitionsOf(m)
  <2>. SUFFICES ASSUME NEW d \in Elixir', d \notin Library PROVE d \in Elixir \/ d \in DefinitionsOf(m)
    BY DEF Elixir
  <2>1. PICK i \in DOMAIN program' : d \in DefinitionsOf(program'[i])
    BY DEF Elixir
  <2>. QED  BY <1>4, <2>1 DEF Elixir
<1>6. ASSUME NEW c \in calls \cup pending, IsLocal(c), c.from # Nowhere
      PROVE  \A d, e \in MeantBy(c.call, c.from)' : d = e
  <2>1. \E i \in DOMAIN program : c.from = program[i].path
    <3>1. PlaceOK(program, c)
      BY <1>6 DEF NamesInv
    <3>. QED  BY <1>1, <1>6, <3>1 DEF PlaceOK
  <2>2. c.from # m.path
    BY <1>1, <2>1
  <2>3. ASSUME NEW d \in MeantBy(c.call, c.from)' PROVE d \in MeantBy(c.call, c.from)
    <3>1. /\ d \in Elixir' /\ d.name = c.call.name /\ d.arity = c.call.arity
          /\ d.path \in {c.from, KernelPath}
      BY <1>6 DEF MeantBy, IsLocal
    <3>2. d \in Elixir
      BY <1>2, <1>3, <1>5, <2>2, <3>1
    <3>. QED  BY <1>6, <3>1, <3>2 DEF MeantBy, IsLocal
  <2>. QED  BY <1>6, <2>3 DEF HostInv
<1>. QED  BY <1>1, <1>6 DEF HostInv, IsLocal

LEMMA CompileCallHost ==
  ASSUME NamesInv, HostInv, NEW c \in Callable, CompileCall(c)
  PROVE  HostInv'
<1>. DEFINE new == Compiled(Made(c, "body"), State("module", Chain, guards, Loaded))
<1>1. /\ calls' = calls \cup {new} /\ pending' = pending /\ program' = program /\ Ready(c)
  BY DEF CompileCall
<1>2. new.call = c /\ new.from = Here /\ (IsLocal(new) <=> IsLocal(Made(c, "body")))
  BY CompiledFacts DEF Made, IsLocal
<1>3. IsLocal(new) /\ new.from # Nowhere => \A d, e \in MeantBy(new.call, new.from) : d = e
  BY <1>1, <1>2, HostReady
<1>. HIDE DEF new
<1>4. Elixir' = Elixir
  BY <1>1 DEF Elixir
<1>. QED  BY <1>1, <1>3, <1>4 DEF HostInv, MeantBy, IsLocal

LEMMA MeetCallHost ==
  ASSUME NamesInv, HostInv, NEW c \in Callable, MeetCallInCase(c)
  PROVE  HostInv'
<1>. DEFINE new == Made(c, "case")
<1>1. /\ calls' = calls /\ pending' = pending \cup {new} /\ program' = program /\ Ready(c)
  BY DEF MeetCallInCase
<1>2. new.call = c /\ new.from = Here
  BY DEF Made
<1>3. IsLocal(new) /\ new.from # Nowhere => \A d, e \in MeantBy(new.call, new.from) : d = e
  BY <1>1, <1>2, HostReady
<1>. HIDE DEF new
<1>4. Elixir' = Elixir
  BY <1>1 DEF Elixir
<1>. QED  BY <1>1, <1>3, <1>4 DEF HostInv, MeantBy, IsLocal

LEMMA FinishWalkHost ==
  ASSUME HostInv, FinishWalk
  PROVE  HostInv'
<1>. DEFINE state == State("normal", <<>>, guards, Loaded)
<1>1. /\ calls' = calls \cup {Compiled(made, state) : made \in pending}
      /\ pending' = {} /\ program' = program
  BY DEF FinishWalk
<1>2. ASSUME NEW made \in pending, IsLocal(Compiled(made, state)),
             Compiled(made, state).from # Nowhere
      PROVE  \A d, e \in MeantBy(Compiled(made, state).call, Compiled(made, state).from) : d = e
  <2>1. Compiled(made, state).call = made.call /\ Compiled(made, state).from = made.from
    BY CompiledFacts
  <2>. QED  BY <1>2, <2>1 DEF HostInv, IsLocal
<1>3. ASSUME NEW c \in calls', IsLocal(c), c.from # Nowhere
      PROVE  \A d, e \in MeantBy(c.call, c.from) : d = e
  <2>. HIDE DEF state
  <2>. QED  BY <1>1, <1>2, <1>3 DEF HostInv
<1>4. Elixir' = Elixir
  BY <1>1 DEF Elixir
<1>. QED  BY <1>1, <1>3, <1>4 DEF HostInv, MeantBy, IsLocal

LEMMA NextHost == NamesInv /\ HostInv /\ [Next]_vars => HostInv'
<1>. SUFFICES ASSUME NamesInv, HostInv, [Next]_vars PROVE HostInv'
  OBVIOUS
<1>1. ASSUME NEW m \in Modules, OpenModule(m) PROVE HostInv'
  BY <1>1, OpenModuleHost
<1>2. ASSUME NEW c \in Callable, CompileCall(c) PROVE HostInv'
  BY <1>2, CompileCallHost
<1>3. ASSUME NEW c \in Callable, MeetCallInCase(c) PROVE HostInv'
  BY <1>3, MeetCallHost
<1>4. CASE FinishWalk
  BY <1>4, FinishWalkHost
<1>5. CASE CloseModule \/ UNCHANGED vars
  <2>1. UNCHANGED <<calls, pending, program>>
    BY <1>5 DEF CloseModule, vars
  <2>. QED  BY <2>1 DEF HostInv, MeantBy, IsLocal, Elixir
<1>. QED  BY <1>1, <1>2, <1>3, <1>4, <1>5 DEF Next, Over

LEMMA NamesHold == Spec => [](NamesInv /\ HostInv)
<1>1. Init => HostInv
  BY DEF Init, HostInv
<1>. QED  BY <1>1, InitNames, NextNames, NextHost, PTL DEF Spec

-----------------------------------------------------------------------------
(* Names that are joined alike.                                            *)

IsModule(p) == create_module(p) \in Parts

LEMMA Aliases ==
  /\ \A p \in Alias : IsModule(p)
  /\ IsModule(KernelPath)
<1>1. \A p \in Alias : IsModule(p)
  BY AliasParts DEF IsModule
<1>2. "Kernel" \in Word
  BY DEF Word
<1>3. create_module(KernelPath) = <<"Kernel">>
  BY DEF create_module, KernelPath
<1>. QED  BY <1>1, <1>2, <1>3, OnePart DEF IsModule, Parts

LEMMA AlikeOrSame ==
  ASSUME NEW p, NEW f \in Parts, NEW q, NEW g \in Parts,
         IsModule(p), IsModule(q), SameName(p, f, q, g)
  PROVE  WrittenAlike(p, f, q, g) \/ (p = q /\ f = g)
<1>1. CASE p = q
  BY <1>1, JoinedParts DEF IsModule, SameName
<1>2. CASE p # q
  BY <1>2 DEF WrittenAlike, SameName
<1>. QED  BY <1>1, <1>2

LEMMA SameRemoteName ==
  ASSUME NEW p, NEW f \in Parts, NEW q, NEW g \in Parts, IsModule(p), IsModule(q),
         RemoteName(create_module(p), f) = RemoteName(create_module(q), g)
  PROVE  WrittenAlike(p, f, q, g) \/ (p = q /\ f = g)
<1>1. create_module(p) \in Parts /\ create_module(q) \in Parts
  BY DEF IsModule
<1>2. create_module(p) \o f = create_module(q) \o g
  BY <1>1, RemoteNames
<1>. QED  BY <1>2, AlikeOrSame DEF SameName

LEMMA MacroAlikeOrSame ==
  ASSUME NamesInv, NEW d \in Elixir, NEW p \in Alias, NEW f \in Name,
         SameName(d.path, HeadName(d), p, f)
  PROVE  \/ WrittenAlike(d.path, HeadName(d), p, f)
         \/ d.path = p /\ d.name = f /\ d.kind # "defmacro when"
<1>1. HeadName(d) \in Parts /\ f \in Parts /\ IsModule(d.path) /\ IsModule(p)
  BY ElixirFacts, HeadNames, NameParts, Aliases
<1>2. WrittenAlike(d.path, HeadName(d), p, f) \/ (d.path = p /\ HeadName(d) = f)
  BY <1>1, AlikeOrSame
<1>. QED  BY <1>2, HeadNames

\* The name under which the host is asked for the macros of a call's own module.
LEMMA OwnAlias ==
  ASSUME NamesInv, NEW c \in calls, c.from # Nowhere
  PROVE  LET q == generate_remote_alias(create_module(c.from))
         IN  /\ c.from \in Alias
             /\ create_module(q) = create_module(c.from)
             /\ q = c.from <=> ~Underscored(c.from)
BY OwnModule, RemoteAlias

LEMMA CallTarget ==
  ASSUME NamesInv, NEW c \in calls, c.emitted.type = "call"
  PROVE  \E q \in Targets(c) :
           IsModule(q) /\ c.emitted.sym = RemoteName(create_module(q), c.call.name)
<1>1. CASE ~IsLocal(c)
  <2>1. IsModule(c.call.path) /\ c.call.path \in Targets(c)
    BY <1>1, CallFacts, Aliases DEF IsLocal, Targets
  <2>2. c.emitted.sym = RemoteName(create_module(c.call.path), c.call.name)
    BY <1>1, CallOutcome DEF CallCase, RemoteCase
  <2>. QED  BY <2>1, <2>2
<1>2. CASE IsLocal(c)
  <2>1. LocalCase(c)
    BY <1>2, CallOutcome DEF CallCase
  <2>2. KernelPath \in Targets(c) /\ c.from \in Targets(c)
    BY <1>2 DEF Targets
  <2>3. CASE OwnMacro(c)
    <3>1. c.from # Nowhere
      BY <2>3, NoModule
    <3>2. c.emitted.sym =
            RemoteName(create_module(generate_remote_alias(create_module(c.from))), c.call.name)
      BY <2>1, <2>3 DEF LocalCase, RemoteCase
    <3>. QED  BY <2>2, <3>1, <3>2, OwnAlias, Aliases
  <2>4. CASE ~OwnMacro(c) /\ HiddenByOwn(c)
    <3>1. IsModule(c.from)
      BY <2>4, NoModule, OwnModule, Aliases
    <3>2. c.emitted.sym = RemoteName(create_module(c.from), c.call.name)
      BY <2>1, <2>4 DEF LocalCase
    <3>. QED  BY <2>2, <3>1, <3>2
  <2>5. CASE ~OwnMacro(c) /\ ~HiddenByOwn(c)
    <3>1. c.emitted.sym = RemoteName(create_module(KernelPath), c.call.name)
      BY <2>1, <2>5 DEF LocalCase
    <3>. QED  BY <2>2, <3>1, Aliases
  <2>. QED  BY <2>3, <2>4, <2>5
<1>. QED  BY <1>1, <1>2

-----------------------------------------------------------------------------
(* RefusalExplained.                                                       *)

LEMMA RemoteRefusal ==
  ASSUME NamesInv, NEW e, e.type \in {"refused", "diverges"},
         NEW p, NEW f \in Name, NEW k, NEW n, RemoteCase(e, p, f, k, n),
         NEW q \in Alias, create_module(q) = create_module(p)
  PROVE  \E d \in Elixir \ Functions :
           \/ WrittenAlike(d.path, HeadName(d), q, f)
           \/ d.path = q /\ d.name = f /\ ~(q = p /\ d.arity = k)
<1>1. Expands(p, f, k, n) => p \in LoadedBefore(program, n).modules
  BY DEF Expands, Early, LoadedBefore
<1>2. Collides(p, f, n) /\ ~Expands(p, f, k, n)
  BY <1>1 DEF RemoteCase
<1>3. PICK d \in Elixir : Early(d, n) /\ SameName(d.path, HeadName(d), p, f)
  BY <1>2 DEF Collides
<1>4. SameName(d.path, HeadName(d), q, f)
  BY <1>3 DEF SameName
<1>5. d \notin Functions
  BY <1>3, MacroOrFunction DEF Early
<1>6. ~(d.path = p /\ d.name = f /\ d.arity = k)
  BY <1>2, <1>3 DEF Expands
<1>7. WrittenAlike(d.path, HeadName(d), q, f) \/ (d.path = q /\ d.name = f)
  BY <1>4, MacroAlikeOrSame
<1>. QED  BY <1>5, <1>6, <1>7

LEMMA RefusalStep == NamesInv => RefusalExplained
<1>. SUFFICES ASSUME NamesInv, NEW c \in calls, c.emitted.type \in {"refused", "diverges"}
              PROVE  \E q \in Targets(c) : \E d \in Elixir \ Functions :
                       \/ WrittenAlike(d.path, HeadName(d), q, c.call.name)
                       \/ /\ d.path = q /\ d.name = c.call.name
                          /\ d.arity = c.call.arity => IsLocal(c) /\ Underscored(q)
  BY DEF RefusalExplained
<1>. DEFINE e == c.emitted
            p == c.call.path
            f == c.call.name
            k == c.call.arity
<1>1. f \in Name /\ e.type \in {"refused", "diverges"}
  BY CallFacts
<1>2. CASE ~IsLocal(c)
  <2>1. p \in Alias /\ p \in Targets(c)
    BY <1>2, CallFacts, AliasParts DEF IsLocal, Targets
  <2>2. RemoteCase(e, p, f, k, Then(c))
    BY <1>2, CallOutcome DEF CallCase
  <2>3. \E d \in Elixir \ Functions :
          \/ WrittenAlike(d.path, HeadName(d), p, f)
          \/ d.path = p /\ d.name = f /\ d.arity # k
    <3>. HIDE DEF e, p, f, k
    <3>1. ASSUME NEW q \in Alias, create_module(q) = create_module(p)
          PROVE  \E d \in Elixir \ Functions :
                   \/ WrittenAlike(d.path, HeadName(d), q, f)
                   \/ d.path = q /\ d.name = f /\ ~(q = p /\ d.arity = k)
      BY <1>1, <2>2, <3>1, RemoteRefusal
    <3>. QED  BY <2>1, <3>1
  <2>. QED  BY <2>1, <2>3
<1>3. CASE IsLocal(c)
  <2>. DEFINE q == c.from
              r == generate_remote_alias(create_module(q))
  <2>1. LocalCase(c)
    BY <1>3, CallOutcome DEF CallCase
  <2>2. OwnMacro(c) /\ RemoteCase(e, r, f, k, c.seen)
    BY <2>1 DEF LocalCase
  <2>3. q \in Alias /\ create_module(q) = create_module(r) /\ (r = q <=> ~Underscored(q))
    BY <2>2, NoModule, OwnAlias
  <2>4. \E d \in Elixir \ Functions :
          \/ WrittenAlike(d.path, HeadName(d), q, f)
          \/ d.path = q /\ d.name = f /\ ~(q = r /\ d.arity = k)
    <3>. HIDE DEF e, p, f, k, q, r
    <3>. QED  BY <1>1, <2>2, <2>3, RemoteRefusal
  <2>5. q \in Targets(c)
    BY <1>3 DEF Targets
  <2>. QED  BY <1>3, <2>3, <2>4, <2>5
<1>. QED  BY <1>2, <1>3

(* The compiler raises or never returns only at a call of a name that is a *)
(* macro's: of another number of arguments, or of the call's own module    *)
(* that has an underscore in its name, or written alike; whatever modules  *)
(* the program has and however many (create_remote and                     *)
(* generate_remote_alias of ElixirAOT.Transformator).                      *)
THEOREM RefusalExplainedHolds == Spec => []RefusalExplained
BY NamesHold, RefusalStep, PTL

-----------------------------------------------------------------------------
(* WrongTargetExplained.                                                   *)

LEMMA WrongTargetStep == NamesInv => WrongTargetExplained
<1>. SUFFICES ASSUME NamesInv, NEW c \in calls, NEW d \in ReachedBy(c), d \notin Meaning(c)
              PROVE  \/ \E q \in Targets(c) : WrittenAlike(d.path, d.name, q, c.call.name)
                     \/ d.kind = "defp" /\ d.path = c.call.path
  BY DEF WrongTargetExplained
<1>1. /\ d \in Functions /\ d \in Elixir /\ c.emitted.type = "call"
      /\ CppName(d) = c.emitted.sym /\ d.arity = c.call.arity
  BY DEF ReachedBy, Functions
<1>2. PICK q \in Targets(c) :
        IsModule(q) /\ c.emitted.sym = RemoteName(create_module(q), c.call.name)
  BY <1>1, CallTarget
<1>3. IsModule(d.path) /\ d.name \in Parts /\ c.call.name \in Parts
  BY <1>1, ElixirFacts, CallFacts, NameParts, Aliases
<1>4. RemoteName(create_module(d.path), d.name) = RemoteName(create_module(q), c.call.name)
  BY <1>1, <1>2 DEF CppName
<1>5. WrittenAlike(d.path, d.name, q, c.call.name) \/ (d.path = q /\ d.name = c.call.name)
  BY <1>2, <1>3, <1>4, SameRemoteName
<1>6. d \notin MeantBy(c.call, c.from)
  BY <1>1 DEF Meaning
<1>7. ASSUME d.path = q, d.name = c.call.name PROVE d.kind = "defp" /\ d.path = c.call.path
  BY <1>1, <1>2, <1>6, <1>7 DEF MeantBy, Targets, IsLocal
<1>. QED  BY <1>5, <1>7

(* A call of the linked program that ends in a definition it does not mean *)
(* ends in one written like a name it may mean, or in a private function   *)
(* of the module it names; for any modules and any number of calls         *)
(* (create_module and create_remote of ElixirAOT.Transformator).           *)
THEOREM WrongTargetExplainedHolds == Spec => []WrongTargetExplained
BY NamesHold, WrongTargetStep, PTL

-----------------------------------------------------------------------------
(* MacrosExpanded and PublicCallsArrive.                                   *)

LEMMA AcceptedMacro ==
  ASSUME NEW e, NEW p, NEW f, NEW k, NEW n, RemoteCase(e, p, f, k, n),
         e.type \notin {"refused", "diverges"}, Collides(p, f, n)
  PROVE  e.type = "macro" /\ e.sym = <<p, f>> /\ Expands(p, f, k, n)
BY DEF RemoteCase

\* A macro that is known collides with its own name.
LEMMA OwnCollision ==
  ASSUME NamesInv, NEW d \in Elixir, NEW n, Early(d, n), NEW p, create_module(p) = create_module(d.path)
  PROVE  Collides(p, HeadName(d), n)
BY DEF Collides, SameName

LEMMA TwinsFree ==
  ASSUME NoTwins, NEW d \in Elixir, NEW e \in Elixir,
         NEW f \in NamesOf(d), NEW g \in NamesOf(e), d.path # e.path
  PROVE  create_module(d.path) \o f # create_module(e.path) \o g
BY DEF NoTwins, WrittenAlike

\* The outcome for a call of a macro or function of its own module that is hidden by a macro.
LEMMA OwnMacroOutcome ==
  ASSUME NamesInv, NoTwins, Going, NEW c \in calls, IsLocal(c), c.place = "body", OwnMacro(c),
         NEW d \in Elixir, d.path = c.from, d.name = c.call.name
  PROVE  /\ c.emitted.type = "macro" /\ c.emitted.sym = <<c.from, c.call.name>>
         /\ Expands(c.from, c.call.name, c.call.arity, c.seen)
<1>. DEFINE e == c.emitted
            p == c.from
            f == c.call.name
            k == c.call.arity
            q == generate_remote_alias(create_module(p))
<1>1. RemoteCase(e, q, f, k, c.seen)
  BY CallOutcome DEF CallCase, LocalCase
<1>2. e.type \notin {"refused", "diverges"}
  BY DEF Going
<1>3. p # Nowhere
  BY NoModule
<1>4. create_module(q) = create_module(p) /\ c.seen \in 1..Len(program) /\ p = program[c.seen].path
  BY <1>3, OwnAlias, OwnModule
<1>5. PICK m \in Elixir : IsMacro(m) /\ m.path = p /\ HeadName(m) = f
  BY DEF OwnMacro
<1>. HIDE DEF e, p, f, k, q
<1>6. Early(m, c.seen)
  BY <1>4, <1>5 DEF Early
<1>7. Collides(q, f, c.seen)
  BY <1>4, <1>5, <1>6, OwnCollision
<1>8. e.type = "macro" /\ e.sym = <<q, f>> /\ Expands(q, f, k, c.seen)
  BY <1>1, <1>2, <1>7, AcceptedMacro
<1>9. PICK x \in Elixir : x.path = q /\ x.name = f
  BY <1>8 DEF Expands
<1>10. d.path = p /\ d.name = f
  BY DEF p, f
<1>11. f \in NamesOf(d) /\ f \in NamesOf(x)
  BY <1>9, <1>10 DEF NamesOf
<1>12. p = q
  BY <1>4, <1>9, <1>10, <1>11, TwinsFree
<1>. QED  BY <1>8, <1>12 DEF e, p, f, k

\* No program defines a macro of Kernel.
LEMMA KernelDefinitions ==
  ASSUME NamesInv, NEW d \in Elixir, d.path = KernelPath
  PROVE  d \in Library /\ d.kind = "def"
<1>1. \A i \in 1..Len(program) : program[i].path # KernelPath
  BY ModulesAssumption DEF NamesInv, ProgramOK
<1>2. \A p, e : Definition(p, e).path = p
  BY DEF Definition
<1>. QED  BY <1>1, <1>2, ElixirFacts

LEMMA MacrosStep == NamesInv => MacrosExpanded
<1>. SUFFICES ASSUME NamesInv, Finished, NoTwins, NEW c \in calls, NEW d \in Meaning(c),
                     d.kind = "defmacro"
              PROVE  IF c.place = "case" /\ IsLocal(c) THEN c.emitted.type = "text"
                     ELSE c.emitted.type = "macro" /\ c.emitted.sym = <<d.path, d.name>>
  BY DEF MacrosExpanded
<1>1. d \in MeantBy(c.call, c.from)
  BY DEF Meaning
<1>2. d \in Elixir /\ d.name = c.call.name /\ d.arity = c.call.arity
  BY <1>1 DEF MeantBy
<1>3. IsMacro(d) /\ d \notin Functions
  BY DEF IsMacro, Functions
<1>4. \E i \in 1..c.seen : program[i].path = d.path
  BY <1>3 DEF Meaning
<1>5. c.place \in {"body", "case"} /\ c.seen \in 0..Len(program) /\ Len(program) \in Nat
      /\ Then(c) \in c.seen..Len(program)
  BY CallFacts DEF Then
<1>6. Early(d, c.seen) /\ Early(d, Then(c))
  BY <1>3, <1>4, <1>5 DEF Early
<1>7. HeadName(d) = d.name
  BY <1>2, HeadNames
<1>8. Going /\ c.emitted.type \notin {"refused", "diverges"}
  BY DEF Finished, Going
<1>9. CASE ~IsLocal(c)
  <2>1. d.path = c.call.path
    BY <1>1, <1>9 DEF MeantBy, IsLocal
  <2>2. RemoteCase(c.emitted, d.path, d.name, c.call.arity, Then(c))
    BY <1>2, <1>9, <2>1, CallOutcome DEF CallCase
  <2>3. Collides(d.path, d.name, Then(c))
    BY <1>2, <1>6, <1>7, OwnCollision
  <2>4. c.emitted.type = "macro" /\ c.emitted.sym = <<d.path, d.name>>
    BY <1>8, <2>2, <2>3, AcceptedMacro
  <2>. QED  BY <1>9, <2>4
<1>10. CASE IsLocal(c) /\ c.place = "body"
  <2>1. d.path # KernelPath
    BY <1>2, <1>3, KernelDefinitions
  <2>2. d.path = c.from
    BY <1>1, <1>10, <2>1 DEF MeantBy, IsLocal
  <2>3. OwnMacro(c)
    BY <1>2, <1>3, <1>7, <2>2 DEF OwnMacro
  <2>4. c.emitted.type = "macro" /\ c.emitted.sym = <<c.from, c.call.name>>
    BY <1>2, <1>8, <1>10, <2>2, <2>3, OwnMacroOutcome
  <2>. QED  BY <1>2, <1>10, <2>2, <2>4
<1>11. CASE IsLocal(c) /\ c.place = "case"
  BY <1>11, CallOutcome DEF CallCase
<1>. QED  BY <1>5, <1>9, <1>10, <1>11

(* A call that means a macro whose definition has no guard is expanded, as *)
(* that macro, or makes Kernel.inspect's text when it is a local one in a  *)
(* case; for any modules no two of whose definitions are written alike     *)
(* (create_remote, create_ast of ElixirAOT.Transformator).                 *)
THEOREM MacrosExpandedHolds == Spec => []MacrosExpanded
BY NamesHold, MacrosStep, PTL

LEMMA OnlyReached ==
  ASSUME NamesInv, NoTwins, NEW c \in calls, NEW d \in Functions,
         c.emitted.type = "call", c.emitted.sym = CppName(d), d.arity = c.call.arity
  PROVE  ReachedBy(c) = {d}
<1>1. d \in Elixir
  BY DEF Functions
<1>2. d \in ReachedBy(c)
  BY DEF ReachedBy
<1>3. ASSUME NEW x \in ReachedBy(c) PROVE x = d
  <2>1. x \in Elixir /\ CppName(x) = CppName(d) /\ x.arity = d.arity
    BY DEF ReachedBy, Functions
  <2>2. /\ IsModule(x.path) /\ IsModule(d.path) /\ x.name \in Parts /\ d.name \in Parts
    BY <1>1, <2>1, ElixirFacts, NameParts, Aliases
  <2>3. RemoteName(create_module(x.path), x.name) = RemoteName(create_module(d.path), d.name)
    BY <2>1 DEF CppName
  <2>4. WrittenAlike(x.path, x.name, d.path, d.name) \/ (x.path = d.path /\ x.name = d.name)
    BY <2>2, <2>3, SameRemoteName
  <2>5. ~WrittenAlike(x.path, x.name, d.path, d.name)
    BY <1>1, <2>1 DEF NoTwins, NamesOf
  <2>. QED  BY <1>1, <2>1, <2>4, <2>5, OneOfAKind
<1>. QED  BY <1>2, <1>3

LEMMA PublicStep == NamesInv /\ HostInv => PublicCallsArrive
<1>. SUFFICES ASSUME NamesInv, HostInv, Finished, NoTwins, NEW c \in calls, NEW d \in Meaning(c),
                     d.kind = "def",
                     IsLocal(c) =>
                       /\ c.place = "body"
                       /\ d.path = c.from \/ (d.name \in KernelNames /\ ~HiddenByOwn(c))
              PROVE  ReachedBy(c) = {d}
  BY DEF PublicCallsArrive
<1>1. d \in MeantBy(c.call, c.from)
  BY DEF Meaning
<1>2. d \in Elixir /\ d.name = c.call.name /\ d.arity = c.call.arity /\ d.path \in Alias
  BY <1>1, ElixirFacts DEF MeantBy
<1>3. d \in Functions
  BY <1>2 DEF Functions
<1>4. Going /\ c.emitted.type \notin {"refused", "diverges"}
  BY DEF Finished, Going
<1>5. ASSUME NEW p, NEW n, Expands(p, d.name, d.arity, n) PROVE p # d.path
  <2>1. PICK x \in Elixir : IsMacro(x) /\ x.path = p /\ x.name = d.name /\ x.arity = d.arity
    BY <1>5 DEF Expands, Early
  <2>2. x # d
    BY <2>1 DEF IsMacro
  <2>. QED  BY <1>2, <2>1, <2>2, OneOfAKind
<1>6. CASE ~IsLocal(c)
  <2>1. d.path = c.call.path
    BY <1>1, <1>6 DEF MeantBy, IsLocal
  <2>2. RemoteCase(c.emitted, d.path, d.name, d.arity, Then(c))
    BY <1>2, <1>6, <2>1, CallOutcome DEF CallCase
  <2>3. ~Collides(d.path, d.name, Then(c))
    BY <1>4, <1>5, <2>2, AcceptedMacro
  <2>4. c.emitted.type = "call" /\ c.emitted.sym = CppName(d)
    BY <2>2, <2>3 DEF RemoteCase, CppName
  <2>. QED  BY <1>2, <1>3, <2>4, OnlyReached
<1>7. CASE IsLocal(c) /\ d.path = c.from
  <2>1. LocalCase(c)
    BY <1>7, CallOutcome DEF CallCase
  <2>2. ~OwnMacro(c)
    BY <1>2, <1>4, <1>5, <1>7, OwnMacroOutcome
  <2>3. HiddenByOwn(c)
    BY <1>2, <1>7 DEF HiddenByOwn
  <2>4. c.emitted.type = "call" /\ c.emitted.sym = CppName(d)
    BY <1>2, <1>7, <2>1, <2>2, <2>3 DEF LocalCase, CppName
  <2>. QED  BY <1>2, <1>3, <2>4, OnlyReached
<1>8. CASE IsLocal(c) /\ d.path # c.from
  <2>1. LocalCase(c)
    BY <1>8, CallOutcome DEF CallCase
  <2>2. d.path = KernelPath /\ d.name \in KernelNames /\ ~HiddenByOwn(c)
    BY <1>1, <1>8 DEF MeantBy, IsLocal
  <2>3. ~OwnMacro(c)
    <3>. SUFFICES ASSUME OwnMacro(c) PROVE FALSE
      OBVIOUS
    <3>1. PICK m \in Elixir : IsMacro(m) /\ m.path = c.from /\ HeadName(m) = c.call.name
      BY DEF OwnMacro
    <3>2. c.call.name \in Name
      BY CallFacts
    <3>3. m.name = c.call.name
      BY <3>1, <3>2, HeadNames
    <3>4. Expands(c.from, c.call.name, c.call.arity, c.seen)
      BY <1>4, <1>8, <3>1, <3>3, OwnMacroOutcome
    <3>5. PICK x \in Elixir : x.path = c.from /\ x.name = c.call.name /\ x.arity = c.call.arity
      BY <3>4 DEF Expands
    <3>6. x \in MeantBy(c.call, c.from)
      BY <1>8, <3>5 DEF MeantBy, IsLocal
    <3>7. c.from # Nowhere
      BY NoModule
    <3>. QED  BY <1>1, <1>8, <3>5, <3>6, <3>7 DEF HostInv
  <2>4. c.emitted.type = "call" /\ c.emitted.sym = CppName(d)
    BY <1>2, <2>1, <2>2, <2>3 DEF LocalCase, CppName
  <2>. QED  BY <1>2, <1>3, <2>4, OnlyReached
<1>. QED  BY <1>6, <1>7, <1>8

(* A call of a public function ends in the one definition it means, for    *)
(* any modules no two of whose definitions are written alike: from other   *)
(* modules, from its own, and of a function of Kernel that kernel.ex lists *)
(* (create_ast, create_remote and create_module of                         *)
(* ElixirAOT.Transformator, traverse_state_list of ElixirAOT.Traverser).   *)
THEOREM PublicCallsArriveHolds == Spec => []PublicCallsArrive
BY NamesHold, PublicStep, PTL
=============================================================================
