--------------------------- MODULE TransformProofs ---------------------------
(* Proofs about Transform, for any prompts and any draws of identifiers:   *)
(* the tables and, in the second half, when transform raises.              *)
EXTENDS Transform, SequenceTheorems, TLAPS

(* A session of Session compiles :error as well, an empty program: what is *)
(* proved here of a step is proved with it.                                *)
Inputs == Prompts \cup {<<>>}

\* What is emitted makes no table, and the walk goes on behind it.
Emits ==
  \/ \E op \in {"call", "local", "text"} : At(op) /\ Emit({todo[1]}, Tail(todo))
  \/ At("macro") /\ Emit({}, Tail(todo))

Steps ==
  \/ \E prompt \in Inputs : StartTransform(prompt)
  \/ Emits
  \/ ExpandMacro \/ RequireRaises \/ HostRaises
  \/ \E id \in Ids : CompileCase(id) \/ OpenDef(id)
  \/ OpenModule \/ CloseDef \/ CloseModule
  \/ FinishWalk \/ FinishTransform
  \/ Restart \/ Rescue
  \/ Over

\* What transform is called in, Transform's sessions and Session's.
Runs == Init /\ [][Steps]_vars

LEMMA SpecRuns == Spec => Runs
<1>1. CompileCall \/ CompileLocal \/ LeaveText \/ SkipMacro => Emits
  BY DEF CompileCall, CompileLocal, LeaveText, SkipMacro, Emits
<1>2. ExpandAgain => UNCHANGED vars
  BY DEF ExpandAgain
<1>3. [Next]_vars => [Steps]_vars
  BY <1>1, <1>2 DEF Steps, Next, Walk, Inputs
<1>. QED BY <1>3, PTL DEF Spec, Runs

LEMMA InputsParsed == \A p \in Inputs : Parsed(p)
<1>1. Range(<<>>) = {}
  BY DEF Range
<1>2. Walked(<<>>) = {}
  BY <1>1 DEF Walked
<1>3. Visited(<<>>) = {}
  BY <1>2 DEF Visited, OuterCases
<1>4. Parsed(<<>>)
  BY <1>2, <1>3 DEF Parsed, Apart
<1>. QED BY <1>4, PromptsAssumption DEF Inputs

IsFrame(f) == f = [kind |-> f.kind, name |-> f.name, calls |-> f.calls]

Shape(s) == s \in Seq({s[i] : i \in 1..Len(s)}) /\ \A i \in 1..Len(s) : IsFrame(s[i])

Kinds == {"main", "module", "def", "case"}

(* What is on the stack: a main at the bottom while a prompt is compiled,  *)
(* a module above it, a def, which never has the name of a setup table,    *)
(* above a module.                                                         *)
Stack ==
  /\ phase \in {"idle", "crashed"} => frames = <<>>
  /\ phase \in {"walk", "cases"} => Len(frames) > 0
  /\ \A i \in 1..Len(frames) : i = 1 => frames[i].kind = "main"
  /\ \A i \in 1..Len(frames) :
       frames[i].kind = "def" => i > 2 /\ frames[i].name \notin SetupTables

(* While no module is open, every table is one terminate will delete.      *)
Clean ==
  phase # "crashed" /\ ~rescued =>
    \/ DOMAIN ets \subseteq registry
    \/ phase = "walk" /\ Len(frames) > 1

Separate == SetupTables \cap module_registry = {}

TransformInv ==
  /\ Shape(frames) /\ TypeOK /\ Stack /\ Separate /\ TablesAccounted /\ Clean /\ IdleClean

-----------------------------------------------------------------------------
(* The stack of frames.                                                    *)
LEMMA ShapeLen == ASSUME NEW s, Shape(s)
                  PROVE  Len(s) \in Nat /\ DOMAIN s = 1..Len(s)
BY DEF Shape

LEMMA ShapeIntro == ASSUME NEW S, NEW s \in Seq(S), \A f \in S : IsFrame(f) PROVE Shape(s)
BY DEF Shape

LEMMA EmptyShape == Shape(<<>>) /\ Len(<<>>) = 0
BY DEF Shape, IsFrame

LEMMA SingleShape == ASSUME NEW f, IsFrame(f) PROVE Shape(<<f>>) /\ Len(<<f>>) = 1
BY DEF Shape

LEMMA FrameIsFrame == \A k, n : IsFrame(Frame(k, n)) /\ Frame(k, n).kind = k
BY DEF IsFrame, Frame

LEMMA PushShape ==
  ASSUME NEW s, Shape(s), NEW f, IsFrame(f)
  PROVE  /\ Shape(Append(s, f))
         /\ Len(Append(s, f)) = Len(s) + 1
         /\ \A i \in 1..Len(s) : Append(s, f)[i] = s[i]
         /\ Append(s, f)[Len(s) + 1] = f
<1>. DEFINE S == {s[i] : i \in 1..Len(s)}
<1>1. s \in Seq(S) /\ \A g \in S : IsFrame(g)
  BY DEF Shape
<1>. HIDE DEF S
<1>2. s \in Seq(S \cup {f})
  BY <1>1
<1>3. Append(s, f) \in Seq(S \cup {f})
  BY <1>2, AppendProperties
<1>4. \A g \in S \cup {f} : IsFrame(g)
  BY <1>1
<1>5. Shape(Append(s, f))
  BY <1>3, <1>4, ShapeIntro
<1>. QED BY <1>2, <1>5, AppendProperties

LEMMA PopShape ==
  ASSUME NEW s, Shape(s), Len(s) > 0
  PROVE  LET t == SubSeq(s, 1, Len(s) - 1) IN
         Shape(t) /\ Len(t) = Len(s) - 1 /\ \A i \in 1..Len(t) : t[i] = s[i]
<1>. DEFINE S == {s[i] : i \in 1..Len(s)}
<1>1. s \in Seq(S) /\ \A g \in S : IsFrame(g)
  BY DEF Shape
<1>. HIDE DEF S
<1>. PICK n \in Nat : n = Len(s) - 1
  BY <1>1
<1>2. SubSeq(s, 1, n) \in Seq(S)
  BY <1>1
<1>3. Shape(SubSeq(s, 1, n))
  BY <1>1, <1>2, ShapeIntro
<1>4. Len(SubSeq(s, 1, n)) = n
  BY <1>1
<1>5. \A i \in 1..n : SubSeq(s, 1, n)[i] = s[i]
  BY <1>1
<1>. QED BY <1>3, <1>4, <1>5

SameKinds(s, t) ==
  /\ Len(t) = Len(s)
  /\ \A i \in 1..Len(s) : t[i].kind = s[i].kind /\ t[i].name = s[i].name

CallAdded(s, t, k, c) == t = [s EXCEPT ![k].calls = c]

LEMMA CallShape ==
  ASSUME NEW s, Shape(s), NEW k \in 1..Len(s), NEW c, NEW t, CallAdded(s, t, k, c)
  PROVE  Shape(t) /\ SameKinds(s, t)
<1>. DEFINE g == [s[k] EXCEPT !.calls = c]
<1>. DEFINE S == {s[i] : i \in 1..Len(s)}
<1>1. s \in Seq(S) /\ \A f \in S : IsFrame(f)
  BY DEF Shape
<1>. HIDE DEF S
<1>2. IsFrame(s[k])
  BY <1>1
<1>3. IsFrame(g) /\ g.kind = s[k].kind /\ g.name = s[k].name
  BY <1>2 DEF IsFrame
<1>4. t = [s EXCEPT ![k] = g]
  BY DEF CallAdded
<1>5. t \in Seq(S \cup {g}) /\ Len(t) = Len(s)
  BY <1>1, <1>4
<1>6. Shape(t)
  BY <1>1, <1>3, <1>5, ShapeIntro
<1>7. \A i \in 1..Len(s) : t[i] = IF i = k THEN g ELSE s[i]
  BY <1>1, <1>4
<1>. QED BY <1>3, <1>5, <1>6, <1>7 DEF SameKinds

-----------------------------------------------------------------------------
(* What the tables do.                                                     *)
LEMMA CreatedDomain == \A t, n : DOMAIN Created(t, n) = DOMAIN t \cup n
BY DEF Created

LEMMA DeletedDomain == \A t, n : DOMAIN Deleted(t, n) = DOMAIN t \ n
BY DEF Deleted, Restrict

LEMMA AppendedDomain == \A t, n, e : DOMAIN Appended(t, n, e) = DOMAIN t
BY DEF Appended

LEMMA PredefinedDomain == \A t, n : DOMAIN Predefined(t, n) = DOMAIN t
BY DEF Predefined

(* The tables of modules are none of those setup makes.                    *)
LEMMA ModuleTablesSeparate ==
  /\ \A m : SetupTables \cap TablesOfModule(m) = {}
  /\ ProcessedFunctions \notin SetupTables
  /\ \A m, f, id : SetupTables \cap TablesOfClause(ClauseTable(m, f, id)) = {}
BY DEF SetupTables, TablesOfModule, ModuleTable, FunctionsList, ProcessedFunctions,
       TablesOfClause, ClauseTable, FunctionOf, FunctionTable, Includes, ModulesTable,
       Predefines, PurgeTargets, GuardsTable, CasesTable

LEMMA CaseTablesSeparate ==
  ASSUME NEW t \in SetupTables PROVE t[1] # "case"
BY DEF SetupTables, Includes, ModulesTable, Predefines, PurgeTargets, GuardsTable, CasesTable

LEMMA InitInv == Init => TransformInv
BY EmptyShape DEF Init, TransformInv, Shape, TypeOK, Stack, Separate, TablesAccounted, Clean,
                  IdleClean, NoTables

-----------------------------------------------------------------------------
(* The tables stay accounted for when the ones made are registered and     *)
(* others are deleted.                                                     *)
LEMMA StartInv == ASSUME TransformInv, NEW prompt, StartTransform(prompt) PROVE TransformInv'
<1>. USE DEF StartTransform
<1>1. Shape(frames') /\ Len(frames') = 1 /\ frames'[1].kind = "main"
  <2>. DEFINE f == Frame("main", <<"main">>)
  <2>1. frames' = <<f>>
    OBVIOUS
  <2>2. IsFrame(f) /\ f.kind = "main"
    BY FrameIsFrame
  <2>. HIDE DEF f
  <2>3. Shape(frames') /\ Len(frames') = 1
    BY <2>1, <2>2, SingleShape
  <2>. QED BY <2>1, <2>2, <2>3
<1>2. DOMAIN ets' = DOMAIN ets \cup SetupTables
  BY CreatedDomain
<1>3. SetupTables \subseteq registry'
  BY DEF NewRows, TransformInv, TablesAccounted, Separate
<1>4. TypeOK'
  BY <1>1, <1>2, <1>3, ShapeLen DEF TypeOK
<1>5. Stack'
  BY <1>1 DEF Stack
<1>6. Len(frames) = 0
  BY EmptyShape DEF TransformInv, Stack
<1>7. TablesAccounted' /\ Separate' /\ Clean' /\ IdleClean'
  BY <1>2, <1>3, <1>6 DEF TransformInv, TablesAccounted, Separate, Clean, IdleClean, NewRows
<1>. QED BY <1>1, <1>4, <1>5, <1>7 DEF TransformInv

(* The innermost frame calls some more: the stack stays as it is.          *)
LEMMA CallingStack ==
  ASSUME TransformInv, Len(frames) > 0, NEW names, frames' = Calling(names)
  PROVE  Shape(frames') /\ SameKinds(frames, frames')
<1>. DEFINE k == Len(frames)
            c == frames[k].calls \cup names
<1>1. k \in 1..Len(frames)
  BY ShapeLen DEF TransformInv
<1>2. CallAdded(frames, frames', k, c)
  BY Zenon DEF Calling, CallAdded
<1>3. Shape(frames)
  BY DEF TransformInv
<1>. HIDE DEF k, c
<1>. QED BY <1>1, <1>2, <1>3, CallShape

(* The stack is well formed after a step that keeps its kinds.             *)
LEMMA SameStack ==
  ASSUME TransformInv, phase \in {"walk", "cases"}, UNCHANGED phase, Shape(frames'),
         SameKinds(frames, frames')
  PROVE  Stack' /\ \A i \in DOMAIN frames' : frames'[i].kind \in Kinds
<1>1. Shape(frames) /\ Stack /\ TypeOK
  BY DEF TransformInv
<1>2. DOMAIN frames = 1..Len(frames) /\ DOMAIN frames' = 1..Len(frames)
  BY <1>1, ShapeLen DEF SameKinds
<1>3. \A i \in DOMAIN frames' : frames'[i].kind \in Kinds
  BY <1>1, <1>2 DEF TypeOK, Kinds, SameKinds
<1>. QED BY <1>1, <1>3 DEF Stack, SameKinds

\* What Emits and ExpandMacro leave alone.
EmitStep ==
  /\ phase \in {"walk", "cases"} /\ todo # <<>>
  /\ \E names : frames' = Calling(names)
  /\ UNCHANGED <<phase, ets, registry, module_registry, host, session, since, rescued>>

LEMMA EmitSteps == Emits \/ ExpandMacro => EmitStep
BY Zenon DEF Emits, ExpandMacro, Emit, EmitStep, At, Next_item

LEMMA EmitInv == ASSUME TransformInv, EmitStep PROVE TransformInv'
<1>. USE DEF EmitStep
<1>1. Len(frames) > 0
  BY DEF TransformInv, Stack
<1>2. Shape(frames') /\ SameKinds(frames, frames')
  BY <1>1, CallingStack
<1>3. Stack' /\ \A i \in DOMAIN frames' : frames'[i].kind \in Kinds
  BY <1>2, SameStack
<1>4. TypeOK'
  BY <1>3 DEF TypeOK, Kinds, TransformInv
<1>5. Separate' /\ TablesAccounted' /\ Clean' /\ IdleClean'
  BY <1>2 DEF TransformInv, Separate, TablesAccounted, Clean, IdleClean, SameKinds
<1>. QED BY <1>2, <1>3, <1>4, <1>5 DEF TransformInv

\* The compiler's own Elixir raises: no table is made or deleted.
HostSays ==
  /\ phase \in {"walk", "cases"} /\ phase' = "crashed" /\ frames' = <<>>
  /\ UNCHANGED <<ets, registry, module_registry, session, since, rescued>>

LEMMA HostSteps == RequireRaises \/ HostRaises => HostSays
BY Zenon DEF RequireRaises, HostRaises, Raise, HostSays, At, history

LEMMA HostInv == ASSUME TransformInv, HostSays PROVE TransformInv'
BY EmptyShape DEF HostSays, TransformInv, TypeOK, Stack, Separate, TablesAccounted, Clean,
                  IdleClean, Shape

(* What the steps of the walk make of the set of tables.                   *)
LEMMA CaseDomain ==
  ASSUME NEW id, CompileCase(id) PROVE DOMAIN ets' = DOMAIN ets \cup {CaseTable(id)}
<1>. DEFINE name == CaseTable(id)
            new == {name}
            predefined == Predefined(ets, new)
            created == Created(predefined, new)
            made == Appended(created, CasesTable, name)
<1>1. ets' = [made EXCEPT ![name] = @ \o todo[1].body]
  BY DEF CompileCase
<1>2. DOMAIN predefined = DOMAIN ets
  BY PredefinedDomain
<1>. HIDE DEF predefined
<1>3. DOMAIN created = DOMAIN ets \cup {name}
  BY <1>2, CreatedDomain
<1>. HIDE DEF created
<1>4. DOMAIN made = DOMAIN ets \cup {name}
  BY <1>3, AppendedDomain
<1>. HIDE DEF made
<1>. QED BY <1>1, <1>4

NewOfClause(clause) == IF clause \notin DOMAIN ets THEN TablesOfClause(clause) ELSE {}

LEMMA CloseDefDomain ==
  ASSUME CloseDef PROVE DOMAIN ets' = DOMAIN ets \cup NewOfClause(InnerFrame.name)
<1>. DEFINE clause == InnerFrame.name
            isNew == clause \notin DOMAIN ets
            new == IF isNew THEN {clause, FunctionOf(clause)} ELSE {}
            made == Created(ets, new)
            base == Predefined(made, {clause})
            row == [base EXCEPT ![clause] = InnerFrame.calls]
            listed == Appended(row, FunctionsList, clause)
<1>1. ets' = row \/ ets' = Appended(listed, FunctionOf(clause), clause)
  BY Zenon DEF CloseDef, Raise
<1>2. DOMAIN made = DOMAIN ets \cup new
  BY CreatedDomain
<1>3. new = NewOfClause(clause)
  BY DEF NewOfClause, TablesOfClause
<1>. HIDE DEF made, new, isNew
<1>4. DOMAIN base = DOMAIN ets \cup new
  BY <1>2, PredefinedDomain
<1>. HIDE DEF base, clause
<1>5. DOMAIN row = DOMAIN ets \cup new
  BY <1>4
<1>. HIDE DEF row
<1>6. DOMAIN listed = DOMAIN ets \cup new
  BY <1>5, AppendedDomain
<1>. HIDE DEF listed
<1>7. DOMAIN ets' = DOMAIN ets \cup new
  BY <1>1, <1>5, <1>6, AppendedDomain
<1>. QED BY <1>3, <1>7 DEF clause

LEMMA CloseModuleDomain ==
  ASSUME CloseModule
  PROVE  IF FunctionsList \in DOMAIN ets
         THEN DOMAIN ets' = DOMAIN ets \ module_registry'
         ELSE DOMAIN ets' = DOMAIN ets \cup {ProcessedFunctions}
<1>. DEFINE functions == {m.function : m \in ModuleCode.managers}
            declared == Predefined(ets, functions)
            filled == [declared EXCEPT ![ModulesTable] = @ \cup {ModuleCode}]
<1>1. IF FunctionsList \in DOMAIN ets
      THEN ets' = Deleted(filled, module_registry')
      ELSE ets' = Created(ets, {ProcessedFunctions})
  BY Zenon DEF CloseModule, Raise
<1>2. DOMAIN declared = DOMAIN ets
  BY PredefinedDomain
<1>. HIDE DEF declared
<1>3. DOMAIN filled = DOMAIN ets
  BY <1>2
<1>. HIDE DEF filled
<1>4. CASE FunctionsList \in DOMAIN ets
  <2>1. ets' = Deleted(filled, module_registry')
    BY <1>1, <1>4
  <2>2. DOMAIN ets' = DOMAIN filled \ module_registry'
    BY <2>1, DeletedDomain, Zenon
  <2>. QED BY <1>3, <1>4, <2>2
<1>5. CASE FunctionsList \notin DOMAIN ets
  <2>1. ets' = Created(ets, {ProcessedFunctions})
    BY <1>1, <1>5
  <2>. QED BY <1>5, <2>1, CreatedDomain
<1>. QED BY <1>4, <1>5

(* The case's table is terminate's to delete.                              *)
LEMMA CaseInv == ASSUME TransformInv, NEW id, CompileCase(id) PROVE TransformInv'
<1>. USE DEF CompileCase, At, history
<1>. DEFINE name == CaseTable(id)
<1>1. Len(frames) > 0
  BY DEF TransformInv, Stack
<1>2. Shape(frames') /\ SameKinds(frames, frames')
  BY <1>1, CallingStack
<1>3. Stack' /\ \A i \in DOMAIN frames' : frames'[i].kind \in Kinds
  BY <1>2, SameStack
<1>4. DOMAIN ets' = DOMAIN ets \cup {name}
  BY CaseDomain
<1>5. registry' = IF name \in DOMAIN ets THEN registry ELSE registry \cup {name}
  OBVIOUS
<1>6. UNCHANGED <<phase, module_registry, rescued>> /\ phase \in {"walk", "cases"}
  OBVIOUS
<1>. HIDE DEF name, CompileCase
<1>7. TypeOK'
  BY <1>3, <1>4, <1>5, <1>6 DEF TypeOK, Kinds, TransformInv
<1>8. Separate' /\ TablesAccounted' /\ Clean' /\ IdleClean'
  BY <1>2, <1>4, <1>5, <1>6 DEF TransformInv, Separate, TablesAccounted, Clean, IdleClean,
                               SameKinds
<1>. QED BY <1>2, <1>3, <1>7, <1>8 DEF TransformInv

(* A frame is put on the stack: what has to be known of it.                *)
LEMMA PushStack ==
  ASSUME TransformInv, phase' \in {"walk", "cases"}, phase \in {"walk", "cases"},
         NEW f, IsFrame(f), frames' = Append(frames, f), f.kind \in Kinds \ {"main"},
         f.kind = "def" => Len(frames) > 1 /\ f.name \notin SetupTables
  PROVE  Shape(frames') /\ Stack' /\ Len(frames') = Len(frames) + 1
         /\ \A i \in DOMAIN frames' : frames'[i].kind \in Kinds
<1>1. Shape(frames) /\ Stack /\ TypeOK
  BY DEF TransformInv
<1>2. Len(frames) \in Nat \ {0} /\ DOMAIN frames = 1..Len(frames)
  BY <1>1, ShapeLen DEF Stack
<1>3. /\ Shape(frames')
      /\ Len(frames') = Len(frames) + 1
      /\ \A i \in 1..Len(frames) : frames'[i] = frames[i]
      /\ frames'[Len(frames) + 1] = f
  BY <1>1, PushShape
<1>4. DOMAIN frames' = 1..Len(frames) + 1
  BY <1>3, ShapeLen
<1>5. \A i \in DOMAIN frames' : frames'[i].kind \in Kinds
  BY <1>1, <1>2, <1>3, <1>4 DEF TypeOK, Kinds
<1>6. Stack'
  BY <1>1, <1>2, <1>3 DEF Stack, Kinds
<1>. QED BY <1>3, <1>5, <1>6

(* The innermost frame is taken off.                                       *)
LEMMA PopStack ==
  ASSUME TransformInv, Len(frames) > 1
  PROVE  LET outer == SubSeq(frames, 1, Len(frames) - 1) IN
         Shape(outer) /\ Len(outer) = Len(frames) - 1
         /\ \A i \in 1..Len(outer) : outer[i] = frames[i]
BY PopShape, ShapeLen DEF TransformInv

LEMMA RecordedDomain == \A t, m : DOMAIN Recorded(t, m) = DOMAIN t
BY DEF Recorded

LEMMA OpenModuleDomain ==
  ASSUME OpenModule PROVE DOMAIN ets' = DOMAIN ets \cup TablesOfModule(todo[1].name)
<1>. DEFINE made == Created(ets, TablesOfModule(todo[1].name))
<1>1. ets' = Recorded(made, todo[1])
  BY Zenon DEF OpenModule
<1>2. DOMAIN made = DOMAIN ets \cup TablesOfModule(todo[1].name)
  BY CreatedDomain
<1>. HIDE DEF made
<1>. QED BY <1>1, <1>2, RecordedDomain

LEMMA OpenModuleInv == ASSUME TransformInv, OpenModule PROVE TransformInv'
<1>. USE DEF OpenModule, history
<1>. DEFINE f == Frame("module", todo[1].name)
            tables == TablesOfModule(todo[1].name)
<1>1. IsFrame(f) /\ f.kind = "module"
  BY FrameIsFrame
<1>2. DOMAIN ets' = DOMAIN ets \cup tables
  BY OpenModuleDomain
<1>3. module_registry' = module_registry \cup tables /\ SetupTables \cap tables = {}
  BY ModuleTablesSeparate
<1>4. frames' = Append(frames, f) /\ phase = "walk" /\ UNCHANGED <<phase, registry, rescued>>
  OBVIOUS
<1>. HIDE DEF f, tables, OpenModule
<1>5. Shape(frames') /\ Stack' /\ Len(frames') = Len(frames) + 1
      /\ \A i \in DOMAIN frames' : frames'[i].kind \in Kinds
  BY <1>1, <1>4, PushStack DEF Kinds
<1>6. TypeOK'
  BY <1>2, <1>4, <1>5 DEF TypeOK, Kinds, TransformInv
<1>7. Len(frames') > 1
  BY <1>4, <1>5, ShapeLen DEF TransformInv, Stack
<1>8. Separate' /\ TablesAccounted' /\ Clean' /\ IdleClean'
  BY <1>2, <1>3, <1>4, <1>7 DEF TransformInv, Separate, TablesAccounted, Clean, IdleClean
<1>. QED BY <1>5, <1>6, <1>8 DEF TransformInv

LEMMA OpenDefInv == ASSUME TransformInv, NEW id, OpenDef(id) PROVE TransformInv'
<1>. USE DEF OpenDef
<1>. DEFINE clause == ClauseTable(InnerFrame.name, todo[1].fn, id)
            f == Frame("def", clause)
<1>1. IsFrame(f) /\ f.kind = "def" /\ f.name \notin SetupTables
  <2>1. clause \notin SetupTables
    BY ModuleTablesSeparate DEF TablesOfClause
  <2>. QED BY <2>1, FrameIsFrame DEF Frame
<1>2. Len(frames) > 1
  BY ShapeLen DEF TransformInv, Stack, InnerFrame
<1>3. frames' = Append(frames, f) /\ phase = "walk"
      /\ UNCHANGED <<phase, ets, registry, module_registry, rescued>>
  OBVIOUS
<1>. HIDE DEF f, clause, OpenDef
<1>4. Shape(frames') /\ Stack' /\ Len(frames') = Len(frames) + 1
      /\ \A i \in DOMAIN frames' : frames'[i].kind \in Kinds
  BY <1>1, <1>2, <1>3, PushStack DEF Kinds
<1>5. TypeOK'
  BY <1>3, <1>4 DEF TypeOK, Kinds, TransformInv
<1>6. Separate' /\ TablesAccounted' /\ Clean' /\ IdleClean'
  BY <1>2, <1>3, <1>4, ShapeLen DEF TransformInv, Separate, TablesAccounted, Clean, IdleClean
<1>. QED BY <1>4, <1>5, <1>6 DEF TransformInv

\* The frames below the one a def or a module leaves.
LEMMA CloseDefStack ==
  ASSUME TransformInv, CloseDef, FunctionsList \in DOMAIN ets
  PROVE  /\ Len(frames) > 2 /\ UNCHANGED phase
         /\ Shape(frames') /\ Len(frames') = Len(frames) - 1
         /\ \A i \in 1..Len(frames') : frames'[i] = frames[i]
<1>1. frames' = SubSeq(frames, 1, Len(frames) - 1) /\ UNCHANGED phase
      /\ phase = "walk" /\ InnerFrame.kind = "def"
  BY Zenon DEF CloseDef, Leaving
<1>2. Len(frames) > 2
  BY <1>1, ShapeLen DEF TransformInv, Stack, InnerFrame
<1>. QED BY <1>1, <1>2, PopStack, ShapeLen DEF TransformInv

LEMMA CloseModuleStack ==
  ASSUME TransformInv, CloseModule, FunctionsList \in DOMAIN ets
  PROVE  /\ Len(frames) > 1 /\ UNCHANGED phase
         /\ Shape(frames') /\ Len(frames') = Len(frames) - 1
         /\ \A i \in 1..Len(frames') :
              frames'[i].kind = frames[i].kind /\ frames'[i].name = frames[i].name
<1>. DEFINE outer == SubSeq(frames, 1, Len(frames) - 1)
            calls == outer[Len(outer)].calls \cup InnerFrame.calls
<1>1. frames' = [outer EXCEPT ![Len(outer)].calls = calls] /\ UNCHANGED phase
      /\ phase = "walk" /\ InnerFrame.kind = "module"
  BY Zenon DEF CloseModule, Leaving
<1>2. Len(frames) > 1
  BY <1>1, ShapeLen DEF TransformInv, Stack, InnerFrame
<1>3. Shape(outer) /\ Len(outer) = Len(frames) - 1
      /\ \A i \in 1..Len(outer) : outer[i] = frames[i]
  BY <1>2, PopStack
<1>4. CallAdded(outer, frames', Len(outer), calls)
  BY <1>1, Zenon DEF CallAdded
<1>. HIDE DEF outer, calls
<1>5. Len(frames) \in Nat
  BY ShapeLen DEF TransformInv
<1>6. Shape(frames') /\ SameKinds(outer, frames')
  BY <1>2, <1>3, <1>4, <1>5, CallShape
<1>. QED BY <1>1, <1>2, <1>3, <1>6 DEF SameKinds

(* What def made is registered, and its module is still open.              *)
LEMMA CloseDefInv == ASSUME TransformInv, CloseDef PROVE TransformInv'
<1>. DEFINE clause == InnerFrame.name
            new == NewOfClause(clause)
<1>1. DOMAIN ets' = DOMAIN ets \cup new
  BY CloseDefDomain
<1>2. module_registry' = module_registry \cup new
      /\ phase = "walk" /\ InnerFrame.kind = "def" /\ UNCHANGED <<registry, rescued>>
  BY Zenon DEF CloseDef, Leaving, NewOfClause, Raise, history
<1>3. Len(frames) > 2 /\ clause \notin SetupTables
  BY <1>2, ShapeLen DEF TransformInv, Stack, InnerFrame
<1>4. SetupTables \cap new = {}
  BY <1>3 DEF NewOfClause, TablesOfClause, FunctionOf, FunctionTable, SetupTables, Includes,
              ModulesTable, Predefines, PurgeTargets, GuardsTable, CasesTable
<1>5. Separate' /\ TablesAccounted'
  BY <1>1, <1>2, <1>4 DEF TransformInv, Separate, TablesAccounted
<1>. HIDE DEF new, clause
<1>6. CASE FunctionsList \notin DOMAIN ets
  <2>1. phase' = "crashed" /\ frames' = <<>>
    BY <1>6, Zenon DEF CloseDef, Raise
  <2>. QED
    BY <1>5, <2>1, EmptyShape DEF TransformInv, TypeOK, Stack, Clean, IdleClean, Shape
<1>7. CASE FunctionsList \in DOMAIN ets
  <2>1. /\ UNCHANGED phase
        /\ Shape(frames') /\ Len(frames') = Len(frames) - 1
        /\ \A i \in 1..Len(frames') : frames'[i] = frames[i]
    BY <1>7, CloseDefStack
  <2>2. Len(frames) \in Nat /\ DOMAIN frames = 1..Len(frames) /\ DOMAIN frames' = 1..Len(frames')
    BY <2>1, ShapeLen DEF TransformInv
  <2>3. TypeOK'
    BY <1>1, <1>2, <2>1, <2>2 DEF TransformInv, TypeOK
  <2>4. Stack'
    BY <1>2, <1>3, <2>1, <2>2 DEF TransformInv, Stack
  <2>5. Clean' /\ IdleClean'
    BY <1>2, <1>3, <2>1, <2>2 DEF TransformInv, Clean, IdleClean
  <2>. QED BY <1>5, <2>1, <2>3, <2>4, <2>5 DEF TransformInv
<1>. QED BY <1>6, <1>7

(* The end of a module deletes what any module registered.                 *)
LEMMA CloseModuleInv == ASSUME TransformInv, CloseModule PROVE TransformInv'
<1>1. /\ module_registry' = module_registry \cup {ProcessedFunctions}
      /\ phase = "walk" /\ InnerFrame.kind = "module" /\ UNCHANGED <<registry, rescued>>
  BY Zenon DEF CloseModule, Leaving, Raise, history
<1>2. Separate'
  BY <1>1, ModuleTablesSeparate DEF TransformInv, Separate
<1>3. Len(frames) > 1
  BY <1>1, ShapeLen DEF TransformInv, Stack, InnerFrame
<1>4. CASE FunctionsList \notin DOMAIN ets
  <2>1. phase' = "crashed" /\ frames' = <<>>
    BY <1>4, Zenon DEF CloseModule, Raise
  <2>2. DOMAIN ets' = DOMAIN ets \cup {ProcessedFunctions}
    BY <1>4, CloseModuleDomain
  <2>3. TablesAccounted'
    BY <1>1, <2>2 DEF TransformInv, TablesAccounted
  <2>. QED
    BY <1>2, <2>1, <2>3, EmptyShape DEF TransformInv, TypeOK, Stack, Clean, IdleClean, Shape
<1>5. CASE FunctionsList \in DOMAIN ets
  <2>1. /\ UNCHANGED phase
        /\ Shape(frames') /\ Len(frames') = Len(frames) - 1
        /\ \A i \in 1..Len(frames') :
             frames'[i].kind = frames[i].kind /\ frames'[i].name = frames[i].name
    BY <1>5, CloseModuleStack
  <2>2. DOMAIN ets' = DOMAIN ets \ module_registry'
    BY <1>5, CloseModuleDomain
  <2>3. Len(frames) \in Nat /\ DOMAIN frames = 1..Len(frames) /\ DOMAIN frames' = 1..Len(frames')
    BY <2>1, ShapeLen DEF TransformInv
  <2>4. TypeOK'
    <3>1. SetupTables \subseteq DOMAIN ets' \cap registry'
      BY <1>1, <1>2, <2>2 DEF TransformInv, TypeOK, Separate
    <3>2. \A i \in DOMAIN frames' : frames'[i].kind \in Kinds
      BY <2>1, <2>3 DEF TransformInv, TypeOK, Kinds
    <3>. QED BY <1>1, <2>1, <3>1, <3>2 DEF TypeOK, Kinds
  <2>5. Stack'
    BY <1>1, <1>3, <2>1, <2>3 DEF TransformInv, Stack
  <2>6. TablesAccounted' /\ Clean' /\ IdleClean'
    BY <1>1, <2>1, <2>2 DEF TransformInv, TablesAccounted, Clean, IdleClean
  <2>. QED BY <1>2, <2>1, <2>4, <2>5, <2>6 DEF TransformInv
<1>. QED BY <1>4, <1>5

(* After the walk the main frame alone is left, so no module is open.      *)
LEMMA FinishWalkInv == ASSUME TransformInv, FinishWalk PROVE TransformInv'
<1>1. Len(frames) = 1 /\ phase = "walk"
      /\ UNCHANGED <<ets, registry, module_registry, rescued>>
  BY DEF FinishWalk, Raise, history
<1>2. Separate' /\ TablesAccounted'
  BY <1>1 DEF TransformInv, Separate, TablesAccounted
<1>3. CASE phase' = "crashed" /\ frames' = <<>>
  BY <1>2, <1>3, EmptyShape DEF TransformInv, TypeOK, Stack, Clean, IdleClean, Shape
<1>4. CASE phase' = "cases" /\ UNCHANGED frames
  <2>1. Shape(frames') /\ SameKinds(frames, frames')
    BY <1>4 DEF TransformInv, SameKinds
  <2>2. TypeOK' /\ Stack'
    BY <1>1, <1>4 DEF TransformInv, TypeOK, Stack
  <2>3. Clean' /\ IdleClean'
    BY <1>1, <1>4 DEF TransformInv, Clean, IdleClean
  <2>. QED BY <1>2, <2>1, <2>2, <2>3 DEF TransformInv
<1>5. CASE phase' = "cases" /\ \E name : frames' = Append(frames, Frame("case", name))
  <2>1. PICK name : frames' = Append(frames, Frame("case", name))
    BY <1>5
  <2>. DEFINE f == Frame("case", name)
  <2>2. IsFrame(f) /\ f.kind = "case"
    BY FrameIsFrame
  <2>3. frames' = Append(frames, f)
    BY <2>1
  <2>. HIDE DEF f
  <2>4. Shape(frames') /\ Stack' /\ \A i \in DOMAIN frames' : frames'[i].kind \in Kinds
    BY <1>1, <1>5, <2>2, <2>3, PushStack DEF Kinds
  <2>5. TypeOK'
    BY <1>1, <1>5, <2>4 DEF TransformInv, TypeOK, Kinds
  <2>6. Clean' /\ IdleClean'
    BY <1>1, <1>5 DEF TransformInv, Clean, IdleClean
  <2>. QED BY <1>2, <2>4, <2>5, <2>6 DEF TransformInv
<1>6. \/ phase' = "crashed" /\ frames' = <<>>
      \/ phase' = "cases" /\ UNCHANGED frames
      \/ phase' = "cases" /\ \E name : frames' = Append(frames, Frame("case", name))
  BY Zenon DEF FinishWalk, Raise
<1>. QED BY <1>3, <1>4, <1>5, <1>6

(* terminate deletes the tables of its registry: all there are.            *)
LEMMA FinishInv == ASSUME TransformInv, FinishTransform PROVE TransformInv'
<1>1. phase = "cases" /\ frames' = <<>>
      /\ UNCHANGED <<registry, module_registry, rescued>>
  BY DEF FinishTransform, Raise, history
<1>2. \/ phase' = "crashed" /\ DOMAIN ets' \subseteq DOMAIN ets
      \/ phase' = "idle" /\ DOMAIN ets' = DOMAIN ets \ registry
  <2>1. \/ phase' = "crashed" /\ ets' = Deleted(ets, DeletedBefore(registry \ DOMAIN ets))
        \/ phase' = "idle" /\ ets' = Deleted(ets, registry)
    BY Zenon DEF FinishTransform, Raise
  <2>2. CASE phase' = "crashed" /\ ets' = Deleted(ets, DeletedBefore(registry \ DOMAIN ets))
    <3>. DEFINE before == DeletedBefore(registry \ DOMAIN ets)
    <3>1. ets' = Deleted(ets, before)
      BY <2>2
    <3>. HIDE DEF before
    <3>2. DOMAIN ets' = DOMAIN ets \ before
      BY <3>1, DeletedDomain
    <3>. QED BY <2>2, <3>2
  <2>3. CASE phase' = "idle" /\ ets' = Deleted(ets, registry)
    BY <2>3, DeletedDomain
  <2>. QED BY <2>1, <2>2, <2>3
<1>3. Shape(frames') /\ Len(frames') = 0 /\ DOMAIN frames' = {}
  BY <1>1, EmptyShape
<1>4. TypeOK' /\ Stack'
  BY <1>1, <1>2, <1>3 DEF TypeOK, Stack
<1>5. Separate' /\ TablesAccounted' /\ Clean' /\ IdleClean'
  BY <1>1, <1>2, <1>3 DEF TransformInv, Separate, TablesAccounted, Clean, IdleClean
<1>. QED BY <1>3, <1>4, <1>5 DEF TransformInv

LEMMA RestartInv == ASSUME TransformInv, Restart PROVE TransformInv'
BY EmptyShape
DEF Restart, NoTables, TransformInv, TypeOK, Stack, Separate, TablesAccounted, Clean, IdleClean, Shape

LEMMA RescueInv == ASSUME TransformInv, Rescue PROVE TransformInv'
BY EmptyShape
DEF Rescue, TransformInv, TypeOK, Stack, Separate, TablesAccounted, Clean, IdleClean, Shape

LEMMA StutterInv == ASSUME TransformInv, UNCHANGED vars PROVE TransformInv'
BY DEF vars, history, TransformInv, TypeOK, Stack, Separate, TablesAccounted, Clean, IdleClean, Shape

LEMMA TransformInvStep == TransformInv /\ [Steps]_vars => TransformInv'
BY StartInv, EmitSteps, EmitInv, HostSteps, HostInv, CaseInv, OpenModuleInv, OpenDefInv, CloseDefInv, CloseModuleInv,
   FinishWalkInv, FinishInv, RestartInv, RescueInv, StutterInv
DEF Steps, Over

LEMMA TransformInvHolds == Runs => []TransformInv
BY InitInv, TransformInvStep, PTL DEF Runs

-----------------------------------------------------------------------------
(* TypeOK, for any session: the setup tables are there, and registered,    *)
(* whenever a prompt is compiled.                                          *)
THEOREM SetupTablesThere == Spec => []TypeOK
<1>1. TransformInv => TypeOK
  BY DEF TransformInv
<1>. QED BY <1>1, TransformInvHolds, SpecRuns, PTL

(* TablesAccounted, for any session: create_table and the registries of    *)
(* Processing and Modules lose no table, whatever raises and is rescued.   *)
THEOREM TablesAccountedHolds == Spec => []TablesAccounted
<1>1. TransformInv => TablesAccounted
  BY DEF TransformInv
<1>. QED BY <1>1, TransformInvHolds, SpecRuns, PTL

(* IdleClean, for any session: terminate_module_tables and terminate leave *)
(* no table behind unless an exception was rescued.                        *)
THEOREM IdleCleanHolds == Spec => []IdleClean
<1>1. TransformInv => IdleClean
  BY DEF TransformInv
<1>. QED BY <1>1, TransformInvHolds, SpecRuns, PTL

-----------------------------------------------------------------------------
(* The row of ex_aot_cases: it is a sequence that only grows, and the      *)
(* first prompt of a process is one of the session.                        *)
Row == CasesTable \in DOMAIN ets => \E S : ets[CasesTable] \in Seq(S)

Prompted ==
  /\ since \in Nat \ {0} /\ session \in Seq(Inputs)
  /\ since <= Len(session) + 1
  /\ phase # "idle" => since <= Len(session)

RowInv == TransformInv /\ Row /\ Prompted

TableSame(t) == t \in DOMAIN ets' /\ ets'[t] = ets[t]

RowSame == TableSame(CasesTable)

RowLonger(name) ==
  CasesTable \in DOMAIN ets' /\ ets'[CasesTable] = Append(ets[CasesTable], name)

Kept == RowSame \/ \E name : RowLonger(name)

LEMMA CreatedRow == \A t, n, k : k \in DOMAIN t => Created(t, n)[k] = t[k]
BY DEF Created

LEMMA PredefinedRow == \A t, n, k : k \in DOMAIN t /\ k # Predefines => Predefined(t, n)[k] = t[k]
BY DEF Predefined

LEMMA AppendedRow ==
  /\ \A t, n, e, k : k \in DOMAIN t /\ k # n => Appended(t, n, e)[k] = t[k]
  /\ \A t, n, e : n \in DOMAIN t => Appended(t, n, e)[n] = Append(t[n], e)
BY DEF Appended

LEMMA DeletedRow == \A t, n, k : k \in DOMAIN t \ n => Deleted(t, n)[k] = t[k]
BY DEF Deleted, Restrict

LEMMA RecordedRow == \A t, m, k : k \in DOMAIN t /\ k # GuardsTable => Recorded(t, m)[k] = t[k]
BY DEF Recorded

\* Tables that neither def nor defmodule writes to.
Other(t) ==
  /\ t \notin {Predefines, ModulesTable, FunctionsList, ProcessedFunctions}
  /\ \A clause : FunctionOf(clause) # t
  /\ t[1] # "clause"

LEMMA OtherTables ==
  /\ CasesTable \in SetupTables /\ CasesTable[1] # "case" /\ Other(CasesTable)
  /\ GuardsTable \in SetupTables /\ GuardsTable[1] # "case" /\ Other(GuardsTable)
  /\ CasesTable \notin {Predefines, ModulesTable, GuardsTable}
  /\ \A id : CaseTable(id) # CasesTable
  /\ \A t : t[1] = "case" => Other(t) /\ t # GuardsTable
BY CaseTablesSeparate
DEF SetupTables, CasesTable, Predefines, ModulesTable, FunctionsList, ProcessedFunctions,
    GuardsTable, CaseTable, FunctionOf, FunctionTable, Other

LEMMA StartKeeps ==
  ASSUME CasesTable \in DOMAIN ets, NEW prompt, StartTransform(prompt) PROVE RowSame
BY CreatedRow, CreatedDomain DEF StartTransform, RowSame, TableSame

LEMMA CaseKeeps ==
  ASSUME CasesTable \in DOMAIN ets, NEW id, CompileCase(id) PROVE RowLonger(CaseTable(id))
<1>. DEFINE name == CaseTable(id)
            new == {name}
            predefined == Predefined(ets, new)
            created == Created(predefined, new)
            made == Appended(created, CasesTable, name)
<1>1. ets' = [made EXCEPT ![name] = @ \o todo[1].body]
  BY DEF CompileCase
<1>2. CasesTable \in DOMAIN predefined /\ predefined[CasesTable] = ets[CasesTable]
  BY PredefinedRow, PredefinedDomain, OtherTables
<1>. HIDE DEF predefined
<1>3. CasesTable \in DOMAIN created /\ created[CasesTable] = ets[CasesTable]
  BY <1>2, CreatedRow, CreatedDomain
<1>. HIDE DEF created
<1>4. CasesTable \in DOMAIN made /\ made[CasesTable] = Append(ets[CasesTable], name)
  BY <1>3, AppendedRow, AppendedDomain
<1>5. name # CasesTable
  BY OtherTables
<1>. HIDE DEF made, name
<1>6. RowLonger(name)
  BY <1>1, <1>4, <1>5 DEF RowLonger
<1>. QED BY <1>6 DEF name

LEMMA OpenModuleKeeps ==
  ASSUME OpenModule, NEW t \in DOMAIN ets, t # GuardsTable PROVE TableSame(t)
<1>. DEFINE tables == TablesOfModule(todo[1].name)
            made == Created(ets, tables)
<1>1. ets' = Recorded(made, todo[1])
  BY DEF OpenModule
<1>2. t \in DOMAIN made /\ made[t] = ets[t]
  BY CreatedRow, CreatedDomain
<1>. HIDE DEF made
<1>. QED BY <1>1, <1>2, RecordedRow, RecordedDomain DEF TableSame

LEMMA CloseDefKeeps ==
  ASSUME CloseDef, NEW t \in DOMAIN ets, Other(t), t # InnerFrame.name PROVE TableSame(t)
<1>. DEFINE clause == InnerFrame.name
            isNew == clause \notin DOMAIN ets
            new == IF isNew THEN {clause, FunctionOf(clause)} ELSE {}
            made == Created(ets, new)
            base == Predefined(made, {clause})
            row == [base EXCEPT ![clause] = InnerFrame.calls]
            listed == Appended(row, FunctionsList, clause)
<1>1. \/ ets' = row
      \/ ets' = Appended(listed, FunctionOf(clause), clause)
  BY Zenon DEF CloseDef, Raise
<1>2. clause # t
  OBVIOUS
<1>3. t \in DOMAIN made /\ made[t] = ets[t]
  BY CreatedRow, CreatedDomain
<1>. HIDE DEF made
<1>4. t \in DOMAIN base /\ base[t] = ets[t]
  BY <1>3, PredefinedRow, PredefinedDomain DEF Other
<1>. HIDE DEF base, clause
<1>5. t \in DOMAIN row /\ row[t] = ets[t]
  BY <1>2, <1>4
<1>. HIDE DEF row
<1>6. t \in DOMAIN listed /\ listed[t] = ets[t]
  BY <1>5, AppendedRow, AppendedDomain DEF Other
<1>. HIDE DEF listed
<1>7. FunctionOf(clause) # t
  BY DEF Other
<1>. QED BY <1>1, <1>5, <1>6, <1>7, AppendedRow, AppendedDomain DEF TableSame

LEMMA CloseModuleKeeps ==
  ASSUME CloseModule, NEW t \in DOMAIN ets, Other(t), t \notin module_registry' PROVE TableSame(t)
<1>. DEFINE functions == {m.function : m \in ModuleCode.managers}
            declared == Predefined(ets, functions)
            filled == [declared EXCEPT ![ModulesTable] = @ \cup {ModuleCode}]
<1>1. \/ ets' = Created(ets, {ProcessedFunctions})
      \/ ets' = Deleted(filled, module_registry')
  BY Zenon DEF CloseModule, Raise
<1>2. t \in DOMAIN declared /\ declared[t] = ets[t]
  BY PredefinedRow, PredefinedDomain DEF Other
<1>. HIDE DEF declared
<1>3. t \in DOMAIN filled /\ filled[t] = ets[t]
  BY <1>2 DEF Other
<1>. HIDE DEF filled
<1>4. CASE ets' = Created(ets, {ProcessedFunctions})
  BY <1>4, CreatedRow, CreatedDomain DEF TableSame
<1>5. CASE ets' = Deleted(filled, module_registry')
  <2>1. t \in DOMAIN filled \ module_registry'
    BY <1>3
  <2>2. DOMAIN ets' = DOMAIN filled \ module_registry'
    BY <1>5, DeletedDomain, Zenon
  <2>3. ets'[t] = filled[t]
    BY <1>5, <2>1, DeletedRow, Zenon
  <2>. QED BY <1>3, <2>1, <2>2, <2>3 DEF TableSame
<1>. QED BY <1>1, <1>4, <1>5

\* The setup tables that are left alone by def and by the end of a module.
LEMMA SetupKept ==
  ASSUME TransformInv, NEW t \in SetupTables, Other(t), t \in DOMAIN ets, CloseDef \/ CloseModule
  PROVE  TableSame(t)
<1>1. CASE CloseDef
  <2>1. InnerFrame.name \notin SetupTables
    BY <1>1, ShapeLen DEF CloseDef, Leaving, TransformInv, Stack, InnerFrame
  <2>. QED BY <1>1, <2>1, CloseDefKeeps
<1>2. CASE CloseModule
  <2>1. t \notin module_registry'
    BY <1>2, ModuleTablesSeparate DEF CloseModule, TransformInv, Separate
  <2>. QED BY <1>2, <2>1, CloseModuleKeeps
<1>. QED BY <1>1, <1>2

LEMMA FinishKeeps ==
  ASSUME CasesTable \in DOMAIN ets', FinishTransform
  PROVE  CasesTable \in DOMAIN ets /\ ets'[CasesTable] = ets[CasesTable]
<1>1. PICK names : ets' = Deleted(ets, names)
  BY Zenon DEF FinishTransform, Raise
<1>2. CasesTable \in DOMAIN ets \ names
  BY <1>1, DeletedDomain
<1>3. Deleted(ets, names)[CasesTable] = ets[CasesTable]
  BY <1>2, DeletedRow
<1>. QED BY <1>1, <1>2, <1>3

\* What is kept of the row by a step that is neither the last of a prompt nor a restart.
LEMMA StepKeeps ==
  ASSUME TransformInv, CasesTable \in DOMAIN ets, [Steps]_vars, ~FinishTransform, ~Restart
  PROVE  Kept
<1>1. UNCHANGED ets \/ RowSame => Kept
  BY DEF Kept, RowSame, TableSame
<1>2. EmitStep \/ HostSays \/ FinishWalk \/ Rescue \/ Over \/ (\E id \in Ids : OpenDef(id))
      \/ UNCHANGED vars => UNCHANGED ets
  BY DEF EmitStep, HostSays, FinishWalk, Raise, Rescue, Over, OpenDef, vars
<1>. QED
  BY <1>1, <1>2, EmitSteps, HostSteps, StartKeeps, CaseKeeps, OpenModuleKeeps, SetupKept,
     OtherTables
  DEF Steps, Kept, RowSame

\* The row is made when a prompt is started.
LEMMA RowMadeAtStart ==
  ASSUME TransformInv, [Steps]_vars, CasesTable \notin DOMAIN ets, CasesTable \in DOMAIN ets',
         ~FinishTransform, ~Restart
  PROVE  \E prompt \in Inputs : StartTransform(prompt)
<1>1. phase \notin {"walk", "cases"}
  BY OtherTables DEF TransformInv, TypeOK
<1>. QED
  BY <1>1, EmitSteps, HostSteps
  DEF Steps, EmitStep, HostSays, CompileCase, At, OpenDef, OpenModule, CloseDef, CloseModule,
      FinishWalk, Rescue, Over, vars

LEMMA RowStep == RowInv /\ [Steps]_vars => Row'
<1>. SUFFICES ASSUME RowInv, [Steps]_vars, CasesTable \in DOMAIN ets'
              PROVE  \E S : ets'[CasesTable] \in Seq(S)
  BY DEF Row
<1>1. CASE Kept /\ CasesTable \in DOMAIN ets
  <2>1. PICK S : ets[CasesTable] \in Seq(S)
    BY <1>1 DEF RowInv, Row
  <2>2. CASE RowSame
    BY <2>1, <2>2 DEF RowSame, TableSame
  <2>3. CASE \E name : RowLonger(name)
    <3>1. PICK name : ets'[CasesTable] = Append(ets[CasesTable], name)
      BY <2>3 DEF RowLonger
    <3>2. ets[CasesTable] \in Seq(S \cup {name})
      BY <2>1
    <3>3. ets'[CasesTable] \in Seq(S \cup {name})
      BY <3>1, <3>2, AppendProperties
    <3>. QED BY <3>3
  <2>. QED BY <1>1, <2>2, <2>3 DEF Kept
<1>2. CASE FinishTransform
  BY <1>2, FinishKeeps DEF RowInv, Row
<1>3. CASE Restart
  BY <1>3 DEF Restart, NoTables
<1>4. CASE CasesTable \notin DOMAIN ets /\ ~FinishTransform /\ ~Restart
  <2>1. \E prompt \in Inputs : StartTransform(prompt)
    BY <1>4, RowMadeAtStart DEF RowInv
  <2>2. ets' = Created(ets, SetupTables)
    BY <2>1 DEF StartTransform
  <2>3. ets'[CasesTable] = Fresh(CasesTable)
    BY <1>4, <2>2, OtherTables DEF Created
  <2>4. Fresh(CasesTable) = <<>>
    BY OtherTables DEF Fresh
  <2>. QED BY <2>3, <2>4
<1>. QED BY <1>1, <1>2, <1>3, <1>4, StepKeeps DEF RowInv

LEMMA PromptedStep == RowInv /\ [Steps]_vars => Prompted'
<1>. SUFFICES ASSUME RowInv, [Steps]_vars PROVE Prompted'
  OBVIOUS
<1>. USE DEF RowInv, Prompted
<1>1. ASSUME NEW prompt \in Inputs, StartTransform(prompt) PROVE Prompted'
  BY <1>1, AppendProperties DEF StartTransform
<1>2. CASE Restart
  BY <1>2 DEF Restart
<1>3. CASE UNCHANGED <<session, since>> /\ (phase' # "idle" => phase # "idle")
  BY <1>3
<1>4. EmitStep \/ HostSays \/ (\E id \in Ids : CompileCase(id) \/ OpenDef(id)) \/ OpenModule
        \/ CloseDef \/ CloseModule \/ FinishWalk \/ FinishTransform \/ Rescue \/ Over
        \/ UNCHANGED vars
      => UNCHANGED <<session, since>> /\ (phase' # "idle" => phase # "idle")
  BY DEF EmitStep, HostSays, CompileCase, At, OpenDef, OpenModule, CloseDef, CloseModule,
         FinishWalk, FinishTransform, Rescue, Over, Raise, vars, history
<1>. QED BY <1>1, <1>2, <1>3, <1>4, EmitSteps, HostSteps DEF Steps

LEMMA RowInvHolds == Runs => []RowInv
<1>1. Init => Row /\ Prompted
  BY DEF Init, NoTables, Row, Prompted
<1>2. RowInv /\ [Steps]_vars => Row' /\ Prompted'
  BY RowStep, PromptedStep
<1>. QED BY <1>1, <1>2, InitInv, TransformInvStep, PTL DEF Runs, RowInv

(* PoisonedForGood, for any prompts: after a second case, no step but the  *)
(* end of the process takes the row of ex_aot_cases back to one element,   *)
(* since FinishWalk raises and terminate is never reached.                 *)
THEOREM PoisonedForGoodHolds == Spec => PoisonedForGood
<1>1. RowInv /\ [Steps]_vars => (Doomed /\ since' = since => Doomed')
  <2>. SUFFICES ASSUME RowInv, [Steps]_vars, Doomed, since' = since PROVE Doomed'
    OBVIOUS
  <2>1. ~Restart
    BY DEF Restart, RowInv, Prompted, Doomed
  <2>2. ~FinishTransform
    BY DEF FinishTransform, Doomed
  <2>3. Kept
    BY <2>1, <2>2, StepKeeps DEF RowInv, Doomed
  <2>4. PICK S : ets[CasesTable] \in Seq(S)
    BY DEF RowInv, Row, Doomed
  <2>5. Len(ets'[CasesTable]) > 1
    <3>1. CASE RowSame
      BY <3>1 DEF Doomed, RowSame, TableSame
    <3>2. ASSUME NEW name, RowLonger(name)
          PROVE  Len(ets'[CasesTable]) > 1
      <4>1. ets[CasesTable] \in Seq(S \cup {name}) /\ Len(ets[CasesTable]) \in Nat
        BY <2>4
      <4>. QED BY <3>2, <4>1, AppendProperties DEF Doomed, RowLonger
    <3>. QED BY <2>3, <3>1, <3>2 DEF Kept
  <2>6. phase' \in {"idle", "walk", "crashed"}
    <3>1. phase' \in {"idle", "walk", "crashed"} \/ phase' = phase \/ FinishWalk
      BY <2>1, <2>2, EmitSteps, HostSteps
      DEF Steps, StartTransform, EmitStep, HostSays, CompileCase, OpenDef, OpenModule, CloseDef,
          CloseModule, Rescue, Over, Raise, vars
    <3>2. FinishWalk => phase' = "crashed"
      BY DEF FinishWalk, Raise, TooMany, Doomed
    <3>. QED BY <3>1, <3>2 DEF Doomed
  <2>. QED BY <2>3, <2>5, <2>6 DEF Doomed, Kept, RowSame, TableSame, RowLonger
<1>. QED BY <1>1, RowInvHolds, SpecRuns, PTL DEF Runs, PoisonedForGood

-----------------------------------------------------------------------------
(* What is inside an item of a parsed prompt.                              *)
LEMMA OpenedMonotone == ASSUME NEW A, NEW B, A \subseteq B PROVE Opened(A) \subseteq Opened(B)
BY DEF Opened

LEMMA OpenedUnion == \A F : Opened(UNION F) = UNION {Opened(A) : A \in F}
BY DEF Opened

LEMMA InsideItself == \A i : i \in Inside(i)
BY DEF Inside, Opened

\* A set that is closed has inside it what is inside its elements.
LEMMA InsideClosed ==
  ASSUME NEW X, Opened(X) = X, NEW i \in X PROVE Inside(i) \subseteq X
<1>1. Opened({i}) \subseteq X
  BY OpenedMonotone
<1>2. Opened(Opened({i})) \subseteq X
  BY <1>1, OpenedMonotone
<1>. QED BY <1>2, OpenedMonotone DEF Inside

\* What is said of everything that is visited.
LEMMA ParsedItem ==
  ASSUME NEW p, Parsed(p), NEW i \in Walked(p)
  PROVE  /\ i.op \in {"module", "def", "macro", "case", "call", "local", "text"}
         /\ i.op \in {"macro", "local", "text"} => i.body = <<>>
         /\ i.op = "call" => \A d \in Inside(i) : d.op \in {"call", "text"}
         /\ Opened(Inside(i)) = Inside(i)
         /\ i.op # "case" => i.body \in Seq(Walked(p)) /\ Apart(i.body)
         /\ \A d \in Range(i.body) : i \notin Inside(d)
<1>1. i \in Visited(p)
  BY DEF Visited
<1>. QED BY <1>1 DEF Parsed

LEMMA WalkedInside ==
  ASSUME NEW p, Parsed(p), NEW i \in Walked(p) PROVE Inside(i) \subseteq Walked(p)
<1>1. PICK r \in Range(p) : i \in Inside(r)
  BY DEF Walked
<1>2. r \in Walked(p)
  BY InsideItself DEF Walked
<1>3. Inside(i) \subseteq Inside(r)
  BY <1>1, <1>2, InsideClosed, ParsedItem
<1>. QED BY <1>3 DEF Walked

\* Neither a case nor what has no body is opened.
LEMMA InsideLeaf ==
  ASSUME NEW i, i.op = "case" \/ i.body = <<>> PROVE Inside(i) = {i}
<1>1. Opened({i}) = {i}
  <2>1. CASE i.op = "case"
    BY <2>1 DEF Opened
  <2>2. CASE i.body = <<>>
    <3>1. Range(i.body) = {}
      BY <2>2 DEF Range
    <3>. QED BY <3>1 DEF Opened
  <2>. QED BY <2>1, <2>2
<1>. QED BY <1>1 DEF Inside

\* An item of a parsed prompt is opened into what is inside the items of its body.
LEMMA InsideParts ==
  ASSUME NEW p, Parsed(p), NEW i \in Walked(p), i.op # "case"
  PROVE  /\ Inside(i) = {i} \cup UNION {Inside(d) : d \in Range(i.body)}
         /\ i.body \in Seq(Walked(p)) /\ Apart(i.body)
         /\ \A d \in Range(i.body) : i \notin Inside(d)
<1>1. /\ i.body \in Seq(Walked(p)) /\ Apart(i.body)
      /\ \A d \in Range(i.body) : i \notin Inside(d)
  BY ParsedItem
<1>2. Range(i.body) \subseteq Walked(p)
  BY <1>1, RangeOfSeq
<1>3. Opened({i}) = {i} \cup Range(i.body)
  BY DEF Opened
<1>. DEFINE parts == {Inside(d) : d \in Range(i.body)}
            X == {i} \cup UNION parts
<1>4. Range(i.body) \subseteq UNION parts
  BY InsideItself
<1>5. Opened(UNION parts) = UNION parts
  <2>1. \A A \in parts : Opened(A) = A
    BY <1>2, ParsedItem
  <2>. HIDE DEF parts
  <2>2. {Opened(A) : A \in parts} = parts
    BY <2>1
  <2>3. Opened(UNION parts) = UNION {Opened(A) : A \in parts}
    BY OpenedUnion
  <2>. QED BY <2>2, <2>3
<1>6. Opened(X) = X
  <2>1. Opened(X) = Opened({i}) \cup Opened(UNION parts)
    BY DEF Opened
  <2>. QED BY <1>3, <1>4, <1>5, <2>1
<1>7. Inside(i) \subseteq X
  BY <1>6, InsideClosed
<1>8. X \subseteq Inside(i)
  <2>1. Opened(Inside(i)) = Inside(i)
    BY ParsedItem
  <2>2. Range(i.body) \subseteq Inside(i)
    <3>1. Opened({i}) \subseteq Opened(Inside(i))
      BY InsideItself, OpenedMonotone
    <3>. QED BY <1>3, <2>1, <3>1
  <2>. QED BY <2>1, <2>2, InsideItself, InsideClosed
<1>. QED BY <1>1, <1>7, <1>8


-----------------------------------------------------------------------------
(* What the walk has still ahead of it.  A step of it drops the first item *)
(* or puts its body and an end in its place.                               *)
Ends == {EndOf("module"), EndOf("def")}

Ahead(items) == UNION {Inside(items[j]) : j \in 1..Len(items)}

Entered(items, kind) == items[1].body \o <<EndOf(kind)>> \o Tail(items)

\* Items of a prompt, each in one place, and ends.
Pending(p, items) ==
  /\ items \in Seq(Walked(p) \cup Ends)
  /\ \A j, k \in 1..Len(items) :
       j # k /\ items[j] \notin Ends => Inside(items[j]) \cap Inside(items[k]) = {}

LEMMA EndsAreNoItems ==
  /\ \A e \in Ends : e.op = "end" /\ Inside(e) = {e}
  /\ \A p : Parsed(p) => Walked(p) \cap Ends = {}
<1>1. \A kind : EndOf(kind).op = "end" /\ EndOf(kind).body = <<>>
  BY DEF EndOf
<1>2. \A e \in Ends : e.op = "end" /\ e.body = <<>>
  BY <1>1 DEF Ends
<1>3. \A p : Parsed(p) => Walked(p) \cap Ends = {}
  BY <1>2, ParsedItem
<1>. QED BY <1>2, <1>3, InsideLeaf

LEMMA TailItems ==
  ASSUME NEW S, NEW s \in Seq(S), s # <<>>
  PROVE  /\ Tail(s) \in Seq(S) /\ Len(s) \in Nat \ {0} /\ Len(Tail(s)) = Len(s) - 1
         /\ \A j \in 1..Len(s) - 1 : Tail(s)[j] = s[j + 1]
         /\ s[1] \in S
OBVIOUS

LEMMA EnteredItems ==
  ASSUME NEW S, NEW s \in Seq(S), s # <<>>, s[1].body \in Seq(S), NEW kind, EndOf(kind) \in S
  PROVE  LET n == Len(s[1].body)
             t == Entered(s, kind)
         IN  /\ n \in Nat /\ t \in Seq(S) /\ Len(t) = n + Len(s)
             /\ \A j \in 1..n : t[j] = s[1].body[j]
             /\ t[n + 1] = EndOf(kind)
             /\ \A j \in 2..Len(s) : t[n + j] = s[j]
<1>. DEFINE b == s[1].body
            x == EndOf(kind)
            front == b \o <<x>>
            t == front \o Tail(s)
<1>1. Tail(s) \in Seq(S) /\ Len(s) \in Nat \ {0} /\ Len(Tail(s)) = Len(s) - 1
      /\ \A j \in 1..Len(s) - 1 : Tail(s)[j] = s[j + 1]
  BY TailItems
<1>2. b \in Seq(S) /\ x \in S /\ Len(b) \in Nat
  OBVIOUS
<1>. HIDE DEF b, x
<1>3. /\ front \in Seq(S) /\ Len(front) = Len(b) + 1
      /\ \A j \in 1..Len(b) : front[j] = b[j]
      /\ front[Len(b) + 1] = x
  BY <1>2
<1>. HIDE DEF front
<1>4. /\ t \in Seq(S) /\ Len(t) = Len(b) + Len(s)
      /\ \A j \in 1..Len(b) + 1 : t[j] = front[j]
      /\ \A j \in 1..Len(s) - 1 : t[Len(b) + 1 + j] = s[j + 1]
  <2>1. t \in Seq(S) /\ Len(t) = Len(front) + Len(Tail(s))
    BY <1>1, <1>3, ConcatProperties, Zenon
  <2>2. \A j \in 1..Len(front) : t[j] = front[j]
    BY <1>1, <1>3
  <2>3. ASSUME NEW j \in 1..Len(s) - 1 PROVE t[Len(b) + 1 + j] = s[j + 1]
    <3>1. t[Len(front) + j] = Tail(s)[j]
      BY <1>1, <1>3, <2>3
    <3>. QED BY <1>1, <1>3, <3>1
  <2>. HIDE DEF t
  <2>4. Len(t) = Len(b) + Len(s)
    BY <1>1, <1>2, <1>3, <2>1
  <2>5. \A j \in 1..Len(b) + 1 : t[j] = front[j]
    BY <1>3, <2>2
  <2>. QED BY <2>1, <2>3, <2>4, <2>5
<1>. HIDE DEF t
<1>5. \A j \in 2..Len(s) : t[Len(b) + j] = s[j]
  <2>. SUFFICES ASSUME NEW j \in 2..Len(s) PROVE t[Len(b) + j] = s[j]
    OBVIOUS
  <2>1. PICK i \in 1..Len(s) - 1 : j = i + 1
    BY <1>1
  <2>2. t[Len(b) + 1 + i] = s[i + 1]
    BY <1>4
  <2>3. Len(b) + 1 + i = Len(b) + j
    BY <1>2, <2>1
  <2>. QED BY <2>1, <2>2, <2>3
<1>6. t = Entered(s, kind)
  BY DEF Entered, t, front, b, x
<1>7. \A j \in 1..Len(b) : t[j] = b[j]
  BY <1>2, <1>3, <1>4
<1>8. t[Len(b) + 1] = x
  BY <1>2, <1>3, <1>4
<1>. QED BY <1>2, <1>4, <1>5, <1>6, <1>7, <1>8 DEF b, x


(* The items behind the first, behind what takes its place.                *)
Spliced(s, b, t) ==
  /\ Len(s) \in Nat \ {0} /\ Len(b) \in Nat
  /\ \A j \in 1..Len(t) :
       \/ j \in 1..Len(b) /\ t[j] = b[j]
       \/ \E i \in 2..Len(s) : j = Len(b) + i - 1 /\ t[j] = s[i]
  /\ \A j \in 1..Len(b) : j \in 1..Len(t) /\ t[j] = b[j]
  /\ \A i \in 2..Len(s) : Len(b) + i - 1 \in 1..Len(t) /\ t[Len(b) + i - 1] = s[i]

LEMMA SplicedItems ==
  ASSUME NEW S, NEW s \in Seq(S), s # <<>>, NEW b \in Seq(S)
  PROVE  b \o Tail(s) \in Seq(S) /\ Spliced(s, b, b \o Tail(s))
<1>. DEFINE r == Tail(s)
            t == b \o r
<1>1. /\ r \in Seq(S) /\ Len(s) \in Nat \ {0} /\ Len(r) = Len(s) - 1
      /\ \A j \in 1..Len(s) - 1 : r[j] = s[j + 1]
  BY TailItems
<1>. HIDE DEF r
<1>2. /\ t \in Seq(S) /\ Len(t) = Len(b) + Len(r) /\ Len(b) \in Nat
      /\ \A j \in 1..Len(b) : t[j] = b[j]
      /\ \A j \in 1..Len(r) : t[Len(b) + j] = r[j]
  <2>1. t \in Seq(S) /\ Len(t) = Len(b) + Len(r)
    BY <1>1, ConcatProperties, Zenon
  <2>2. \A j \in 1..Len(b) : t[j] = b[j]
    BY <1>1
  <2>3. \A j \in 1..Len(r) : t[Len(b) + j] = r[j]
    BY <1>1
  <2>4. Len(b) \in Nat
    OBVIOUS
  <2>. HIDE DEF t
  <2>. QED BY <2>1, <2>2, <2>3, <2>4
<1>. HIDE DEF t
<1>3. ASSUME NEW i \in 2..Len(s)
      PROVE  Len(b) + i - 1 \in 1..Len(t) /\ t[Len(b) + i - 1] = s[i]
  <2>1. i - 1 \in 1..Len(r) /\ (i - 1) + 1 = i /\ Len(b) + (i - 1) = Len(b) + i - 1
    BY <1>1, <1>2
  <2>2. t[Len(b) + (i - 1)] = r[i - 1] /\ r[i - 1] = s[i]
    BY <1>1, <1>2, <2>1
  <2>. QED BY <1>1, <1>2, <2>1, <2>2
<1>4. ASSUME NEW j \in 1..Len(t), j \notin 1..Len(b)
      PROVE  \E i \in 2..Len(s) : j = Len(b) + i - 1
  <2>1. j - Len(b) + 1 \in 2..Len(s) /\ j = Len(b) + (j - Len(b) + 1) - 1
    BY <1>1, <1>2, <1>4
  <2>. QED BY <2>1
<1>5. \A j \in 1..Len(b) : j \in 1..Len(t)
  BY <1>1, <1>2
<1>6. Spliced(s, b, t)
  BY <1>1, <1>2, <1>3, <1>4, <1>5 DEF Spliced
<1>. QED BY <1>2, <1>6 DEF t, r

\* An item ahead is one of the prompt or an end, and so is what is inside it.
LEMMA PendingItem ==
  ASSUME NEW p, Parsed(p), NEW s, Pending(p, s), NEW j \in 1..Len(s)
  PROVE  \/ s[j] \in Walked(p) /\ s[j] \notin Ends /\ Inside(s[j]) \subseteq Walked(p)
         \/ s[j] \in Ends /\ s[j] \notin Walked(p) /\ Inside(s[j]) = {s[j]}
<1>1. s[j] \in Walked(p) \cup Ends
  BY DEF Pending
<1>. QED BY <1>1, EndsAreNoItems, WalkedInside

LEMMA SkipPending ==
  ASSUME NEW p, Parsed(p), NEW s, Pending(p, s), s # <<>>
  PROVE  /\ Pending(p, Tail(s))
         /\ Ahead(s) = Inside(s[1]) \cup Ahead(Tail(s))
         /\ s[1] \notin Ends => Inside(s[1]) \cap Ahead(Tail(s)) = {}
<1>1. /\ Tail(s) \in Seq(Walked(p) \cup Ends) /\ Len(s) \in Nat \ {0}
      /\ Len(Tail(s)) = Len(s) - 1 /\ \A j \in 1..Len(s) - 1 : Tail(s)[j] = s[j + 1]
  BY TailItems DEF Pending
<1>2. \A j \in 1..Len(Tail(s)) : j + 1 \in 1..Len(s) /\ Tail(s)[j] = s[j + 1]
  BY <1>1
<1>3. Pending(p, Tail(s))
  BY <1>1, <1>2 DEF Pending
<1>4. Ahead(s) = Inside(s[1]) \cup Ahead(Tail(s))
  <2>1. ASSUME NEW j \in 1..Len(s), j # 1
        PROVE  \E k \in 1..Len(Tail(s)) : Tail(s)[k] = s[j]
    <3>1. j - 1 \in 1..Len(Tail(s)) /\ (j - 1) + 1 = j
      BY <1>1, <2>1
    <3>. QED BY <1>2, <3>1
  <2>2. 1 \in 1..Len(s)
    BY <1>1
  <2>. QED BY <1>2, <2>1, <2>2, ZenonT(60) DEF Ahead
<1>5. ASSUME s[1] \notin Ends, NEW j \in 1..Len(Tail(s))
      PROVE  Inside(s[1]) \cap Inside(Tail(s)[j]) = {}
  BY <1>1, <1>2, <1>5 DEF Pending
<1>. QED BY <1>3, <1>4, <1>5 DEF Ahead

LEMMA EnterPending ==
  ASSUME NEW p, Parsed(p), NEW s, Pending(p, s), s # <<>>,
         NEW kind \in {"module", "def"}, s[1].op = kind
  PROVE  LET b == s[1].body IN
         /\ s[1] \in Walked(p) /\ b \in Seq(Walked(p))
         /\ Inside(s[1]) = {s[1]} \cup Ahead(b) /\ s[1] \notin Ahead(b)
         /\ Pending(p, Entered(s, kind))
         /\ Ahead(s) = {s[1]} \cup Ahead(b) \cup Ahead(Tail(s))
         /\ Ahead(Entered(s, kind)) = Ahead(b) \cup {EndOf(kind)} \cup Ahead(Tail(s))
<1>. DEFINE b == s[1].body
            n == Len(b)
            x == EndOf(kind)
            t == Entered(s, kind)
            S == Walked(p) \cup Ends
<1>1. s \in Seq(S) /\ Len(s) \in Nat \ {0} /\ 1 \in 1..Len(s)
  BY TailItems DEF Pending
<1>2. s[1] \in Walked(p) /\ s[1] \notin Ends
  BY <1>1, PendingItem, EndsAreNoItems
<1>3. /\ Inside(s[1]) = {s[1]} \cup UNION {Inside(d) : d \in Range(b)}
      /\ b \in Seq(Walked(p)) /\ Apart(b)
      /\ \A d \in Range(b) : s[1] \notin Inside(d)
  BY <1>2, InsideParts
<1>4. Range(b) = {b[j] : j \in 1..n} /\ DOMAIN b = 1..n /\ n \in Nat
  BY <1>3, RangeEquality
<1>5. x \in Ends /\ Inside(x) = {x}
  BY EndsAreNoItems DEF Ends
<1>6. /\ t \in Seq(S) /\ Len(t) = n + Len(s)
      /\ \A j \in 1..n : t[j] = b[j]
      /\ t[n + 1] = x
      /\ \A j \in 2..Len(s) : t[n + j] = s[j]
  BY <1>1, <1>3, <1>5, EnteredItems
<1>7. ASSUME NEW j \in 1..Len(t)
      PROVE  \/ j \in 1..n
             \/ j = n + 1
             \/ \E i \in 2..Len(s) : j = n + i
  <2>1. CASE j > n + 1
    <3>1. j - n \in 2..Len(s) /\ n + (j - n) = j
      BY <1>1, <1>4, <1>6, <2>1
    <3>. QED BY <3>1
  <2>. QED BY <1>1, <1>4, <1>6, <2>1
<1>8. \A j \in 1..n : b[j] \in Walked(p) /\ b[j] \notin Ends /\ Inside(b[j]) \subseteq Inside(s[1])
                      /\ Inside(b[j]) \subseteq Walked(p)
  BY <1>3, <1>4, EndsAreNoItems, WalkedInside
<1>9. \A j, k \in 1..n : j # k => Inside(b[j]) \cap Inside(b[k]) = {}
  BY <1>3, <1>4 DEF Apart
<1>10. x \notin Walked(p)
  BY <1>5, EndsAreNoItems
<1>11. \A j \in 2..Len(s) : Inside(s[1]) \cap Inside(s[j]) = {}
  <2>1. \A j \in 2..Len(s) : j \in 1..Len(s) /\ j # 1
    BY <1>1
  <2>. HIDE DEF b, n, x, t, S
  <2>. QED BY <1>1, <1>2, <2>1, Zenon DEF Pending
<1>. HIDE DEF b, n, x, t
<1>12. ASSUME NEW j \in 1..Len(t), NEW k \in 1..Len(t), j # k, t[j] \notin Ends
       PROVE  Inside(t[j]) \cap Inside(t[k]) = {}
  <2>1. CASE j \in 1..n
    <3>1. CASE k \in 1..n
      BY <1>6, <1>9, <1>12, <2>1, <3>1
    <3>2. CASE k = n + 1
      BY <1>5, <1>6, <1>8, <1>10, <2>1, <3>2
    <3>3. CASE \E i \in 2..Len(s) : k = n + i
      <4>1. PICK i \in 2..Len(s) : k = n + i
        BY <3>3
      <4>2. t[j] = b[j] /\ t[k] = s[i]
        BY <1>6, <2>1, <4>1
      <4>. QED BY <1>8, <1>11, <2>1, <4>2
    <3>. QED BY <1>7, <3>1, <3>2, <3>3
  <2>2. CASE j = n + 1
    BY <1>5, <1>6, <1>12, <2>2
  <2>3. CASE \E i \in 2..Len(s) : j = n + i
    <3>1. PICK i \in 2..Len(s) : j = n + i
      BY <2>3
    <3>2. i \in 1..Len(s) /\ t[j] = s[i] /\ s[i] \in Walked(p) /\ Inside(s[i]) \subseteq Walked(p)
      BY <1>1, <1>6, <1>12, <3>1, PendingItem
    <3>3. CASE k \in 1..n
      BY <1>6, <1>8, <1>11, <3>2, <3>3
    <3>4. CASE k = n + 1
      BY <1>5, <1>6, <1>10, <3>2, <3>4
    <3>5. CASE \E l \in 2..Len(s) : k = n + l
      <4>1. PICK l \in 2..Len(s) : k = n + l
        BY <3>5
      <4>2. i # l /\ l \in 1..Len(s) /\ t[k] = s[l] /\ s[i] \notin Ends
        BY <1>1, <1>6, <1>12, <3>1, <3>2, <4>1
      <4>. QED BY <3>2, <4>2 DEF Pending
    <3>. QED BY <1>7, <3>3, <3>4, <3>5
  <2>. QED BY <1>7, <2>1, <2>2, <2>3
<1>13. Pending(p, t)
  BY <1>6, <1>12 DEF Pending
<1>14. Inside(s[1]) = {s[1]} \cup Ahead(b)
  BY <1>3, <1>4 DEF Ahead, n
<1>15. Ahead(s) = Inside(s[1]) \cup Ahead(Tail(s))
  BY SkipPending
<1>16. Ahead(t) = Ahead(b) \cup {x} \cup Ahead(Tail(s))
  <2>1. Len(Tail(s)) = Len(s) - 1 /\ \A j \in 1..Len(s) - 1 : Tail(s)[j] = s[j + 1]
    BY <1>1, TailItems
  <2>2. \A j \in 1..n : j \in 1..Len(t) /\ Inside(t[j]) = Inside(b[j])
    BY <1>1, <1>4, <1>6
  <2>3. n + 1 \in 1..Len(t) /\ Inside(t[n + 1]) = {x}
    BY <1>1, <1>4, <1>5, <1>6
  <2>4. \A j \in 1..Len(Tail(s)) : \E i \in 1..Len(t) : Inside(t[i]) = Inside(Tail(s)[j])
    <3>1. \A j \in 1..Len(s) - 1 : j + 1 \in 2..Len(s) /\ n + (j + 1) \in 1..Len(t)
      BY <1>1, <1>4, <1>6
    <3>. QED BY <1>6, <2>1, <3>1
  <2>5. \A j \in 2..Len(s) : \E i \in 1..Len(Tail(s)) : Inside(Tail(s)[i]) = Inside(s[j])
    <3>1. \A j \in 2..Len(s) : j - 1 \in 1..Len(s) - 1 /\ (j - 1) + 1 = j
      BY <1>1
    <3>. QED BY <2>1, <3>1
  <2>6. ASSUME NEW y \in Ahead(t) PROVE y \in Ahead(b) \cup {x} \cup Ahead(Tail(s))
    <3>1. PICK j \in 1..Len(t) : y \in Inside(t[j])
      BY <2>6 DEF Ahead
    <3>2. CASE j \in 1..n
      BY <2>2, <3>1, <3>2 DEF Ahead, n
    <3>3. CASE j = n + 1
      BY <2>3, <3>1, <3>3
    <3>4. CASE \E i \in 2..Len(s) : j = n + i
      BY <1>6, <2>5, <3>1, <3>4 DEF Ahead
    <3>. QED BY <1>7, <3>2, <3>3, <3>4
  <2>7. Ahead(b) \cup {x} \cup Ahead(Tail(s)) \subseteq Ahead(t)
    BY <2>2, <2>3, <2>4 DEF Ahead, n
  <2>. QED BY <2>6, <2>7
<1>17. s[1] \notin Ahead(b)
  BY <1>3, <1>4 DEF Ahead, n
<1>18. b \in Seq(Walked(p))
  BY <1>3
<1>19. Ahead(s) = {s[1]} \cup Ahead(b) \cup Ahead(Tail(s))
  BY <1>14, <1>15
<1>. QED BY <1>2, <1>13, <1>14, <1>16, <1>17, <1>18, <1>19 DEF b, x, t


\* A macro's call: what the host makes of it is inside it, calls and text.
LEMMA ExpandPending ==
  ASSUME NEW p, Parsed(p), NEW s, Pending(p, s), s # <<>>, s[1].op = "call"
  PROVE  LET b == s[1].body
             t == b \o Tail(s)
         IN  /\ Spliced(s, b, t) /\ Pending(p, t) /\ s[1] \notin Ends
             /\ \A j \in 1..Len(b) : Inside(b[j]) \subseteq Inside(s[1]) /\ b[j] \notin Ends
             /\ \A d \in Inside(s[1]) : d.op \in {"call", "text"}
             /\ Ahead(t) \subseteq Ahead(s) /\ Ahead(s) \subseteq Inside(s[1]) \cup Ahead(t)
<1>. DEFINE b == s[1].body
            t == b \o Tail(s)
            S == Walked(p) \cup Ends
<1>1. s \in Seq(S) /\ Len(s) \in Nat \ {0} /\ 1 \in 1..Len(s)
  BY TailItems DEF Pending
<1>2. s[1] \in Walked(p) /\ s[1] \notin Ends
  BY <1>1, PendingItem, EndsAreNoItems
<1>3. /\ Inside(s[1]) = {s[1]} \cup UNION {Inside(d) : d \in Range(b)}
      /\ b \in Seq(Walked(p)) /\ Apart(b)
  BY <1>2, InsideParts
<1>4. Range(b) = {b[j] : j \in 1..Len(b)} /\ DOMAIN b = 1..Len(b)
  BY <1>3, RangeEquality
<1>5. b \in Seq(S)
  BY <1>3
<1>6. t \in Seq(S) /\ Spliced(s, b, t)
  BY <1>1, <1>5, SplicedItems
<1>7. \A j \in 1..Len(b) : b[j] \notin Ends /\ Inside(b[j]) \subseteq Inside(s[1])
  BY <1>3, <1>4, EndsAreNoItems
<1>8. \A j, k \in 1..Len(b) : j # k => Inside(b[j]) \cap Inside(b[k]) = {}
  BY <1>3, <1>4 DEF Apart
<1>9. \A d \in Inside(s[1]) : d.op \in {"call", "text"}
  BY <1>2, ParsedItem
<1>. HIDE DEF b, t, S
<1>10. \A i \in 2..Len(s) : i \in 1..Len(s) /\ i # 1
  BY <1>1
<1>11. \A i \in 2..Len(s) : Inside(s[1]) \cap Inside(s[i]) = {}
  BY <1>1, <1>2, <1>10, Zenon DEF Pending
<1>12. ASSUME NEW j \in 1..Len(t), NEW k \in 1..Len(t), j # k, t[j] \notin Ends
       PROVE  Inside(t[j]) \cap Inside(t[k]) = {}
  <2>1. CASE j \in 1..Len(b) /\ k \in 1..Len(b)
    BY <1>6, <1>8, <1>12, <2>1 DEF Spliced
  <2>2. CASE \E i \in 2..Len(s) : j = Len(b) + i - 1 /\ t[j] = s[i]
    <3>1. PICK i \in 2..Len(s) : j = Len(b) + i - 1 /\ t[j] = s[i]
      BY <2>2
    <3>2. CASE k \in 1..Len(b) /\ t[k] = b[k]
      BY <1>7, <1>11, <3>1, <3>2
    <3>3. CASE \E l \in 2..Len(s) : k = Len(b) + l - 1 /\ t[k] = s[l]
      <4>1. PICK l \in 2..Len(s) : k = Len(b) + l - 1 /\ t[k] = s[l]
        BY <3>3
      <4>2. i # l
        BY <1>12, <3>1, <4>1
      <4>. QED BY <1>10, <1>12, <3>1, <4>1, <4>2 DEF Pending
    <3>. QED BY <1>6, <3>2, <3>3 DEF Spliced
  <2>3. CASE j \in 1..Len(b) /\ t[j] = b[j] /\ k \notin 1..Len(b)
    <3>1. PICK l \in 2..Len(s) : t[k] = s[l]
      BY <1>6, <2>3 DEF Spliced
    <3>. QED BY <1>7, <1>11, <2>3, <3>1
  <2>. QED BY <1>6, <2>1, <2>2, <2>3 DEF Spliced
<1>13. Pending(p, t)
  BY <1>6, <1>12 DEF Pending, S
<1>14. Ahead(t) \subseteq Ahead(s)
  <2>. SUFFICES ASSUME NEW j \in 1..Len(t) PROVE Inside(t[j]) \subseteq Ahead(s)
    BY DEF Ahead
  <2>1. CASE j \in 1..Len(b) /\ t[j] = b[j]
    BY <1>1, <1>7, <2>1 DEF Ahead
  <2>2. CASE \E i \in 2..Len(s) : t[j] = s[i]
    BY <1>10, <2>2 DEF Ahead
  <2>. QED BY <1>6, <2>1, <2>2 DEF Spliced
<1>15. Ahead(s) \subseteq Inside(s[1]) \cup Ahead(t)
  <2>. SUFFICES ASSUME NEW i \in 1..Len(s) PROVE Inside(s[i]) \subseteq Inside(s[1]) \cup Ahead(t)
    BY DEF Ahead
  <2>1. CASE i \in 2..Len(s)
    <3>1. Len(b) + i - 1 \in 1..Len(t) /\ t[Len(b) + i - 1] = s[i]
      BY <1>6, <2>1 DEF Spliced
    <3>. QED BY <3>1 DEF Ahead
  <2>. QED BY <1>1, <2>1
<1>. QED BY <1>2, <1>6, <1>7, <1>9, <1>13, <1>14, <1>15 DEF b, t


-----------------------------------------------------------------------------
(* Modules inside modules.  As long as there is none, what is ahead is     *)
(* outside of modules or in one module; if there is one it is ahead, or an *)
(* open module has it ahead, or two modules are open, or the inner one has *)
(* been left and the outer one not.                                        *)
HasModule(item) == \E n \in Inside(item) : n.op = "module"

Nests(m) == m.op = "module" /\ \E n \in Inside(m) : n # m /\ n.op = "module"

NothingOpen(items) == \A j \in 1..Len(items) : items[j] \notin Ends

OneModuleOpen(items) ==
  \E e \in 1..Len(items) :
    /\ items[e] = EndOf("module")
    /\ \A j \in 1..Len(items) : j > e => items[j] \notin Ends
    /\ \A j \in 1..Len(items) : j < e => items[j] # EndOf("module") /\ ~HasModule(items[j])

ModuleOpen(items) == \E e \in 1..Len(items) : items[e] = EndOf("module")

NestingAhead(items) == \E m \in Ahead(items) : Nests(m)

NestingOpen(items) ==
  \E e, j \in 1..Len(items) :
    j < e /\ items[e] = EndOf("module") /\ (items[j] = EndOf("module") \/ HasModule(items[j]))

LEMMA EndsDiffer == EndOf("module") \in Ends /\ EndOf("def") \in Ends /\ EndOf("module") # EndOf("def")
BY DEF Ends, EndOf

LEMMA NestsWalked ==
  ASSUME NEW p, Parsed(p) PROVE HasNestedModule(p) <=> \E m \in Walked(p) : Nests(m)
BY DEF HasNestedModule, ModulesOf, Nests

\* What has no module in it.
Plain(item) == item.op \in {"call", "local", "text", "macro", "case"} \/ item \in Ends

LEMMA PlainHasNoModule ==
  ASSUME NEW p, Parsed(p), NEW i \in Walked(p) \cup Ends, Plain(i)
  PROVE  i.op # "module" /\ ~HasModule(i)
<1>1. CASE i.op = "call" /\ i \notin Ends
  <2>1. \A d \in Inside(i) : d.op \in {"call", "text"}
    BY <1>1, ParsedItem
  <2>. QED BY <1>1, <2>1 DEF HasModule
<1>2. CASE i.op # "call" \/ i \in Ends
  <2>1. i.op # "module" /\ Inside(i) = {i}
    BY <1>2, InsideLeaf, EndsAreNoItems, ParsedItem DEF Plain
  <2>. QED BY <2>1 DEF HasModule
<1>. QED BY <1>1, <1>2

LEMMA DropsOutside ==
  ASSUME NEW p, NEW s, Pending(p, s), s # <<>>
  PROVE  /\ NothingOpen(s) => NothingOpen(Tail(s))
         /\ OneModuleOpen(s) /\ s[1] # EndOf("module") => OneModuleOpen(Tail(s))
         /\ OneModuleOpen(s) /\ s[1] = EndOf("module") => NothingOpen(Tail(s))
<1>1. /\ Len(s) \in Nat \ {0} /\ Len(Tail(s)) = Len(s) - 1
      /\ \A j \in 1..Len(Tail(s)) : j + 1 \in 1..Len(s) /\ Tail(s)[j] = s[j + 1]
  BY TailItems DEF Pending
<1>2. NothingOpen(s) => NothingOpen(Tail(s))
  BY <1>1 DEF NothingOpen
<1>. DEFINE Sole(items, e) ==
              /\ items[e] = EndOf("module")
              /\ \A j \in 1..Len(items) : j > e => items[j] \notin Ends
              /\ \A j \in 1..Len(items) :
                   j < e => items[j] # EndOf("module") /\ ~HasModule(items[j])
<1>3. ASSUME NEW e \in 1..Len(s), Sole(s, e), s[1] # EndOf("module")
      PROVE  OneModuleOpen(Tail(s))
  <2>1. e - 1 \in 1..Len(Tail(s)) /\ e - 1 + 1 = e
    BY <1>1, <1>3
  <2>2. Sole(Tail(s), e - 1)
    BY <1>1, <1>3, <2>1
  <2>. QED BY <2>1, <2>2 DEF OneModuleOpen
<1>4. ASSUME NEW e \in 1..Len(s), Sole(s, e), s[1] = EndOf("module")
      PROVE  NothingOpen(Tail(s))
  <2>1. e = 1
    BY <1>1, <1>4
  <2>. QED BY <1>1, <1>4, <2>1 DEF NothingOpen
<1>. QED BY <1>2, <1>3, <1>4 DEF OneModuleOpen

LEMMA DropsNested ==
  ASSUME NEW p, Parsed(p), NEW s, Pending(p, s), s # <<>>, Plain(s[1])
  PROVE  /\ NestingAhead(s) => NestingAhead(Tail(s))
         /\ NestingOpen(s) /\ s[1] # EndOf("module") => NestingOpen(Tail(s))
         /\ NestingOpen(s) => ModuleOpen(Tail(s))
         /\ ModuleOpen(s) /\ s[1] # EndOf("module") => ModuleOpen(Tail(s))
<1>1. /\ Len(s) \in Nat \ {0} /\ Len(Tail(s)) = Len(s) - 1
      /\ s[1] \in Walked(p) \cup Ends
      /\ \A j \in 1..Len(s) - 1 : Tail(s)[j] = s[j + 1]
  BY TailItems DEF Pending
<1>2. \A j \in 2..Len(s) : j - 1 \in 1..Len(Tail(s)) /\ Tail(s)[j - 1] = s[j]
  <2>. SUFFICES ASSUME NEW j \in 2..Len(s)
                PROVE  j - 1 \in 1..Len(Tail(s)) /\ Tail(s)[j - 1] = s[j]
    OBVIOUS
  <2>1. PICK i \in 1..Len(s) - 1 : j = i + 1 /\ i = j - 1
    BY <1>1
  <2>. QED BY <1>1, <2>1
<1>3. s[1].op # "module" /\ ~HasModule(s[1])
  BY <1>1, PlainHasNoModule
<1>4. NestingAhead(s) => NestingAhead(Tail(s))
  BY <1>3, SkipPending DEF NestingAhead, Nests, HasModule
<1>5. ASSUME NEW e \in 1..Len(s), NEW j \in 1..Len(s), j < e, s[e] = EndOf("module"),
             s[j] = EndOf("module") \/ HasModule(s[j])
      PROVE  /\ s[1] # EndOf("module") => NestingOpen(Tail(s))
             /\ ModuleOpen(Tail(s))
  <2>1. e \in 2..Len(s)
    BY <1>1, <1>5
  <2>2. ModuleOpen(Tail(s))
    BY <1>2, <1>5, <2>1 DEF ModuleOpen
  <2>3. ASSUME s[1] # EndOf("module") PROVE NestingOpen(Tail(s))
    <3>1. j \in 2..Len(s)
      BY <1>1, <1>3, <1>5, <2>3
    <3>2. j - 1 < e - 1
      BY <1>1, <1>5
    <3>. QED BY <1>2, <1>5, <2>1, <3>1, <3>2 DEF NestingOpen
  <2>. QED BY <2>2, <2>3
<1>6. ModuleOpen(s) /\ s[1] # EndOf("module") => ModuleOpen(Tail(s))
  <2>1. \A e \in 1..Len(s) : e # 1 => e \in 2..Len(s)
    BY <1>1
  <2>. QED BY <1>2, <2>1 DEF ModuleOpen
<1>. QED BY <1>4, <1>5, <1>6 DEF NestingOpen


\* Behind what has no module in it, the same modules are open and ahead.
Passed(s, t) ==
  /\ NothingOpen(s) => NothingOpen(t)
  /\ OneModuleOpen(s) => OneModuleOpen(t)
  /\ NestingAhead(s) => NestingAhead(t)
  /\ NestingOpen(s) => NestingOpen(t)
  /\ ModuleOpen(s) => ModuleOpen(t)

LEMMA DropsPass ==
  ASSUME NEW p, Parsed(p), NEW s, Pending(p, s), s # <<>>, Plain(s[1]), s[1] # EndOf("module")
  PROVE  Passed(s, Tail(s))
BY DropsOutside, DropsNested DEF Passed

LEMMA ExpandsPass ==
  ASSUME NEW p, Parsed(p), NEW s, Pending(p, s), s # <<>>, s[1].op = "call"
  PROVE  Passed(s, s[1].body \o Tail(s))
<1>. DEFINE b == s[1].body
            t == b \o Tail(s)
            n == Len(b)
<1>1. /\ Spliced(s, b, t) /\ s[1] \notin Ends
      /\ \A j \in 1..Len(b) : Inside(b[j]) \subseteq Inside(s[1]) /\ b[j] \notin Ends
      /\ \A d \in Inside(s[1]) : d.op \in {"call", "text"}
      /\ Ahead(s) \subseteq Inside(s[1]) \cup Ahead(t)
  BY ExpandPending
<1>. HIDE DEF b, t
<1>2. /\ Len(s) \in Nat \ {0} /\ n \in Nat
      /\ \A j \in 1..Len(t) :
           \/ j \in 1..n /\ t[j] = b[j]
           \/ \E i \in 2..Len(s) : j = n + i - 1 /\ t[j] = s[i]
      /\ \A i \in 2..Len(s) : n + i - 1 \in 1..Len(t) /\ t[n + i - 1] = s[i]
  BY <1>1 DEF Spliced
<1>. HIDE DEF n
<1>3. ~HasModule(s[1]) /\ s[1] # EndOf("module")
  BY <1>1, EndsDiffer DEF HasModule
<1>4. \A j \in 1..n : b[j] # EndOf("module") /\ b[j] \notin Ends /\ ~HasModule(b[j])
  BY <1>1, EndsDiffer DEF HasModule, n
<1>5. /\ \A i \in 1..Len(s) : i # 1 => i \in 2..Len(s)
      /\ \A i \in 2..Len(s) : i \in 1..Len(s)
  BY <1>2
<1>6. NothingOpen(s) => NothingOpen(t)
  BY <1>2, <1>4, <1>5, Zenon DEF NothingOpen
<1>7. ASSUME NEW e \in 1..Len(s), s[e] = EndOf("module"),
             \A j \in 1..Len(s) : j > e => s[j] \notin Ends,
             \A j \in 1..Len(s) : j < e => s[j] # EndOf("module") /\ ~HasModule(s[j])
      PROVE  OneModuleOpen(t)
  <2>1. e \in 2..Len(s) /\ n + e - 1 \in 1..Len(t) /\ t[n + e - 1] = EndOf("module")
    BY <1>2, <1>3, <1>5, <1>7
  <2>2. ASSUME NEW j \in 1..Len(t), j > n + e - 1 PROVE t[j] \notin Ends
    <3>1. j \notin 1..n
      BY <1>2, <2>1, <2>2
    <3>2. PICK i \in 2..Len(s) : j = n + i - 1 /\ t[j] = s[i]
      BY <1>2, <3>1
    <3>3. i \in 1..Len(s) /\ i > e
      BY <1>2, <2>2, <3>2
    <3>. QED BY <1>7, <3>2, <3>3
  <2>3. ASSUME NEW j \in 1..Len(t), j < n + e - 1 PROVE t[j] # EndOf("module") /\ ~HasModule(t[j])
    <3>1. CASE j \in 1..n /\ t[j] = b[j]
      BY <1>4, <3>1
    <3>2. CASE \E i \in 2..Len(s) : j = n + i - 1 /\ t[j] = s[i]
      <4>1. PICK i \in 2..Len(s) : j = n + i - 1 /\ t[j] = s[i]
        BY <3>2
      <4>2. i \in 1..Len(s) /\ i < e
        BY <1>2, <2>3, <4>1
      <4>. QED BY <1>7, <4>1, <4>2
    <3>. QED BY <1>2, <3>1, <3>2
  <2>. QED BY <2>1, <2>2, <2>3 DEF OneModuleOpen
<1>8. NestingAhead(s) => NestingAhead(t)
  <2>1. \A m \in Inside(s[1]) : ~Nests(m)
    BY <1>1 DEF Nests
  <2>. QED BY <1>1, <2>1 DEF NestingAhead
<1>9. ASSUME NEW e \in 1..Len(s), NEW j \in 1..Len(s), j < e, s[e] = EndOf("module"),
             s[j] = EndOf("module") \/ HasModule(s[j])
      PROVE  NestingOpen(t)
  <2>1. j \in 2..Len(s) /\ e \in 2..Len(s)
    BY <1>2, <1>3, <1>5, <1>9
  <2>2. n + j - 1 < n + e - 1
    BY <1>2, <1>9
  <2>. QED BY <1>2, <1>9, <2>1, <2>2 DEF NestingOpen
<1>10. ModuleOpen(s) => ModuleOpen(t)
  BY <1>2, <1>3, <1>5 DEF ModuleOpen
<1>11. OneModuleOpen(s) => OneModuleOpen(t)
  BY <1>7, Zenon DEF OneModuleOpen
<1>12. NestingOpen(s) => NestingOpen(t)
  BY <1>9 DEF NestingOpen
<1>13. Passed(s, t)
  BY <1>6, <1>8, <1>10, <1>11, <1>12 DEF Passed
<1>. QED BY <1>13 DEF b, t

\* Where the items of a sequence are when its first is entered.
InPlace(s, b, t, kind) ==
  LET n == Len(b) IN
  /\ Len(s) \in Nat \ {0} /\ n \in Nat /\ Len(t) = n + Len(s)
  /\ t[n + 1] = EndOf(kind)
  /\ \A j \in 1..n :
       t[j] = b[j] /\ b[j] \notin Ends /\ Inside(b[j]) \subseteq Inside(s[1]) \ {s[1]}
  /\ \A j \in 2..Len(s) : n + j \in 1..Len(t) /\ t[n + j] = s[j]
  /\ s[1] \notin Ends

LEMMA EnterPlaces ==
  ASSUME NEW p, Parsed(p), NEW s, Pending(p, s), s # <<>>,
         NEW kind \in {"module", "def"}, s[1].op = kind
  PROVE  InPlace(s, s[1].body, Entered(s, kind), kind)
<1>1. /\ s[1] \in Walked(p) /\ s[1].body \in Seq(Walked(p))
      /\ Inside(s[1]) = {s[1]} \cup Ahead(s[1].body) /\ s[1] \notin Ahead(s[1].body)
  BY EnterPending
<1>2. EndOf(kind) \in Ends
  BY DEF Ends
<1>3. s \in Seq(Walked(p) \cup Ends)
  BY DEF Pending
<1>4. s[1].body \in Seq(Walked(p) \cup Ends)
  BY <1>1
<1>5. LET n == Len(s[1].body)
          t == Entered(s, kind)
      IN  /\ n \in Nat /\ Len(t) = n + Len(s)
          /\ \A j \in 1..n : t[j] = s[1].body[j]
          /\ t[n + 1] = EndOf(kind)
          /\ \A j \in 2..Len(s) : t[n + j] = s[j]
  BY <1>2, <1>3, <1>4, EnteredItems
<1>6. Len(s) \in Nat \ {0}
  BY <1>3
<1>. DEFINE b == s[1].body
            t == Entered(s, kind)
<1>7. \A j \in 1..Len(b) : b[j] \in Walked(p) /\ Inside(b[j]) \subseteq Ahead(b)
  BY <1>1 DEF Ahead
<1>8. \A j \in 1..Len(b) : b[j] \notin Ends /\ Inside(b[j]) \subseteq Inside(s[1]) \ {s[1]}
  BY <1>1, <1>7, EndsAreNoItems
<1>9. s[1] \notin Ends
  BY <1>1, EndsAreNoItems
<1>. HIDE DEF b, t
<1>10. \A j \in 2..Len(s) : Len(b) + j \in 1..Len(t) /\ t[Len(b) + j] = s[j]
  BY <1>5, <1>6 DEF b, t
<1>. QED BY <1>5, <1>6, <1>8, <1>9, <1>10 DEF b, t, InPlace

LEMMA EntersModule ==
  ASSUME NEW p, Parsed(p), NEW s, Pending(p, s), s # <<>>, s[1].op = "module"
  PROVE  /\ ~OneModuleOpen(s)
         /\ NothingOpen(s) /\ ~HasNestedModule(p) => OneModuleOpen(Entered(s, "module"))
         /\ ModuleOpen(s) => NestingOpen(Entered(s, "module"))
<1>. DEFINE b == s[1].body
            t == Entered(s, "module")
            n == Len(b)
<1>1. /\ Len(s) \in Nat \ {0} /\ n \in Nat /\ Len(t) = n + Len(s)
      /\ t[n + 1] = EndOf("module")
      /\ \A j \in 1..n : t[j] = b[j] /\ b[j] \notin Ends
                         /\ Inside(b[j]) \subseteq Inside(s[1]) \ {s[1]}
      /\ \A j \in 2..Len(s) : n + j \in 1..Len(t) /\ t[n + j] = s[j]
      /\ s[1] \notin Ends
  <2>1. InPlace(s, b, t, "module")
    BY EnterPlaces
  <2>. HIDE DEF b, t
  <2>. QED BY <2>1 DEF InPlace
<1>2. s[1] \in Walked(p)
  BY EnterPending
<1>3. HasModule(s[1]) /\ s[1] # EndOf("module")
  BY <1>1, InsideItself, EndsDiffer DEF HasModule
<1>. HIDE DEF b, t, n
<1>4. ~OneModuleOpen(s)
  BY <1>1, <1>3 DEF OneModuleOpen
<1>5. ASSUME NothingOpen(s), ~HasNestedModule(p) PROVE OneModuleOpen(t)
  <2>1. ~Nests(s[1])
    BY <1>2, <1>5, NestsWalked
  <2>2. \A j \in 1..n : t[j] # EndOf("module") /\ ~HasModule(t[j])
    BY <1>1, <2>1, EndsDiffer DEF Nests, HasModule
  <2>3. \A j \in 1..Len(t) : j > n + 1 => t[j] \notin Ends
    <3>. SUFFICES ASSUME NEW j \in 1..Len(t), j > n + 1 PROVE t[j] \notin Ends
      OBVIOUS
    <3>1. PICK i \in 2..Len(s) : j = n + i
      <4>1. j - n \in 2..Len(s) /\ n + (j - n) = j
        BY <1>1
      <4>. QED BY <4>1
    <3>2. t[j] = s[i] /\ i \in 1..Len(s)
      BY <1>1, <3>1
    <3>. QED BY <1>5, <3>2 DEF NothingOpen
  <2>4. n + 1 \in 1..Len(t) /\ \A j \in 1..Len(t) : j < n + 1 => j \in 1..n
    BY <1>1
  <2>. QED BY <1>1, <2>2, <2>3, <2>4 DEF OneModuleOpen
<1>6. ASSUME ModuleOpen(s) PROVE NestingOpen(t)
  <2>1. PICK e \in 1..Len(s) : s[e] = EndOf("module")
    BY <1>6 DEF ModuleOpen
  <2>2. e \in 2..Len(s)
    BY <1>1, <1>3, <2>1
  <2>3. n + 1 \in 1..Len(t) /\ n + e \in 1..Len(t) /\ n + 1 < n + e
    BY <1>1, <2>2
  <2>. QED BY <1>1, <2>1, <2>2, <2>3 DEF NestingOpen
<1>. QED BY <1>4, <1>5, <1>6 DEF t

LEMMA EntersDef ==
  ASSUME NEW p, Parsed(p), NEW s, Pending(p, s), s # <<>>, s[1].op = "def"
  PROVE  /\ OneModuleOpen(s) => OneModuleOpen(Entered(s, "def"))
         /\ ModuleOpen(s) => ModuleOpen(Entered(s, "def"))
<1>. DEFINE b == s[1].body
            t == Entered(s, "def")
            n == Len(b)
<1>1. /\ Len(s) \in Nat \ {0} /\ n \in Nat /\ Len(t) = n + Len(s)
      /\ t[n + 1] = EndOf("def")
      /\ \A j \in 1..n : t[j] = b[j] /\ b[j] \notin Ends
                         /\ Inside(b[j]) \subseteq Inside(s[1]) \ {s[1]}
      /\ \A j \in 2..Len(s) : n + j \in 1..Len(t) /\ t[n + j] = s[j]
      /\ s[1] \notin Ends
  <2>1. InPlace(s, b, t, "def")
    BY EnterPlaces
  <2>. HIDE DEF b, t
  <2>. QED BY <2>1 DEF InPlace
<1>2. s[1] # EndOf("module")
  BY <1>1, EndsDiffer
<1>. HIDE DEF b, t, n
<1>3. ASSUME NEW j \in 1..Len(t)
      PROVE  j \in 1..n \/ j = n + 1 \/ \E i \in 2..Len(s) : j = n + i /\ t[j] = s[i]
  <2>1. CASE j > n + 1
    <3>1. j - n \in 2..Len(s) /\ n + (j - n) = j
      BY <1>1, <2>1
    <3>2. PICK i \in 2..Len(s) : j = n + i
      BY <3>1
    <3>. QED BY <1>1, <3>2
  <2>. QED BY <1>1, <2>1
<1>4. ASSUME NEW e \in 1..Len(s), s[e] = EndOf("module"),
             \A j \in 1..Len(s) : j > e => s[j] \notin Ends,
             \A j \in 1..Len(s) : j < e => s[j] # EndOf("module") /\ ~HasModule(s[j])
      PROVE  OneModuleOpen(t)
  <2>1. e \in 2..Len(s) /\ n + e \in 1..Len(t) /\ t[n + e] = EndOf("module")
    BY <1>1, <1>2, <1>4
  <2>2. \A j \in 1..Len(t) : j > n + e => t[j] \notin Ends
    <3>. SUFFICES ASSUME NEW j \in 1..Len(t), j > n + e PROVE t[j] \notin Ends
      OBVIOUS
    <3>1. j \notin 1..n /\ j # n + 1
      BY <1>1, <2>1
    <3>2. PICK i \in 2..Len(s) : j = n + i /\ t[j] = s[i]
      BY <1>3, <3>1
    <3>. QED BY <1>1, <1>4, <2>1, <3>2
  <2>3. ~HasModule(s[1])
    BY <1>1, <1>4, <2>1
  <2>4. ~HasModule(EndOf("def"))
    BY EndsAreNoItems, EndsDiffer DEF HasModule
  <2>5. \A j \in 1..Len(t) : j < n + e => t[j] # EndOf("module") /\ ~HasModule(t[j])
    <3>. SUFFICES ASSUME NEW j \in 1..Len(t), j < n + e
                  PROVE  t[j] # EndOf("module") /\ ~HasModule(t[j])
      OBVIOUS
    <3>1. CASE j \in 1..n
      BY <1>1, <2>3, <3>1, EndsDiffer DEF HasModule
    <3>2. CASE j = n + 1
      BY <1>1, <2>4, <3>2, EndsDiffer
    <3>3. CASE \E i \in 2..Len(s) : j = n + i /\ t[j] = s[i]
      BY <1>1, <1>4, <2>1, <3>3
    <3>. QED BY <1>3, <3>1, <3>2, <3>3
  <2>. QED BY <2>1, <2>2, <2>5 DEF OneModuleOpen
<1>5. ASSUME ModuleOpen(s) PROVE ModuleOpen(t)
  <2>1. PICK e \in 2..Len(s) : s[e] = EndOf("module")
    BY <1>1, <1>2, <1>5 DEF ModuleOpen
  <2>. QED BY <1>1, <2>1 DEF ModuleOpen
<1>. QED BY <1>4, <1>5 DEF t, OneModuleOpen

LEMMA EntersNested ==
  ASSUME NEW p, Parsed(p), NEW s, Pending(p, s), s # <<>>,
         NEW kind \in {"module", "def"}, s[1].op = kind
  PROVE  LET t == Entered(s, kind) IN
         /\ NestingAhead(s) => NestingAhead(t) \/ NestingOpen(t)
         /\ NestingOpen(s) => NestingOpen(t)
<1>. DEFINE b == s[1].body
            t == Entered(s, kind)
            n == Len(b)
<1>1. /\ Len(s) \in Nat \ {0} /\ n \in Nat /\ Len(t) = n + Len(s)
      /\ t[n + 1] = EndOf(kind)
      /\ \A j \in 1..n : t[j] = b[j]
      /\ \A j \in 2..Len(s) : n + j \in 1..Len(t) /\ t[n + j] = s[j]
      /\ s[1] \notin Ends
  <2>1. InPlace(s, b, t, kind)
    BY EnterPlaces
  <2>. HIDE DEF b, t
  <2>. QED BY <2>1 DEF InPlace
<1>2. /\ Inside(s[1]) = {s[1]} \cup Ahead(b)
      /\ Ahead(s) = {s[1]} \cup Ahead(b) \cup Ahead(Tail(s))
      /\ Ahead(t) = Ahead(b) \cup {EndOf(kind)} \cup Ahead(Tail(s))
  BY EnterPending
<1>3. s[1] # EndOf("module")
  BY <1>1, EndsDiffer
<1>. HIDE DEF b, t, n
<1>4. \A m \in Ahead(b) : \E j \in 1..n : m \in Inside(t[j])
  BY <1>1 DEF Ahead, n
<1>5. ASSUME Nests(s[1]) PROVE NestingOpen(t)
  <2>1. kind = "module" /\ \E m \in Ahead(b) : m.op = "module"
    BY <1>2, <1>5 DEF Nests
  <2>2. PICK j \in 1..n : HasModule(t[j])
    BY <1>4, <2>1 DEF HasModule
  <2>3. j \in 1..Len(t) /\ n + 1 \in 1..Len(t) /\ j < n + 1
    BY <1>1
  <2>. QED BY <1>1, <2>1, <2>2, <2>3 DEF NestingOpen
<1>6. NestingAhead(s) => NestingAhead(t) \/ NestingOpen(t)
  BY <1>2, <1>5 DEF NestingAhead
<1>7. ASSUME NEW e \in 1..Len(s), NEW j \in 1..Len(s), j < e, s[e] = EndOf("module"),
             s[j] = EndOf("module") \/ HasModule(s[j])
      PROVE  NestingOpen(t)
  <2>1. e \in 2..Len(s) /\ n + e \in 1..Len(t) /\ t[n + e] = EndOf("module")
    BY <1>1, <1>7
  <2>2. CASE j \in 2..Len(s)
    <3>1. n + j \in 1..Len(t) /\ n + j < n + e /\ t[n + j] = s[j]
      BY <1>1, <1>7, <2>2
    <3>. QED BY <1>7, <2>1, <3>1 DEF NestingOpen
  <2>3. CASE j = 1
    <3>1. HasModule(s[1])
      BY <1>3, <1>7, <2>3
    <3>2. \E i \in 1..n + 1 : t[i] = EndOf("module") \/ HasModule(t[i])
      <4>1. CASE kind = "module"
        BY <1>1, <4>1
      <4>2. CASE kind = "def"
        <5>1. \E m \in Ahead(b) : m.op = "module"
          BY <1>2, <3>1, <4>2 DEF HasModule
        <5>2. PICK i \in 1..n : HasModule(t[i])
          BY <1>4, <5>1 DEF HasModule
        <5>. QED BY <1>1, <5>2
      <4>. QED BY <4>1, <4>2
    <3>3. \A i \in 1..n + 1 : i \in 1..Len(t) /\ i < n + e
      BY <1>1, <2>1
    <3>. QED BY <2>1, <3>2, <3>3 DEF NestingOpen
  <2>. QED BY <1>1, <2>2, <2>3
<1>. QED BY <1>6, <1>7 DEF t, NestingOpen


-----------------------------------------------------------------------------
(* The steps of the walk, by what they do to the items ahead.              *)
Dropped == todo # <<>> /\ todo' = Tail(todo) /\ UNCHANGED <<session, since, rescued>>

EnteredItem(kind) ==
  /\ todo # <<>> /\ todo[1].op = kind /\ todo' = Entered(todo, kind)
  /\ UNCHANGED <<session, since, rescued>>

LEMMA LatestParsed == ASSUME RowInv, phase # "idle" PROVE Parsed(Latest)
<1>1. session \in Seq(Inputs) /\ Len(session) > 0
  BY DEF RowInv, Prompted
<1>2. Latest \in Inputs
  BY <1>1 DEF Latest
<1>. QED BY <1>2, InputsParsed

ExpandedItem ==
  /\ todo # <<>> /\ todo[1].op = "call" /\ todo' = todo[1].body \o Tail(todo)
  /\ UNCHANGED <<session, since, rescued>>

EmittedOps == {"call", "local", "text", "macro"}

LEMMA DropSteps ==
  /\ Emits => Dropped /\ todo[1].op \in EmittedOps /\ UNCHANGED <<ets, phase, registry>>
  /\ ExpandMacro => ExpandedItem /\ UNCHANGED <<ets, phase, registry>>
  /\ \A id : CompileCase(id) => Dropped /\ todo[1].op = "case" /\ UNCHANGED phase
  /\ CloseDef /\ phase' = "walk" =>
       Dropped /\ todo[1] = EndOf("def") /\ UNCHANGED registry /\ FunctionsList \in DOMAIN ets
  /\ CloseModule /\ phase' = "walk" =>
       Dropped /\ todo[1] = EndOf("module") /\ UNCHANGED registry /\ FunctionsList \in DOMAIN ets
<1>1. Emits => Dropped /\ todo[1].op \in EmittedOps /\ UNCHANGED <<ets, phase, registry>>
  BY DEF Emits, Emit, EmittedOps, At, Next_item, Dropped
<1>5. ExpandMacro => ExpandedItem /\ UNCHANGED <<ets, phase, registry>>
  BY DEF ExpandMacro, Emit, At, Next_item, ExpandedItem
<1>2. \A id : CompileCase(id) => Dropped /\ todo[1].op = "case" /\ UNCHANGED phase
  BY Zenon DEF CompileCase, At, Next_item, Dropped, history
<1>3. CloseDef /\ phase' = "walk" =>
        Dropped /\ todo[1] = EndOf("def") /\ UNCHANGED registry /\ FunctionsList \in DOMAIN ets
  <2>1. "crashed" # "walk"
    OBVIOUS
  <2>. QED BY <2>1, Zenon DEF CloseDef, Leaving, Dropped, Raise, history
<1>4. CloseModule /\ phase' = "walk" =>
        Dropped /\ todo[1] = EndOf("module") /\ UNCHANGED registry /\ FunctionsList \in DOMAIN ets
  <2>1. "crashed" # "walk"
    OBVIOUS
  <2>. QED BY <2>1, Zenon DEF CloseModule, Leaving, Dropped, Raise, history
<1>. QED BY <1>1, <1>2, <1>3, <1>4, <1>5

LEMMA EnterSteps ==
  /\ OpenModule => EnteredItem("module") /\ phase = "walk" /\ UNCHANGED <<phase, registry>>
  /\ \A id : OpenDef(id) =>
       EnteredItem("def") /\ phase = "walk" /\ UNCHANGED <<phase, ets, registry, module_registry>>
BY DEF OpenModule, OpenDef, Next_item, EnteredItem, Entered, history

\* Every step that is in the walk afterwards.
LEMMA WalkSteps ==
  ASSUME [Steps]_vars, phase' = "walk"
  PROVE  \/ \E prompt \in Inputs : StartTransform(prompt)
         \/ Emits \/ ExpandMacro \/ CloseDef \/ CloseModule \/ OpenModule
         \/ \E id \in Ids : CompileCase(id) \/ OpenDef(id)
         \/ UNCHANGED vars
BY HostSteps DEF Steps, HostSays, FinishWalk, FinishTransform, Restart, Rescue, Over, Raise

LEMMA StartLatest ==
  ASSUME RowInv, NEW prompt, StartTransform(prompt), prompt \in Inputs
  PROVE  /\ Latest' = prompt /\ todo' = prompt /\ Parsed(prompt)
         /\ Len(session') = Len(session) + 1 /\ Len(session) \in Nat
         /\ \A k \in 1..Len(session) : session'[k] = session[k]
BY InputsParsed, AppendProperties DEF StartTransform, Latest, RowInv, Prompted

\* The walk behind a call, text, a case or the end of a def.
Behind == Emits \/ ExpandMacro \/ CloseDef \/ \E id : CompileCase(id)

Ordered == phase = "walk" => Pending(Latest, todo)

LEMMA SameLatest == UNCHANGED session => UNCHANGED Latest
BY DEF Latest

LEMMA BehindSteps ==
  ASSUME RowInv, Ordered, phase = "walk", Behind, phase' = "walk"
  PROVE  /\ Pending(Latest, todo') /\ Passed(todo, todo')
         /\ UNCHANGED <<session, since, rescued>>
         /\ CloseDef => FunctionsList \in DOMAIN ets
<1>1. CASE Dropped /\ (todo[1].op \in EmittedOps \cup {"case"} \/ todo[1] = EndOf("def"))
  <2>1. Parsed(Latest) /\ Pending(Latest, todo) /\ todo # <<>> /\ todo' = Tail(todo)
    BY <1>1, LatestParsed DEF Ordered, Dropped
  <2>2. Plain(todo[1]) /\ todo[1] # EndOf("module")
    BY <1>1, EndsAreNoItems, EndsDiffer DEF Plain, EmittedOps
  <2>. QED BY <1>1, <2>1, <2>2, SkipPending, DropsPass, DropSteps DEF Dropped
<1>2. CASE ExpandedItem /\ ~CloseDef
  <2>1. /\ Parsed(Latest) /\ Pending(Latest, todo) /\ todo # <<>> /\ todo[1].op = "call"
        /\ todo' = todo[1].body \o Tail(todo)
    BY <1>2, LatestParsed DEF Ordered, ExpandedItem
  <2>. QED BY <1>2, <2>1, ExpandPending, ExpandsPass DEF ExpandedItem
<1>3. ExpandMacro => ~CloseDef
  BY EndsAreNoItems, EndsDiffer DEF ExpandMacro, At, Next_item, CloseDef, Leaving
<1>. QED BY <1>1, <1>2, <1>3, DropSteps DEF Behind

LEMMA OrderedStep == RowInv /\ Ordered /\ [Steps]_vars => Ordered'
<1>. SUFFICES ASSUME RowInv, Ordered, [Steps]_vars, phase' = "walk"
              PROVE  Pending(Latest, todo)'
  BY DEF Ordered
<1>1. ASSUME NEW prompt \in Inputs, StartTransform(prompt) PROVE Pending(Latest, todo)'
  <2>1. Latest' = prompt /\ todo' = prompt /\ Parsed(prompt)
    BY <1>1, StartLatest
  <2>2. prompt \in Seq(Walked(prompt)) /\ Apart(prompt)
    BY <2>1 DEF Parsed
  <2>3. Pending(prompt, prompt)
    BY <2>2 DEF Pending, Apart
  <2>. QED BY <2>1, <2>3
<1>2. CASE phase = "walk" /\ Dropped
  <2>1. Pending(Latest, Tail(todo))
    BY <1>2, LatestParsed, SkipPending DEF Ordered, Dropped
  <2>. QED BY <1>2, <2>1, SameLatest DEF Dropped
<1>6. CASE phase = "walk" /\ Behind
  BY <1>6, BehindSteps, SameLatest
<1>3. ASSUME NEW kind \in {"module", "def"}, phase = "walk", EnteredItem(kind)
      PROVE  Pending(Latest, todo)'
  <2>1. Pending(Latest, Entered(todo, kind))
    BY <1>3, LatestParsed, EnterPending DEF Ordered, EnteredItem
  <2>. QED BY <1>3, <2>1, SameLatest DEF EnteredItem
<1>4. CASE UNCHANGED vars
  BY <1>4, SameLatest DEF vars, history, Ordered
<1>5. CloseModule => phase = "walk" /\ Dropped
  BY DropSteps DEF CloseModule
<1>7. Emits \/ ExpandMacro \/ CloseDef \/ (\E id \in Ids : CompileCase(id))
        => phase = "walk" /\ Behind
  BY DropSteps DEF CloseDef, Behind
<1>. QED BY <1>1, <1>2, <1>3, <1>4, <1>5, <1>6, <1>7, WalkSteps, EnterSteps


-----------------------------------------------------------------------------
(* Nesting is found out: when an open module lost its tables to one inside *)
(* it, or not at all if there is none.                                     *)
NotNested ==
  \/ NothingOpen(todo) /\ Len(frames) = 1
  \/ /\ OneModuleOpen(todo) /\ FunctionsList \in DOMAIN ets
     /\ \A i \in 1..Len(frames) : frames[i].kind = "module" => i = 2

NestedStill ==
  \/ NestingAhead(todo) \/ NestingOpen(todo)
  \/ ModuleOpen(todo) /\ FunctionsList \notin DOMAIN ets

Nesting ==
  phase = "walk" /\ ~rescued => IF HasNestedModule(Latest) THEN NestedStill ELSE NotNested

\* Cases' tables, terminate's and modules' tables go by their names.
Named ==
  /\ \A t \in registry : t \in SetupTables \/ t[1] = "case"
  /\ \A t \in module_registry : t[1] # "case"
  /\ \A i \in 1..Len(frames) : frames[i].kind = "def" => frames[i].name[1] = "clause"

LEMMA NamesDiffer ==
  /\ FunctionsList \notin SetupTables /\ FunctionsList[1] # "case"
  /\ ProcessedFunctions[1] # "case"
  /\ \A id : CaseTable(id)[1] = "case"
  /\ \A m : \A t \in TablesOfModule(m) : t[1] # "case"
  /\ \A clause : FunctionOf(clause)[1] # "case"
  /\ \A m, f, id : ClauseTable(m, f, id)[1] = "clause"
BY DEF FunctionsList, ProcessedFunctions, SetupTables, Includes, ModulesTable, Predefines,
       PurgeTargets, GuardsTable, CasesTable, CaseTable, TablesOfModule, ModuleTable, FunctionOf,
       FunctionTable, ClauseTable

\* Frames put on the stack and taken off it.
LEMMA PushedFrame ==
  ASSUME TransformInv, NEW k, NEW n, frames' = Append(frames, Frame(k, n))
  PROVE  /\ Len(frames) \in Nat /\ Len(frames') = Len(frames) + 1
         /\ \A i \in 1..Len(frames) : frames'[i] = frames[i]
         /\ frames'[Len(frames) + 1].kind = k /\ frames'[Len(frames) + 1].name = n
<1>. DEFINE f == Frame(k, n)
<1>1. IsFrame(f) /\ f.kind = k /\ f.name = n
  BY FrameIsFrame DEF Frame
<1>2. frames' = Append(frames, f)
  OBVIOUS
<1>. HIDE DEF f
<1>. QED BY <1>1, <1>2, PushShape, ShapeLen DEF TransformInv

LEMMA CalledFrames ==
  ASSUME TransformInv, NEW names, frames' = Calling(names), phase \in {"walk", "cases"}
  PROVE  SameKinds(frames, frames') /\ Len(frames) \in Nat
BY CallingStack, ShapeLen DEF TransformInv, Stack

LEMMA CaseNamed ==
  ASSUME RowInv, Named, NEW id, CompileCase(id) PROVE Named'
<1>1. /\ registry' \subseteq registry \cup {CaseTable(id)} /\ UNCHANGED module_registry
      /\ frames' = Calling({CaseTable(id)}) /\ phase \in {"walk", "cases"}
  BY Zenon DEF CompileCase, At
<1>2. SameKinds(frames, frames') /\ Len(frames) \in Nat
  BY <1>1, CalledFrames DEF RowInv
<1>. QED BY <1>1, <1>2, NamesDiffer DEF Named, SameKinds

LEMMA OpenDefNamed ==
  ASSUME RowInv, Named, NEW id, OpenDef(id) PROVE Named'
<1>. DEFINE clause == ClauseTable(InnerFrame.name, todo[1].fn, id)
<1>1. frames' = Append(frames, Frame("def", clause)) /\ UNCHANGED <<registry, module_registry>>
  BY DEF OpenDef
<1>2. clause[1] = "clause"
  BY NamesDiffer
<1>. HIDE DEF clause
<1>3. /\ Len(frames) \in Nat /\ Len(frames') = Len(frames) + 1
      /\ \A i \in 1..Len(frames) : frames'[i] = frames[i]
      /\ frames'[Len(frames) + 1].name = clause
  BY <1>1, PushedFrame DEF RowInv
<1>4. \A i \in 1..Len(frames') : i \in 1..Len(frames) \/ i = Len(frames) + 1
  BY <1>3
<1>. QED BY <1>1, <1>2, <1>3, <1>4 DEF Named

LEMMA OpenModuleNamed ==
  ASSUME RowInv, Named, OpenModule PROVE Named'
<1>1. /\ frames' = Append(frames, Frame("module", todo[1].name)) /\ UNCHANGED registry
      /\ module_registry' = module_registry \cup TablesOfModule(todo[1].name)
  BY DEF OpenModule
<1>2. /\ Len(frames) \in Nat /\ Len(frames') = Len(frames) + 1
      /\ \A i \in 1..Len(frames) : frames'[i] = frames[i]
      /\ frames'[Len(frames) + 1].kind = "module"
  BY <1>1, PushedFrame DEF RowInv
<1>3. \A i \in 1..Len(frames') : i \in 1..Len(frames) \/ i = Len(frames) + 1
  BY <1>2
<1>. QED BY <1>1, <1>2, <1>3, NamesDiffer DEF Named

LEMMA DefsName ==
  ASSUME RowInv, Named, CloseDef PROVE InnerFrame.name[1] = "clause"
BY ShapeLen DEF RowInv, TransformInv, Stack, Named, CloseDef, Leaving, InnerFrame

LEMMA CloseDefNamed ==
  ASSUME RowInv, Named, CloseDef PROVE Named'
<1>. DEFINE clause == InnerFrame.name
<1>1. module_registry' \subseteq module_registry \cup {clause, FunctionOf(clause)}
      /\ UNCHANGED registry
  BY Zenon DEF CloseDef, TablesOfClause
<1>2. clause[1] = "clause"
  BY DefsName
<1>. HIDE DEF clause
<1>3. \A i \in 1..Len(frames') : i \in 1..Len(frames) /\ frames'[i] = frames[i]
  <2>1. CASE FunctionsList \in DOMAIN ets
    BY <2>1, CloseDefStack, ShapeLen DEF RowInv, TransformInv
  <2>2. CASE FunctionsList \notin DOMAIN ets
    <3>1. frames' = <<>>
      BY <2>2, Zenon DEF CloseDef, Raise
    <3>. QED BY <3>1
  <2>. QED BY <2>1, <2>2
<1>. QED BY <1>1, <1>2, <1>3, NamesDiffer DEF Named

LEMMA CloseModuleNamed ==
  ASSUME RowInv, Named, CloseModule PROVE Named'
<1>1. module_registry' = module_registry \cup {ProcessedFunctions} /\ UNCHANGED registry
  BY DEF CloseModule
<1>2. \A i \in 1..Len(frames') :
        i \in 1..Len(frames) /\ frames'[i].kind = frames[i].kind /\ frames'[i].name = frames[i].name
  <2>1. CASE FunctionsList \in DOMAIN ets
    BY <2>1, CloseModuleStack, ShapeLen DEF RowInv, TransformInv
  <2>2. CASE FunctionsList \notin DOMAIN ets
    <3>1. frames' = <<>>
      BY <2>2, Zenon DEF CloseModule, Raise
    <3>. QED BY <3>1
  <2>. QED BY <2>1, <2>2
<1>. QED BY <1>1, <1>2, NamesDiffer DEF Named

LEMMA FinishWalkNamed ==
  ASSUME RowInv, Named, FinishWalk PROVE Named'
<1>1. UNCHANGED <<registry, module_registry>>
  BY DEF FinishWalk
<1>2. \/ frames' = <<>> \/ UNCHANGED frames
      \/ \E name : frames' = Append(frames, Frame("case", name))
  BY Zenon DEF FinishWalk, Raise
<1>3. CASE \E name : frames' = Append(frames, Frame("case", name))
  <2>1. PICK name : frames' = Append(frames, Frame("case", name))
    BY <1>3
  <2>2. /\ Len(frames) \in Nat /\ Len(frames') = Len(frames) + 1
        /\ \A i \in 1..Len(frames) : frames'[i] = frames[i]
        /\ frames'[Len(frames) + 1].kind = "case"
    BY <2>1, PushedFrame DEF RowInv
  <2>3. \A i \in 1..Len(frames') : i \in 1..Len(frames) \/ i = Len(frames) + 1
    BY <2>2
  <2>. QED BY <1>1, <2>2, <2>3 DEF Named
<1>. QED BY <1>1, <1>2, <1>3 DEF Named

LEMMA NamedStep == RowInv /\ Named /\ [Steps]_vars => Named'
<1>. SUFFICES ASSUME RowInv, Named, [Steps]_vars PROVE Named'
  OBVIOUS
<1>1. ASSUME NEW prompt, StartTransform(prompt) PROVE Named'
  <2>1. frames'[1].kind = "main" /\ Len(frames') = 1
    BY <1>1 DEF StartTransform, Frame
  <2>2. registry' \subseteq registry \cup SetupTables /\ UNCHANGED module_registry
    BY <1>1 DEF StartTransform, NewRows
  <2>. QED BY <2>1, <2>2 DEF Named
<1>2. CASE EmitStep
  <2>1. SameKinds(frames, frames') /\ Len(frames) \in Nat
    BY <1>2, CalledFrames DEF RowInv, EmitStep
  <2>2. UNCHANGED <<registry, module_registry>>
    BY <1>2 DEF EmitStep
  <2>. QED BY <2>1, <2>2 DEF Named, SameKinds
<1>6. CASE HostSays
  BY <1>6 DEF HostSays, Named
<1>3. CASE FinishTransform
  BY <1>3 DEF FinishTransform, Raise, Named
<1>4. CASE Restart
  BY <1>4 DEF Restart, Named
<1>5. CASE Rescue \/ Over \/ UNCHANGED vars
  BY <1>5 DEF Rescue, Over, vars, Named
<1>. QED
  BY <1>1, <1>2, <1>3, <1>4, <1>5, <1>6, EmitSteps, HostSteps, CaseNamed, OpenDefNamed, OpenModuleNamed, CloseDefNamed,
     CloseModuleNamed, FinishWalkNamed
  DEF Steps


-----------------------------------------------------------------------------
(* The list of functions lives from the begin of a module to the end of it *)
(* or of another inside it.                                                *)
LEMMA ListKept ==
  ASSUME RowInv, Named, FunctionsList \in DOMAIN ets,
         Behind \/ (\E id : OpenDef(id)) \/ OpenModule
  PROVE  FunctionsList \in DOMAIN ets'
<1>1. CASE Emits \/ ExpandMacro \/ \E id : OpenDef(id)
  BY <1>1, DropSteps, EnterSteps
<1>2. CASE \E id : CompileCase(id)
  BY <1>2, CaseDomain
<1>3. CASE CloseDef
  BY <1>3, CloseDefDomain
<1>4. CASE OpenModule
  BY <1>4, OpenModuleDomain
<1>. QED BY <1>1, <1>2, <1>3, <1>4 DEF Behind

LEMMA ListNotMade ==
  ASSUME FunctionsList \notin DOMAIN ets,
         Emits \/ ExpandMacro \/ \E id : CompileCase(id) \/ OpenDef(id)
  PROVE  FunctionsList \notin DOMAIN ets'
<1>1. CASE Emits \/ ExpandMacro \/ \E id : OpenDef(id)
  BY <1>1, DropSteps, EnterSteps
<1>2. CASE \E id : CompileCase(id)
  BY <1>2, CaseDomain, NamesDiffer
<1>. QED BY <1>1, <1>2

LEMMA ListDeleted ==
  ASSUME RowInv, Named, CloseModule, FunctionsList \in DOMAIN ets
  PROVE  FunctionsList \notin DOMAIN ets'
<1>1. FunctionsList \in module_registry'
  BY NamesDiffer DEF Named, RowInv, TransformInv, TablesAccounted, CloseModule
<1>. QED BY <1>1, CloseModuleDomain

LEMMA ListMade == ASSUME OpenModule PROVE FunctionsList \in DOMAIN ets'
BY OpenModuleDomain DEF TablesOfModule

LEMMA StartNesting ==
  ASSUME RowInv, NEW prompt \in Inputs, StartTransform(prompt)
  PROVE  IF HasNestedModule(Latest') THEN NestedStill' ELSE NotNested'
<1>1. Latest' = prompt /\ todo' = prompt /\ Parsed(prompt)
  BY StartLatest
<1>2. prompt \in Seq(Walked(prompt))
  BY <1>1 DEF Parsed
<1>3. CASE HasNestedModule(prompt)
  <2>1. Range(prompt) = {prompt[j] : j \in 1..Len(prompt)}
    BY <1>2, RangeEquality
  <2>2. Walked(prompt) = Ahead(prompt)
    BY <2>1 DEF Walked, Ahead
  <2>3. NestingAhead(prompt)
    BY <1>1, <1>3, <2>2, NestsWalked DEF NestingAhead
  <2>. QED BY <1>1, <1>3, <2>3 DEF NestedStill
<1>4. CASE ~HasNestedModule(prompt)
  <2>1. NothingOpen(prompt)
    BY <1>1, <1>2, EndsAreNoItems DEF NothingOpen
  <2>2. Len(frames') = 1
    BY DEF StartTransform
  <2>. QED BY <1>1, <1>4, <2>1, <2>2 DEF NotNested
<1>. QED BY <1>1, <1>3, <1>4

LEMMA BehindNesting ==
  ASSUME RowInv, Named, Ordered, Nesting, phase = "walk", ~rescued, Behind, phase' = "walk"
  PROVE  IF HasNestedModule(Latest) THEN NestedStill' ELSE NotNested'
<1>1. Passed(todo, todo') /\ (CloseDef => FunctionsList \in DOMAIN ets)
  BY BehindSteps
<1>2. CASE CloseDef
  <2>1. /\ Len(frames) > 2 /\ Len(frames') = Len(frames) - 1 /\ Len(frames) \in Nat
        /\ \A i \in 1..Len(frames') : frames'[i] = frames[i]
    BY <1>1, <1>2, CloseDefStack, ShapeLen DEF RowInv, TransformInv
  <2>. QED
    BY <1>1, <1>2, <2>1, ListKept DEF Behind, Nesting, NestedStill, NotNested, Passed
<1>3. CASE Emits \/ ExpandMacro \/ \E id : CompileCase(id)
  <2>1. PICK names : frames' = Calling(names)
    BY <1>3, EmitSteps, Zenon DEF EmitStep, CompileCase
  <2>2. SameKinds(frames, frames')
    BY <2>1, CalledFrames DEF RowInv
  <2>3. FunctionsList \in DOMAIN ets <=> FunctionsList \in DOMAIN ets'
    BY <1>3, ListKept, ListNotMade DEF Behind
  <2>. QED
    BY <1>1, <2>2, <2>3 DEF Nesting, NestedStill, NotNested, Passed, SameKinds
<1>. QED BY <1>2, <1>3 DEF Behind

LEMMA CloseModuleNesting ==
  ASSUME RowInv, Named, Ordered, Nesting, phase = "walk", ~rescued, CloseModule, phase' = "walk"
  PROVE  IF HasNestedModule(Latest) THEN NestedStill' ELSE NotNested'
<1>1. Dropped /\ todo[1] = EndOf("module") /\ FunctionsList \in DOMAIN ets
  BY DropSteps
<1>2. Parsed(Latest) /\ Pending(Latest, todo) /\ todo # <<>> /\ todo' = Tail(todo)
  BY <1>1, LatestParsed DEF Ordered, Dropped
<1>3. Plain(todo[1])
  BY <1>1, EndsDiffer DEF Plain
<1>4. FunctionsList \notin DOMAIN ets'
  BY <1>1, ListDeleted
<1>5. CASE HasNestedModule(Latest)
  <2>1. NestingAhead(todo) \/ NestingOpen(todo)
    BY <1>1, <1>5 DEF Nesting, NestedStill
  <2>2. NestingAhead(todo') \/ ModuleOpen(todo')
    BY <1>2, <1>3, <2>1, DropsNested
  <2>. QED BY <1>4, <1>5, <2>2 DEF NestedStill
<1>6. CASE ~HasNestedModule(Latest)
  <2>1. OneModuleOpen(todo) /\ \A i \in 1..Len(frames) : frames[i].kind = "module" => i = 2
    <3>1. ~NothingOpen(todo)
      <4>1. 1 \in 1..Len(todo)
        BY <1>2, TailItems DEF Pending
      <4>. QED BY <1>1, <4>1, EndsDiffer DEF NothingOpen
    <3>. QED BY <1>6, <3>1 DEF Nesting, NotNested
  <2>2. NothingOpen(todo')
    BY <1>1, <1>2, <2>1, DropsOutside
  <2>3. Len(frames') = 1
    <3>1. InnerFrame.kind = "module"
      BY DEF CloseModule, Leaving
    <3>2. Len(frames) = 2
      <4>1. Len(frames) \in 1..Len(frames)
        BY <1>1, CloseModuleStack, ShapeLen DEF RowInv, TransformInv
      <4>. QED BY <2>1, <3>1, <4>1 DEF InnerFrame
    <3>. QED BY <1>1, <3>2, CloseModuleStack DEF RowInv
  <2>. QED BY <1>6, <2>2, <2>3 DEF NotNested
<1>. QED BY <1>5, <1>6

LEMMA OpenModuleNesting ==
  ASSUME RowInv, Ordered, Nesting, phase = "walk", ~rescued, OpenModule
  PROVE  IF HasNestedModule(Latest) THEN NestedStill' ELSE NotNested'
<1>1. EnteredItem("module") /\ FunctionsList \in DOMAIN ets'
  BY EnterSteps, ListMade
<1>2. /\ Parsed(Latest) /\ Pending(Latest, todo) /\ todo # <<>> /\ todo[1].op = "module"
      /\ todo' = Entered(todo, "module")
  BY <1>1, LatestParsed DEF Ordered, EnteredItem
<1>3. CASE HasNestedModule(Latest)
  <2>1. NestedStill
    BY <1>3 DEF Nesting
  <2>2. NestingAhead(todo) => NestingAhead(todo') \/ NestingOpen(todo')
    BY <1>2, EntersNested
  <2>3. NestingOpen(todo) => NestingOpen(todo')
    BY <1>2, EntersNested
  <2>4. ModuleOpen(todo) => NestingOpen(todo')
    BY <1>2, EntersModule
  <2>. QED BY <1>3, <2>1, <2>2, <2>3, <2>4 DEF NestedStill
<1>4. CASE ~HasNestedModule(Latest)
  <2>1. NothingOpen(todo) /\ Len(frames) = 1
    BY <1>2, <1>4, EntersModule DEF Nesting, NotNested
  <2>2. OneModuleOpen(todo')
    BY <1>2, <1>4, <2>1, EntersModule
  <2>3. \A i \in 1..Len(frames') : frames'[i].kind = "module" => i = 2
    <3>1. frames' = Append(frames, Frame("module", todo[1].name))
      BY DEF OpenModule
    <3>2. /\ Len(frames') = Len(frames) + 1
          /\ \A i \in 1..Len(frames) : frames'[i] = frames[i]
      BY <3>1, PushedFrame DEF RowInv
    <3>3. frames[1].kind = "main"
      BY <2>1 DEF RowInv, TransformInv, Stack
    <3>. QED BY <2>1, <3>2, <3>3
  <2>. QED BY <1>1, <1>4, <2>2, <2>3 DEF NotNested
<1>. QED BY <1>3, <1>4

LEMMA OpenDefNesting ==
  ASSUME RowInv, Named, Ordered, Nesting, phase = "walk", ~rescued, NEW id, OpenDef(id)
  PROVE  IF HasNestedModule(Latest) THEN NestedStill' ELSE NotNested'
<1>1. EnteredItem("def") /\ UNCHANGED ets
  BY EnterSteps
<1>2. /\ Parsed(Latest) /\ Pending(Latest, todo) /\ todo # <<>> /\ todo[1].op = "def"
      /\ todo' = Entered(todo, "def")
  BY <1>1, LatestParsed DEF Ordered, EnteredItem
<1>3. CASE HasNestedModule(Latest)
  <2>1. NestedStill
    BY <1>3 DEF Nesting
  <2>2. NestingAhead(todo) => NestingAhead(todo') \/ NestingOpen(todo')
    BY <1>2, EntersNested
  <2>3. NestingOpen(todo) => NestingOpen(todo')
    BY <1>2, EntersNested
  <2>4. ModuleOpen(todo) => ModuleOpen(todo')
    BY <1>2, EntersDef
  <2>. QED BY <1>1, <1>3, <2>1, <2>2, <2>3, <2>4 DEF NestedStill
<1>4. CASE ~HasNestedModule(Latest)
  <2>1. Len(frames) # 1
    <3>1. InnerFrame.kind = "module"
      BY DEF OpenDef
    <3>. QED BY <3>1 DEF InnerFrame, RowInv, TransformInv, Stack
  <2>2. /\ OneModuleOpen(todo) /\ FunctionsList \in DOMAIN ets
        /\ \A i \in 1..Len(frames) : frames[i].kind = "module" => i = 2
    BY <1>4, <2>1 DEF Nesting, NotNested
  <2>3. OneModuleOpen(todo')
    BY <1>2, <2>2, EntersDef
  <2>4. \A i \in 1..Len(frames') : frames'[i].kind = "module" => i = 2
    <3>1. PICK n : frames' = Append(frames, Frame("def", n))
      BY DEF OpenDef
    <3>2. /\ Len(frames) \in Nat /\ Len(frames') = Len(frames) + 1
          /\ \A i \in 1..Len(frames) : frames'[i] = frames[i]
          /\ frames'[Len(frames) + 1].kind = "def"
      BY <3>1, PushedFrame DEF RowInv
    <3>3. \A i \in 1..Len(frames') : i \in 1..Len(frames) \/ i = Len(frames) + 1
      BY <3>2
    <3>. QED BY <2>2, <3>2, <3>3
  <2>. QED BY <1>1, <1>4, <2>2, <2>3, <2>4 DEF NotNested
<1>. QED BY <1>3, <1>4

LEMMA NestingStep == RowInv /\ Named /\ Ordered /\ Nesting /\ [Steps]_vars => Nesting'
<1>. SUFFICES ASSUME RowInv, Named, Ordered, Nesting, [Steps]_vars, phase' = "walk", ~rescued'
              PROVE  IF HasNestedModule(Latest') THEN NestedStill' ELSE NotNested'
  BY DEF Nesting
<1>1. ASSUME NEW prompt \in Inputs, StartTransform(prompt)
      PROVE  IF HasNestedModule(Latest') THEN NestedStill' ELSE NotNested'
  BY <1>1, StartNesting
<1>2. CASE CloseModule
  <2>1. phase = "walk" /\ Dropped
    BY <1>2, DropSteps DEF CloseModule
  <2>2. ~rescued /\ Latest' = Latest
    BY <2>1, SameLatest DEF Dropped
  <2>. QED BY <1>2, <2>1, <2>2, CloseModuleNesting
<1>5. CASE Behind
  <2>1. phase = "walk"
    BY <1>5, DropSteps DEF Behind, CloseDef
  <2>2. ~rescued /\ Latest' = Latest
    BY <1>5, <2>1, BehindSteps, SameLatest
  <2>. QED BY <1>5, <2>1, <2>2, BehindNesting
<1>3. CASE OpenModule \/ \E id \in Ids : OpenDef(id)
  <2>1. phase = "walk" /\ \E kind : EnteredItem(kind)
    BY <1>3, EnterSteps
  <2>2. ~rescued /\ Latest' = Latest
    BY <2>1, SameLatest DEF EnteredItem
  <2>. QED BY <1>3, <2>1, <2>2, OpenModuleNesting, OpenDefNesting
<1>4. CASE UNCHANGED vars
  BY <1>4, SameLatest DEF vars, history, Nesting, NestedStill, NotNested
<1>. QED BY <1>1, <1>2, <1>3, <1>4, <1>5, WalkSteps DEF Behind


-----------------------------------------------------------------------------
(* The row of ex_aot_cases has an element for each case the walk has seen. *)
Seen == OuterCases(Latest) \ Ahead(todo)

Cases == ets[CasesTable]

Count ==
  /\ \A t \in Range(Cases) : t \in DOMAIN ets /\ t[1] = "case"
  /\ Cases # <<>> <=> Seen # {}
  /\ Len(Cases) > 1 <=> \E c, d \in Seen : c # d

Counted == phase = "walk" /\ ~rescued => Count

LEMMA RowIsSeq ==
  ASSUME RowInv, CasesTable \in DOMAIN ets
  PROVE  Cases \in Seq(Range(Cases)) /\ Len(Cases) \in Nat /\ (Cases # <<>> <=> Len(Cases) > 0)
<1>1. PICK S : Cases \in Seq(S)
  BY DEF RowInv, Row, Cases
<1>. HIDE DEF Cases
<1>2. Cases \in Seq(Range(Cases))
  BY <1>1, SeqOfRange
<1>. QED BY <1>1, <1>2

LEMMA RangeOfAppend ==
  ASSUME NEW S, NEW s \in Seq(S), NEW e
  PROVE  Range(Append(s, e)) = Range(s) \cup {e} /\ Len(Append(s, e)) = Len(s) + 1
<1>1. s \in Seq(S \cup {e})
  OBVIOUS
<1>. DEFINE t == Append(s, e)
<1>2. t \in Seq(S \cup {e}) /\ Len(t) = Len(s) + 1 /\ Len(s) \in Nat
      /\ (\A i \in 1..Len(s) : t[i] = s[i]) /\ t[Len(s) + 1] = e
  BY <1>1, AppendProperties
<1>. HIDE DEF t
<1>3. Range(t) = {t[i] : i \in 1..Len(t)} /\ Range(s) = {s[i] : i \in 1..Len(s)}
  BY <1>2, RangeEquality
<1>4. \A i \in 1..Len(t) : i \in 1..Len(s) \/ i = Len(s) + 1
  BY <1>2
<1>5. (\A i \in 1..Len(s) : i \in 1..Len(t)) /\ Len(s) + 1 \in 1..Len(t)
  BY <1>2
<1>6. Range(t) = Range(s) \cup {e}
  BY <1>2, <1>3, <1>4, <1>5
<1>. QED BY <1>2, <1>6 DEF t

QuietStep ==
  \/ Emits \/ ExpandMacro \/ OpenModule \/ CloseDef \/ CloseModule
  \/ \E id : OpenDef(id)

LEMMA SeenSame ==
  ASSUME RowInv, Ordered, phase = "walk", phase' = "walk", QuietStep
  PROVE  Seen' = Seen
<1>1. CASE Dropped /\ (todo[1].op \in EmittedOps \/ todo[1] \in Ends)
  <2>1. Parsed(Latest) /\ Pending(Latest, todo) /\ todo # <<>> /\ todo' = Tail(todo)
    BY <1>1, LatestParsed DEF Ordered, Dropped
  <2>2. todo[1] \in Walked(Latest) \cup Ends
    BY <2>1, TailItems DEF Pending
  <2>3. \A d \in Inside(todo[1]) : d.op # "case"
    BY <1>1, <2>1, <2>2, ParsedItem, InsideLeaf, EndsAreNoItems DEF EmittedOps
  <2>4. Ahead(todo) = Inside(todo[1]) \cup Ahead(todo')
    BY <2>1, SkipPending
  <2>5. Latest' = Latest
    BY <1>1, SameLatest DEF Dropped
  <2>. QED BY <2>3, <2>4, <2>5 DEF Seen, OuterCases
<1>3. CASE ExpandedItem
  <2>1. /\ Parsed(Latest) /\ Pending(Latest, todo) /\ todo # <<>> /\ todo[1].op = "call"
        /\ todo' = todo[1].body \o Tail(todo)
    BY <1>3, LatestParsed DEF Ordered, ExpandedItem
  <2>2. /\ \A d \in Inside(todo[1]) : d.op \in {"call", "text"}
        /\ Ahead(todo') \subseteq Ahead(todo)
        /\ Ahead(todo) \subseteq Inside(todo[1]) \cup Ahead(todo')
    BY <2>1, ExpandPending
  <2>3. Latest' = Latest
    BY <1>3, SameLatest DEF ExpandedItem
  <2>. QED BY <2>2, <2>3 DEF Seen, OuterCases
<1>2. ASSUME NEW kind \in {"module", "def"}, EnteredItem(kind) PROVE Seen' = Seen
  <2>1. Parsed(Latest) /\ Pending(Latest, todo) /\ todo # <<>> /\ todo[1].op = kind
        /\ todo' = Entered(todo, kind)
    BY <1>2, LatestParsed DEF Ordered, EnteredItem
  <2>2. /\ Ahead(todo) = {todo[1]} \cup Ahead(todo[1].body) \cup Ahead(Tail(todo))
        /\ Ahead(todo') = Ahead(todo[1].body) \cup {EndOf(kind)} \cup Ahead(Tail(todo))
    BY <2>1, EnterPending
  <2>3. EndOf(kind).op # "case" /\ todo[1].op # "case"
    BY <2>1 DEF EndOf
  <2>4. Latest' = Latest
    BY <1>2, SameLatest DEF EnteredItem
  <2>. QED BY <2>2, <2>3, <2>4 DEF Seen, OuterCases
<1>. QED BY <1>1, <1>2, <1>3, DropSteps, EnterSteps, EndsDiffer DEF QuietStep

LEMMA SeenMore ==
  ASSUME RowInv, Ordered, phase = "walk", NEW id, CompileCase(id)
  PROVE  Seen' = Seen \cup {todo[1]} /\ todo[1] \notin Seen /\ OuterCases(Latest) # {}
<1>1. Dropped /\ todo[1].op = "case"
  BY DropSteps
<1>2. Parsed(Latest) /\ Pending(Latest, todo) /\ todo # <<>> /\ todo' = Tail(todo)
  BY <1>1, LatestParsed DEF Ordered, Dropped
<1>3. todo[1] \in Walked(Latest) \cup Ends /\ todo[1] \notin Ends
  BY <1>1, <1>2, TailItems, EndsAreNoItems DEF Pending
<1>4. Inside(todo[1]) = {todo[1]}
  BY <1>1, InsideLeaf
<1>5. Ahead(todo) = {todo[1]} \cup Ahead(todo') /\ todo[1] \notin Ahead(todo')
  BY <1>2, <1>3, <1>4, SkipPending
<1>6. Latest' = Latest
  BY <1>1, SameLatest DEF Dropped
<1>. QED BY <1>1, <1>3, <1>5, <1>6 DEF Seen, OuterCases

LEMMA StartSeen ==
  ASSUME RowInv, NEW prompt \in Inputs, StartTransform(prompt) PROVE Seen' = {}
<1>1. Latest' = prompt /\ todo' = prompt /\ Parsed(prompt)
  BY StartLatest
<1>2. prompt \in Seq(Walked(prompt))
  BY <1>1 DEF Parsed
<1>3. Walked(prompt) = Ahead(prompt)
  BY <1>2, RangeEquality DEF Walked, Ahead
<1>. QED BY <1>1, <1>3 DEF Seen, OuterCases

\* Neither the row nor a case's table changes in any other step of the walk.
LEMMA QuietRow ==
  ASSUME RowInv, phase = "walk", phase' = "walk", QuietStep
  PROVE  Cases' = Cases /\ CasesTable \in DOMAIN ets
<1>1. CasesTable \in DOMAIN ets
  BY OtherTables DEF RowInv, TransformInv, TypeOK
<1>2. RowSame \/ UNCHANGED ets
  BY <1>1, OpenModuleKeeps, SetupKept, OtherTables, DropSteps, EnterSteps
     DEF QuietStep, RowInv, RowSame
<1>. QED BY <1>1, <1>2 DEF Cases, RowSame, TableSame

LEMMA QuietTables ==
  ASSUME RowInv, Named, phase = "walk", phase' = "walk", QuietStep
  PROVE  \A t : t[1] = "case" => (t \in DOMAIN ets' <=> t \in DOMAIN ets)
<1>1. CASE Emits \/ ExpandMacro \/ \E id : OpenDef(id)
  BY <1>1, DropSteps, EnterSteps
<1>2. CASE OpenModule
  <2>1. DOMAIN ets' = DOMAIN ets \cup TablesOfModule(todo[1].name)
    BY <1>2, OpenModuleDomain
  <2>. QED BY <2>1, NamesDiffer
<1>3. CASE CloseDef
  <2>1. \A t \in NewOfClause(InnerFrame.name) : t[1] # "case"
    BY <1>3, DefsName, NamesDiffer DEF NewOfClause, TablesOfClause
  <2>. QED BY <1>3, <2>1, CloseDefDomain
<1>4. CASE CloseModule
  <2>1. \A t \in module_registry' : t[1] # "case"
    BY <1>4, CloseModuleNamed DEF Named
  <2>. QED BY <1>4, <2>1, CloseModuleDomain, DropSteps
<1>. QED BY <1>1, <1>2, <1>3, <1>4 DEF QuietStep

LEMMA CaseRow ==
  ASSUME RowInv, NEW id, CompileCase(id)
  PROVE  /\ CasesTable \in DOMAIN ets /\ Cases' = Append(Cases, CaseTable(id))
         /\ Range(Cases') = Range(Cases) \cup {CaseTable(id)}
         /\ Len(Cases') = Len(Cases) + 1 /\ Len(Cases) \in Nat /\ Cases' # <<>>
<1>1. CasesTable \in DOMAIN ets
  BY OtherTables DEF RowInv, TransformInv, TypeOK, CompileCase, At
<1>2. Cases' = Append(Cases, CaseTable(id))
  BY <1>1, CaseKeeps DEF RowLonger, Cases
<1>3. Cases \in Seq(Range(Cases)) /\ Len(Cases) \in Nat
  BY <1>1, RowIsSeq
<1>4. Range(Cases') = Range(Cases) \cup {CaseTable(id)} /\ Len(Cases') = Len(Cases) + 1
  BY <1>2, <1>3, RangeOfAppend
<1>5. Cases' # <<>>
  BY <1>3, <1>4
<1>. QED BY <1>1, <1>2, <1>3, <1>4, <1>5

LEMMA StartRow ==
  ASSUME RowInv, ~rescued, NEW prompt, StartTransform(prompt)
  PROVE  Cases' = <<>> /\ DOMAIN ets' = SetupTables
<1>1. DOMAIN ets = {} /\ ets' = Created(ets, SetupTables)
  BY DEF RowInv, TransformInv, IdleClean, StartTransform
<1>2. ets'[CasesTable] = Fresh(CasesTable)
  BY <1>1, OtherTables DEF Created
<1>3. DOMAIN ets' = SetupTables
  BY <1>1, CreatedDomain
<1>4. Fresh(CasesTable) = <<>>
  BY OtherTables DEF Fresh
<1>. QED BY <1>2, <1>3, <1>4 DEF Cases

LEMMA CountedStep == RowInv /\ Named /\ Ordered /\ Counted /\ [Steps]_vars => Counted'
<1>. SUFFICES ASSUME RowInv, Named, Ordered, Counted, [Steps]_vars, phase' = "walk", ~rescued'
              PROVE  Count'
  BY DEF Counted
<1>1. ASSUME NEW prompt \in Inputs, StartTransform(prompt) PROVE Count'
  <2>1. Cases' = <<>> /\ Seen' = {}
    BY <1>1, StartRow, StartSeen DEF StartTransform
  <2>2. Range(Cases') = {} /\ Len(Cases') = 0
    BY <2>1 DEF Range
  <2>. QED BY <2>1, <2>2 DEF Count
<1>2. ASSUME QuietStep, phase = "walk", UNCHANGED rescued PROVE Count'
  <2>1. Cases' = Cases /\ Seen' = Seen
    BY <1>2, QuietRow, SeenSame
  <2>2. \A t : t[1] = "case" => (t \in DOMAIN ets' <=> t \in DOMAIN ets)
    BY <1>2, QuietTables
  <2>. QED BY <1>2, <2>1, <2>2 DEF Counted, Count
<1>3. ASSUME NEW id \in Ids, CompileCase(id), phase = "walk", UNCHANGED rescued PROVE Count'
  <2>1. /\ Range(Cases') = Range(Cases) \cup {CaseTable(id)} /\ CasesTable \in DOMAIN ets
        /\ Len(Cases') = Len(Cases) + 1 /\ Len(Cases) \in Nat /\ Cases' # <<>>
    BY <1>3, CaseRow
  <2>2. Cases # <<>> <=> Len(Cases) > 0
    BY <2>1, RowIsSeq
  <2>3. Seen' = Seen \cup {todo[1]} /\ todo[1] \notin Seen
    BY <1>3, SeenMore
  <2>4. \A t \in Range(Cases') : t \in DOMAIN ets' /\ t[1] = "case"
    BY <1>3, <2>1, CaseDomain, NamesDiffer DEF Counted, Count
  <2>5. Len(Cases') > 1 <=> Cases # <<>>
    BY <2>1, <2>2
  <2>6. (\E c, d \in Seen' : c # d) <=> Seen # {}
    BY <2>3
  <2>. QED BY <1>3, <2>1, <2>3, <2>4, <2>5, <2>6 DEF Counted, Count
<1>4. CASE UNCHANGED vars
  BY <1>4, SameLatest DEF vars, history, Counted, Count, Cases, Seen
<1>5. QuietStep \/ (\E id \in Ids : CompileCase(id)) => phase = "walk" /\ UNCHANGED rescued
  BY DropSteps, EnterSteps
  DEF QuietStep, Dropped, ExpandedItem, EnteredItem, CloseDef, CloseModule
<1>. QED BY <1>1, <1>2, <1>3, <1>4, <1>5, WalkSteps DEF QuietStep


-----------------------------------------------------------------------------
(* What is left of the cases of earlier prompts: a row in the registry.    *)
CaseSince(n) == \E k \in since..n : OuterCases(session[k]) # {}

\* A prompt whose walk is over has no nested module, and at most one case.
Chosen ==
  phase = "cases" /\ ~rescued =>
    /\ Cases # <<>> <=> OuterCases(Latest) # {}
    /\ Cases = <<>> => todo = <<>>
    /\ ~HasNestedModule(Latest) /\ ~HasTwoCases(Latest)

RowsRecorded ==
  /\ ~(registry \subseteq DOMAIN ets) => UsedCaseBefore
  /\ registry \subseteq SetupTables <=> ~UsedCaseBefore /\ Cases = <<>>
  /\ \A t \in DOMAIN ets : t[1] = "case" => Cases # <<>>

Registered ==
  /\ phase \in {"walk", "cases"} /\ ~rescued => RowsRecorded
  /\ phase = "idle" /\ ~rescued => (registry \subseteq SetupTables <=> ~CaseSince(Len(session)))

\* At the end of the walk every case of the prompt has been seen.
LEMMA WalkedAll ==
  ASSUME RowInv, Nesting, Counted, phase = "walk", ~rescued, todo = <<>>
  PROVE  /\ ~HasNestedModule(Latest)
         /\ Cases # <<>> <=> OuterCases(Latest) # {}
         /\ Len(Cases) > 1 <=> HasTwoCases(Latest)
<1>1. Ahead(todo) = {} /\ 1..Len(todo) = {}
  BY DEF Ahead
<1>2. ~HasNestedModule(Latest)
  BY <1>1 DEF Nesting, NestedStill, NestingAhead, NestingOpen, ModuleOpen
<1>3. Seen = OuterCases(Latest)
  BY <1>1 DEF Seen
<1>. QED BY <1>2, <1>3 DEF Counted, Count, HasTwoCases

LEMMA ChosenStep ==
  RowInv /\ Nesting /\ Counted /\ Chosen /\ [Steps]_vars => Chosen'
<1>. SUFFICES ASSUME RowInv, Nesting, Counted, Chosen, [Steps]_vars, phase' = "cases", ~rescued'
              PROVE  Chosen'
  BY DEF Chosen
<1>1. CASE FinishWalk
  <2>1. /\ phase = "walk" /\ todo = <<>> /\ UNCHANGED <<ets, session, rescued>>
        /\ ~TooMany(Cases) /\ (Cases = <<>> => todo' = <<>>)
    <3>1. "crashed" # "cases"
      OBVIOUS
    <3>. QED BY <1>1, <3>1, Zenon DEF FinishWalk, Raise, Cases, history
  <2>2. Cases' = Cases /\ Latest' = Latest
    BY <2>1, SameLatest DEF Cases
  <2>. QED BY <2>1, <2>2, WalkedAll DEF Chosen, TooMany
<1>2. ASSUME NEW id \in Ids, CompileCase(id) PROVE Chosen'
  <2>1. phase = "cases" /\ Dropped
    BY <1>2, DropSteps
  <2>2. Cases # <<>> /\ ~rescued
    BY <2>1 DEF Chosen, Dropped
  <2>3. Cases' # <<>> /\ Latest' = Latest
    BY <1>2, <2>1, CaseRow, SameLatest DEF Dropped
  <2>. QED BY <2>1, <2>2, <2>3 DEF Chosen
<1>3. CASE Emits \/ ExpandMacro
  <2>1. UNCHANGED <<phase, ets, session, rescued>> /\ todo # <<>>
    BY <1>3, DropSteps DEF Dropped, ExpandedItem
  <2>2. Cases' = Cases /\ Latest' = Latest /\ Cases # <<>> /\ ~rescued
    BY <2>1, SameLatest DEF Cases, Chosen
  <2>. QED BY <2>1, <2>2 DEF Chosen
<1>4. CASE UNCHANGED vars
  BY <1>4, SameLatest DEF vars, history, Chosen, Cases
<1>5. \/ FinishWalk \/ Emits \/ ExpandMacro \/ (\E id \in Ids : CompileCase(id))
      \/ UNCHANGED vars
  BY HostSteps
  DEF Steps, HostSays, StartTransform, OpenDef, OpenModule, CloseDef, CloseModule,
      FinishTransform, Restart, Rescue, Over, Raise
<1>. QED BY <1>1, <1>2, <1>3, <1>4, <1>5

LEMMA SameUsed ==
  UNCHANGED <<session, since>> => UsedCaseBefore' = UsedCaseBefore
BY DEF UsedCaseBefore

LEMMA StartRecorded ==
  ASSUME RowInv, Registered, ~rescued, NEW prompt \in Inputs, StartTransform(prompt)
  PROVE  RowsRecorded'
<1>1. Cases' = <<>> /\ DOMAIN ets' = SetupTables
  BY StartRow
<1>2. DOMAIN ets = {} /\ registry' = registry \cup SetupTables
  BY DEF RowInv, TransformInv, IdleClean, StartTransform, NewRows
<1>3. UsedCaseBefore' <=> CaseSince(Len(session))
  <2>1. /\ Len(session') = Len(session) + 1 /\ Len(session) \in Nat
        /\ \A k \in 1..Len(session) : session'[k] = session[k]
    BY StartLatest
  <2>2. since' = since /\ since \in Nat \ {0}
    BY DEF StartTransform, RowInv, Prompted
  <2>3. since..Len(session) = since'..Len(session') - 1
    BY <2>1, <2>2
  <2>4. \A k \in since..Len(session) : session'[k] = session[k]
    BY <2>1, <2>2
  <2>. QED BY <2>3, <2>4 DEF UsedCaseBefore, CaseSince
<1>4. registry \subseteq SetupTables <=> ~CaseSince(Len(session))
  BY DEF Registered, StartTransform
<1>5. registry' \subseteq SetupTables <=> ~UsedCaseBefore' /\ Cases' = <<>>
  BY <1>1, <1>2, <1>3, <1>4
<1>6. ~(registry' \subseteq DOMAIN ets') => UsedCaseBefore'
  BY <1>1, <1>5
<1>7. \A t \in DOMAIN ets' : t[1] # "case"
  BY <1>1, CaseTablesSeparate
<1>. QED BY <1>5, <1>6, <1>7 DEF RowsRecorded

LEMMA CaseRecorded ==
  ASSUME RowInv, Named, RowsRecorded, NEW id, CompileCase(id)
  PROVE  RowsRecorded'
<1>. DEFINE name == CaseTable(id)
<1>1. /\ registry' = IF name \in DOMAIN ets THEN registry ELSE registry \cup {name}
      /\ UNCHANGED <<session, since>>
  BY DEF CompileCase, history
<1>2. DOMAIN ets' = DOMAIN ets \cup {name} /\ Cases' # <<>>
  BY CaseDomain, CaseRow
<1>3. name[1] = "case" /\ name \notin SetupTables
  BY NamesDiffer, CaseTablesSeparate
<1>4. name \in registry'
  BY <1>1, <1>3 DEF RowInv, TransformInv, TablesAccounted, Named
<1>5. UsedCaseBefore' = UsedCaseBefore
  BY <1>1, SameUsed
<1>. HIDE DEF name
<1>6. ~(registry' \subseteq SetupTables)
  BY <1>3, <1>4
<1>7. ~(registry' \subseteq DOMAIN ets') => UsedCaseBefore'
  BY <1>1, <1>2, <1>5 DEF RowsRecorded
<1>. QED BY <1>2, <1>6, <1>7 DEF RowsRecorded

LEMMA QuietRecorded ==
  ASSUME RowInv, RowInv', Named, RowsRecorded, phase = "walk", phase' = "walk", QuietStep
  PROVE  RowsRecorded'
<1>1. UNCHANGED <<session, since, registry>>
  BY DropSteps, EnterSteps DEF QuietStep, Dropped, ExpandedItem, EnteredItem
<1>2. Cases' = Cases /\ UsedCaseBefore' = UsedCaseBefore
  BY <1>1, QuietRow, SameUsed
<1>3. \A t : t[1] = "case" => (t \in DOMAIN ets' <=> t \in DOMAIN ets)
  BY QuietTables
<1>4. SetupTables \subseteq DOMAIN ets'
  BY DEF RowInv, TransformInv, TypeOK
<1>5. ~(registry \subseteq DOMAIN ets') => ~(registry \subseteq DOMAIN ets)
  BY <1>3, <1>4 DEF Named
<1>. QED BY <1>1, <1>2, <1>3, <1>5 DEF RowsRecorded


LEMMA FinishedPrompt ==
  ASSUME RowInv, phase = "cases"
  PROVE  CaseSince(Len(session)) <=> UsedCaseBefore \/ OuterCases(Latest) # {}
<1>1. since \in Nat \ {0} /\ Len(session) \in Nat /\ since <= Len(session)
  BY DEF RowInv, Prompted
<1>2. since..Len(session) = (since..Len(session) - 1) \cup {Len(session)}
  BY <1>1
<1>. QED BY <1>2 DEF CaseSince, UsedCaseBefore, Latest

\* The steps after which no prompt is being compiled.
LEMMA IdleSteps ==
  ASSUME [Steps]_vars, phase' = "idle", ~rescued'
  PROVE  \/ FinishTransform /\ registry \subseteq DOMAIN ets
         \/ Restart
         \/ UNCHANGED vars
<1>1. FinishTransform => registry \subseteq DOMAIN ets
  <2>1. "crashed" # "idle"
    OBVIOUS
  <2>2. FinishTransform => registry \ DOMAIN ets = {}
    BY <2>1, Zenon DEF FinishTransform, Raise
  <2>. QED BY <2>2
<1>. QED
  BY <1>1, EmitSteps, HostSteps
  DEF Steps, EmitStep, HostSays, StartTransform, CompileCase, At, OpenDef, OpenModule, CloseDef,
      CloseModule, FinishWalk, Restart, Rescue, Over, Raise

LEMMA RegisteredStep ==
  RowInv /\ RowInv' /\ Named /\ Chosen /\ Registered /\ [Steps]_vars => Registered'
<1>. SUFFICES ASSUME RowInv, RowInv', Named, Chosen, Registered, [Steps]_vars
              PROVE  Registered'
  OBVIOUS
<1>1. ASSUME phase' \in {"walk", "cases"}, ~rescued' PROVE RowsRecorded'
  <2>1. ASSUME NEW prompt \in Inputs, StartTransform(prompt) PROVE RowsRecorded'
    BY <1>1, <2>1, StartRecorded DEF StartTransform
  <2>2. ASSUME NEW id \in Ids, CompileCase(id) PROVE RowsRecorded'
    <3>1. UNCHANGED <<phase, rescued>>
      BY <2>2, DropSteps DEF Dropped
    <3>. QED BY <1>1, <2>2, <3>1, CaseRecorded DEF Registered
  <2>3. CASE EmitStep \/ UNCHANGED vars \/ FinishWalk
    <3>1. UNCHANGED <<ets, registry, session, since, rescued>> /\ phase \in {"walk", "cases"}
      BY <1>1, <2>3 DEF EmitStep, FinishWalk, Raise, vars, history
    <3>2. Cases' = Cases /\ UsedCaseBefore' = UsedCaseBefore
      BY <3>1, SameUsed DEF Cases
    <3>. QED BY <1>1, <3>1, <3>2 DEF Registered, RowsRecorded
  <2>4. CASE OpenModule \/ CloseDef \/ CloseModule \/ \E id \in Ids : OpenDef(id)
    <3>1. QuietStep /\ phase = "walk"
      BY <2>4 DEF QuietStep, OpenModule, CloseDef, CloseModule, OpenDef
    <3>2. phase' = "walk"
      BY <1>1, <2>4, <3>1, Zenon DEF OpenModule, CloseDef, CloseModule, OpenDef, Raise
    <3>3. UNCHANGED rescued
      BY <2>4, <3>2, DropSteps, EnterSteps DEF Dropped, EnteredItem
    <3>. QED BY <1>1, <3>1, <3>2, <3>3, QuietRecorded DEF Registered
  <2>. QED
    BY <1>1, <2>1, <2>2, <2>3, <2>4, EmitSteps, HostSteps
    DEF Steps, HostSays, FinishTransform, Restart, Rescue, Over, Raise
<1>2. ASSUME phase' = "idle", ~rescued'
      PROVE  registry' \subseteq SetupTables <=> ~CaseSince(Len(session))'
  <2>1. CASE FinishTransform /\ registry \subseteq DOMAIN ets
    <3>1. phase = "cases" /\ UNCHANGED <<registry, session, since, rescued>>
      BY <2>1 DEF FinishTransform, Raise, history
    <3>2. CaseSince(Len(session))' = CaseSince(Len(session))
      BY <3>1 DEF CaseSince
    <3>3. registry \subseteq SetupTables <=> ~UsedCaseBefore /\ Cases = <<>>
      BY <1>2, <3>1 DEF Registered, RowsRecorded
    <3>4. Cases # <<>> <=> OuterCases(Latest) # {}
      BY <1>2, <3>1 DEF Chosen
    <3>. QED BY <3>1, <3>2, <3>3, <3>4, FinishedPrompt
  <2>2. CASE Restart
    <3>1. registry' = {} /\ since' = Len(session) + 1 /\ session' = session
      BY <2>2 DEF Restart
    <3>2. since'..Len(session') = {}
      BY <3>1 DEF RowInv, Prompted
    <3>. QED BY <3>1, <3>2 DEF CaseSince
  <2>3. CASE UNCHANGED vars
    BY <1>2, <2>3 DEF vars, history, Registered, CaseSince
  <2>. QED BY <1>2, <2>1, <2>2, <2>3, IdleSteps
<1>. QED BY <1>1, <1>2 DEF Registered

-----------------------------------------------------------------------------
(* What is visited in the walk, in a macro's code and in a case is of the  *)
(* latest prompt; a case's table keeps what stood in the case.             *)
Visiting ==
  ~rescued =>
    /\ phase = "cases" => todo \in Seq(Visited(Latest))
    /\ phase = "walk" => \A t \in DOMAIN ets : t[1] = "case" => ets[t] \in Seq(Visited(Latest))

LEMMA VisitedInside ==
  ASSUME NEW p, Parsed(p), NEW i \in Visited(p) PROVE Inside(i) \subseteq Visited(p)
<1>1. CASE i \in Walked(p)
  BY <1>1, WalkedInside DEF Visited
<1>2. CASE i \notin Walked(p)
  <2>1. PICK c \in OuterCases(p) : \E r \in Range(c.body) : i \in Inside(r)
    BY <1>2 DEF Visited
  <2>6. PICK r \in Range(c.body) : i \in Inside(r)
    BY <2>1
  <2>2. Inside(r) \subseteq Visited(p)
    BY DEF Visited
  <2>3. r \in Visited(p)
    BY <2>2, InsideItself
  <2>4. Opened(Inside(r)) = Inside(r)
    BY <2>3 DEF Parsed
  <2>5. Inside(i) \subseteq Inside(r)
    BY <2>4, <2>6, InsideClosed
  <2>. QED BY <2>2, <2>5, <2>6
<1>. QED BY <1>1, <1>2

\* What stands in a case, or a macro yields, is visited.
LEMMA VisitedBody ==
  ASSUME NEW p, Parsed(p), NEW i,
         i \in OuterCases(p) \/ (i \in Visited(p) /\ i.op = "call")
  PROVE  i.body \in Seq(Visited(p))
<1>1. i \in Visited(p)
  BY DEF OuterCases, Visited
<1>2. i.body \in Seq(Range(i.body))
  BY <1>1 DEF Parsed
<1>3. Range(i.body) \subseteq Visited(p)
  <2>1. CASE i \in OuterCases(p)
    BY <2>1, InsideItself DEF Visited
  <2>2. CASE i.op = "call"
    <3>1. Opened({i}) \subseteq Opened(Inside(i)) /\ Opened(Inside(i)) = Inside(i)
      BY <1>1, InsideItself, OpenedMonotone DEF Parsed
    <3>2. Range(i.body) \subseteq Opened({i})
      BY <2>2 DEF Opened
    <3>. QED BY <1>1, <3>1, <3>2, VisitedInside
  <2>. QED BY <2>1, <2>2
<1>. QED BY <1>2, <1>3

\* The item in front is one of the latest prompt.
LEMMA FrontVisited ==
  ASSUME RowInv, Ordered, Visiting, ~rescued, phase \in {"walk", "cases"}, todo # <<>>,
         todo[1].op # "end"
  PROVE  todo[1] \in Visited(Latest) /\ (phase = "walk" => todo[1] \in Walked(Latest))
<1>1. CASE phase = "walk"
  <2>1. todo[1] \in Walked(Latest) \cup Ends
    BY <1>1, TailItems DEF Ordered, Pending
  <2>. QED BY <2>1, EndsAreNoItems DEF Visited
<1>2. CASE phase = "cases"
  BY <1>2, TailItems DEF Visiting
<1>. QED BY <1>1, <1>2

\* No other step of the walk writes to a case's table.
LEMMA QuietCases ==
  ASSUME RowInv, Named, phase = "walk", phase' = "walk", QuietStep, NEW t \in DOMAIN ets',
         t[1] = "case"
  PROVE  t \in DOMAIN ets /\ ets'[t] = ets[t]
<1>1. t \in DOMAIN ets /\ Other(t) /\ t # GuardsTable
  BY QuietTables, OtherTables
<1>2. CASE Emits \/ ExpandMacro \/ \E id : OpenDef(id)
  BY <1>1, <1>2, DropSteps, EnterSteps
<1>3. CASE OpenModule
  BY <1>1, <1>3, OpenModuleKeeps DEF TableSame
<1>4. CASE CloseDef
  BY <1>1, <1>4, DefsName, CloseDefKeeps DEF TableSame
<1>5. CASE CloseModule
  <2>1. t \notin module_registry'
    BY <1>5, CloseModuleNamed DEF Named
  <2>. QED BY <1>1, <1>5, <2>1, CloseModuleKeeps DEF TableSame
<1>. QED BY <1>1, <1>2, <1>3, <1>4, <1>5 DEF QuietStep

LEMMA CaseKept ==
  ASSUME NEW id, CompileCase(id), NEW t \in DOMAIN ets', t[1] = "case"
  PROVE  IF t = CaseTable(id)
         THEN \/ t \in DOMAIN ets /\ ets'[t] = ets[t] \o todo[1].body
              \/ ets'[t] = <<>> \o todo[1].body
         ELSE t \in DOMAIN ets /\ ets'[t] = ets[t]
<1>. DEFINE name == CaseTable(id)
            new == {name}
            predefined == Predefined(ets, new)
            created == Created(predefined, new)
            made == Appended(created, CasesTable, name)
<1>1. ets' = [made EXCEPT ![name] = @ \o todo[1].body]
  BY DEF CompileCase
<1>2. DOMAIN ets' = DOMAIN ets \cup {name}
  BY CaseDomain
<1>3. t # Predefines /\ t # CasesTable
  BY OtherTables DEF Other
<1>4. DOMAIN predefined = DOMAIN ets /\ (t \in DOMAIN ets => predefined[t] = ets[t])
  BY <1>3, PredefinedRow, PredefinedDomain
<1>. HIDE DEF predefined
<1>5. /\ t \in DOMAIN created
      /\ t \in DOMAIN ets => created[t] = ets[t]
      /\ t \notin DOMAIN ets => created[t] = Fresh(t)
  BY <1>2, <1>4 DEF Created
<1>. HIDE DEF created
<1>6. t \in DOMAIN made /\ made[t] = created[t]
  BY <1>3, <1>5, AppendedRow, AppendedDomain
<1>. HIDE DEF made
<1>7. ets'[t] = IF t = name THEN made[t] \o todo[1].body ELSE made[t]
  BY <1>1, <1>6
<1>8. Fresh(t) = <<>>
  BY OtherTables DEF Fresh, Other
<1>. QED BY <1>2, <1>5, <1>6, <1>7, <1>8 DEF name

LEMMA VisitingStep ==
  RowInv /\ Named /\ Ordered /\ Counted /\ Visiting /\ [Steps]_vars => Visiting'
<1>. SUFFICES ASSUME RowInv, Named, Ordered, Counted, Visiting, [Steps]_vars, ~rescued'
              PROVE  Visiting'
  BY DEF Visiting
<1>1. ASSUME phase' = "walk", NEW t \in DOMAIN ets', t[1] = "case"
      PROVE  ets'[t] \in Seq(Visited(Latest'))
  <2>1. ASSUME NEW prompt \in Inputs, StartTransform(prompt) PROVE FALSE
    BY <1>1, <2>1, StartRow, CaseTablesSeparate DEF StartTransform
  <2>2. CASE QuietStep
    <3>1. phase = "walk" /\ UNCHANGED <<session, rescued>>
      BY <1>1, <2>2, DropSteps, EnterSteps
      DEF QuietStep, Dropped, ExpandedItem, EnteredItem, CloseDef, CloseModule
    <3>. QED BY <1>1, <2>2, <3>1, QuietCases, SameLatest DEF Visiting
  <2>3. ASSUME NEW id \in Ids, CompileCase(id) PROVE ets'[t] \in Seq(Visited(Latest'))
    <3>1. phase = "walk" /\ Dropped /\ todo[1].op = "case"
      BY <1>1, <2>3, DropSteps
    <3>2. Latest' = Latest /\ ~rescued /\ Parsed(Latest)
      BY <3>1, SameLatest, LatestParsed DEF Dropped
    <3>3. todo[1].body \in Seq(Visited(Latest))
      <4>1. todo # <<>> /\ todo[1].op # "end" /\ phase \in {"walk", "cases"}
        BY <3>1 DEF Dropped
      <4>2. todo[1] \in Walked(Latest)
        BY <3>1, <3>2, <4>1, FrontVisited, Zenon
      <4>3. todo[1] \in OuterCases(Latest)
        BY <3>1, <4>2 DEF OuterCases
      <4>. QED BY <3>2, <4>3, VisitedBody, Zenon
    <3>4. \A u \in DOMAIN ets : u[1] = "case" => ets[u] \in Seq(Visited(Latest))
      BY <3>1, <3>2 DEF Visiting
    <3>5. \A u \in Seq(Visited(Latest)) : u \o todo[1].body \in Seq(Visited(Latest))
      BY <3>3
    <3>6. <<>> \in Seq(Visited(Latest))
      OBVIOUS
    <3>7. CASE t \in DOMAIN ets /\ ets'[t] = ets[t]
      BY <1>1, <3>2, <3>4, <3>7
    <3>8. CASE t \in DOMAIN ets /\ ets'[t] = ets[t] \o todo[1].body
      BY <1>1, <3>2, <3>4, <3>5, <3>8, Zenon
    <3>9. CASE ets'[t] = <<>> \o todo[1].body
      BY <3>2, <3>5, <3>6, <3>9, Zenon
    <3>. QED BY <1>1, <2>3, <3>7, <3>8, <3>9, CaseKept
  <2>4. CASE UNCHANGED vars
    BY <1>1, <2>4, SameLatest DEF vars, history, Visiting
  <2>. QED BY <1>1, <2>1, <2>2, <2>3, <2>4, WalkSteps DEF QuietStep
<1>2. ASSUME phase' = "cases" PROVE todo' \in Seq(Visited(Latest'))
  <2>1. CASE FinishWalk
    <3>1. /\ phase = "walk" /\ todo = <<>> /\ UNCHANGED <<session, rescued>>
          /\ IF Cases = <<>> THEN UNCHANGED todo ELSE todo' = ets[Cases[1]]
      <4>1. "crashed" # "cases"
        OBVIOUS
      <4>. QED BY <1>2, <2>1, <4>1, Zenon DEF FinishWalk, Raise, Cases, history
    <3>2. CASE Cases # <<>>
      <4>1. CasesTable \in DOMAIN ets
        BY <3>1, OtherTables DEF RowInv, TransformInv, TypeOK
      <4>2. Cases \in Seq(Range(Cases)) /\ Len(Cases) > 0
        BY <3>2, <4>1, RowIsSeq
      <4>3. Cases[1] \in Range(Cases)
        BY <4>2
      <4>4. Cases[1] \in DOMAIN ets /\ Cases[1][1] = "case"
        BY <3>1, <4>3 DEF Counted, Count
      <4>. QED BY <3>1, <3>2, <4>4, SameLatest DEF Visiting
    <3>3. CASE Cases = <<>>
      <4>1. todo' = <<>>
        BY <3>1, <3>3
      <4>. QED BY <4>1
    <3>. QED BY <3>2, <3>3
  <2>2. CASE Emits \/ ExpandMacro \/ \E id \in Ids : CompileCase(id)
    <3>1. phase = "cases" /\ UNCHANGED <<session, rescued>> /\ todo # <<>>
      BY <1>2, <2>2, DropSteps DEF Dropped, ExpandedItem
    <3>2. Latest' = Latest /\ Parsed(Latest) /\ todo \in Seq(Visited(Latest))
      BY <3>1, SameLatest, LatestParsed DEF Visiting
    <3>3. Tail(todo) \in Seq(Visited(Latest)) /\ todo[1] \in Visited(Latest)
      BY <3>1, <3>2, TailItems
    <3>4. CASE Dropped
      BY <3>2, <3>3, <3>4 DEF Dropped
    <3>5. CASE ExpandedItem
      <4>1. todo[1].body \in Seq(Visited(Latest))
        BY <3>2, <3>3, <3>5, VisitedBody DEF ExpandedItem
      <4>. QED BY <3>2, <3>3, <3>5, <4>1 DEF ExpandedItem
    <3>. QED BY <2>2, <3>4, <3>5, DropSteps
  <2>3. CASE UNCHANGED vars
    BY <1>2, <2>3, SameLatest DEF vars, history, Visiting
  <2>4. \/ FinishWalk \/ Emits \/ ExpandMacro \/ (\E id \in Ids : CompileCase(id))
        \/ UNCHANGED vars
    BY <1>2, HostSteps
    DEF Steps, HostSays, StartTransform, OpenDef, OpenModule, CloseDef, CloseModule,
        FinishTransform, Restart, Rescue, Over, Raise
  <2>. QED BY <2>1, <2>2, <2>3, <2>4
<1>. QED BY <1>1, <1>2 DEF Visiting

-----------------------------------------------------------------------------
(* A name is taken for a macro's that a module of the prompt has, and the  *)
(* compiler's own Elixir has a module of that name.                        *)
Hosted ==
  phase \in {"walk", "cases"} /\ ~rescued =>
    \A g \in ets[GuardsTable] :
      \E m \in ModulesOf(Latest) : g \in GuardsOf(m) /\ \E n \in host : n.name = m.name

LEMMA LoadedNames ==
  ASSUME NEW m
  PROVE  m \in Loaded(m) /\ \A n \in host : \E l \in Loaded(m) : l.name = n.name
<1>1. m \in Loads(m)
  BY Zenon DEF Loads
<1>. DEFINE L == Loads(m)
<1>2. Loaded(m) = {n \in host : \A l \in L : n.name # l.name} \cup L
  BY DEF Loaded
<1>. HIDE DEF L
<1>. QED BY <1>1, <1>2 DEF L

LEMMA OpenModuleHosted ==
  ASSUME RowInv, Ordered, Visiting, Hosted, ~rescued, OpenModule PROVE Hosted'
<1>. DEFINE made == Created(ets, TablesOfModule(todo[1].name))
<1>1. /\ phase = "walk" /\ todo # <<>> /\ todo[1].op = "module" /\ host' = Loaded(todo[1])
      /\ UNCHANGED session
  BY DEF OpenModule, Next_item, history
<1>2. todo[1] \in ModulesOf(Latest) /\ Latest' = Latest
  BY <1>1, FrontVisited, SameLatest DEF ModulesOf
<1>3. GuardsTable \in DOMAIN ets
  BY <1>1, OtherTables DEF RowInv, TransformInv, TypeOK
<1>4. ets' = Recorded(made, todo[1])
  BY Zenon DEF OpenModule
<1>5. GuardsTable \in DOMAIN made /\ made[GuardsTable] = ets[GuardsTable]
  BY <1>3, CreatedRow, CreatedDomain
<1>. HIDE DEF made
<1>6. ets'[GuardsTable] = ets[GuardsTable] \cup GuardsOf(todo[1])
  BY <1>4, <1>5 DEF Recorded
<1>7. ASSUME NEW g \in ets'[GuardsTable]
      PROVE  \E m \in ModulesOf(Latest) : g \in GuardsOf(m) /\ \E n \in host' : n.name = m.name
  <2>1. CASE g \in GuardsOf(todo[1])
    BY <1>1, <1>2, <2>1, LoadedNames
  <2>2. CASE g \in ets[GuardsTable]
    <3>1. PICK m \in ModulesOf(Latest), n \in host : g \in GuardsOf(m) /\ n.name = m.name
      BY <1>1, <2>2 DEF Hosted
    <3>2. \E l \in host' : l.name = m.name
      BY <1>1, <3>1, LoadedNames
    <3>. QED BY <3>1, <3>2
  <2>. QED BY <1>6, <1>7, <2>1, <2>2
<1>. QED BY <1>2, <1>7 DEF Hosted

LEMMA GuardsKept ==
  ASSUME GuardsTable \in DOMAIN ets, NEW id, CompileCase(id)
  PROVE  ets'[GuardsTable] = ets[GuardsTable]
<1>. DEFINE name == CaseTable(id)
            new == {name}
            predefined == Predefined(ets, new)
            created == Created(predefined, new)
            made == Appended(created, CasesTable, name)
<1>1. ets' = [made EXCEPT ![name] = @ \o todo[1].body]
  BY DEF CompileCase
<1>2. GuardsTable \notin {Predefines, CasesTable} /\ name # GuardsTable
  BY OtherTables, NamesDiffer DEF Other
<1>3. GuardsTable \in DOMAIN predefined /\ predefined[GuardsTable] = ets[GuardsTable]
  BY <1>2, PredefinedRow, PredefinedDomain
<1>. HIDE DEF predefined
<1>4. GuardsTable \in DOMAIN created /\ created[GuardsTable] = ets[GuardsTable]
  BY <1>3, CreatedRow, CreatedDomain
<1>. HIDE DEF created
<1>5. GuardsTable \in DOMAIN made /\ made[GuardsTable] = ets[GuardsTable]
  BY <1>2, <1>4, AppendedRow, AppendedDomain
<1>. HIDE DEF made, name
<1>. QED BY <1>1, <1>2, <1>5

LEMMA HostedStep ==
  RowInv /\ Named /\ Ordered /\ Visiting /\ Hosted /\ [Steps]_vars => Hosted'
<1>. SUFFICES ASSUME RowInv, Named, Ordered, Visiting, Hosted, [Steps]_vars,
                     phase' \in {"walk", "cases"}, ~rescued'
              PROVE  Hosted'
  BY DEF Hosted
<1>1. ASSUME NEW prompt \in Inputs, StartTransform(prompt) PROVE Hosted'
  <2>1. DOMAIN ets = {} /\ ets' = Created(ets, SetupTables)
    BY <1>1 DEF RowInv, TransformInv, IdleClean, StartTransform
  <2>2. ets'[GuardsTable] = Fresh(GuardsTable)
    BY <2>1, OtherTables DEF Created
  <2>3. Fresh(GuardsTable) = {}
    BY DEF Fresh
  <2>. QED BY <2>2, <2>3 DEF Hosted
<1>2. CASE /\ UNCHANGED <<host, session, rescued>> /\ ets'[GuardsTable] = ets[GuardsTable]
           /\ phase \in {"walk", "cases"}
  BY <1>2, SameLatest DEF Hosted
<1>3. CASE OpenModule
  BY <1>3, OpenModuleHosted DEF OpenModule, history
<1>4. CASE EmitStep \/ FinishWalk \/ \E id \in Ids : OpenDef(id)
  BY <1>2, <1>4 DEF EmitStep, FinishWalk, Raise, OpenDef, history
<1>5. CASE CloseDef \/ CloseModule
  <2>1. phase = "walk" /\ UNCHANGED <<host, session, rescued>>
    BY <1>5, Zenon DEF CloseDef, CloseModule, Raise, history
  <2>2. GuardsTable \in DOMAIN ets
    BY <2>1, OtherTables DEF RowInv, TransformInv, TypeOK
  <2>3. ets'[GuardsTable] = ets[GuardsTable]
    BY <1>5, <2>2, SetupKept, OtherTables DEF RowInv, TableSame
  <2>. QED BY <1>2, <2>1, <2>3
<1>6. ASSUME NEW id \in Ids, CompileCase(id) PROVE Hosted'
  <2>1. phase \in {"walk", "cases"} /\ UNCHANGED <<host, session, rescued>>
    BY <1>6, Zenon DEF CompileCase, At, history
  <2>2. GuardsTable \in DOMAIN ets
    BY <2>1, OtherTables DEF RowInv, TransformInv, TypeOK
  <2>3. ets'[GuardsTable] = ets[GuardsTable]
    BY <1>6, <2>2, GuardsKept
  <2>. QED BY <1>2, <2>1, <2>3
<1>7. CASE UNCHANGED vars
  BY <1>7, SameLatest DEF vars, history, Hosted
<1>. QED
  BY <1>1, <1>3, <1>4, <1>5, <1>6, <1>7, EmitSteps, HostSteps
  DEF Steps, HostSays, FinishTransform, Restart, Rescue, Over, Raise

-----------------------------------------------------------------------------
CrashInv ==
  /\ RowInv /\ Named /\ Ordered /\ Nesting /\ Counted /\ Chosen /\ Registered
  /\ Visiting /\ Hosted
  /\ CrashExplained /\ SurvivalExplained

LEMMA CrashInvInit == Init => CrashInv
<1>1. Init => RowInv
  BY InitInv DEF Init, NoTables, Row, Prompted, RowInv
<1>2. Init => Named /\ Ordered /\ Nesting /\ Counted /\ Chosen
  BY DEF Init, Named, Ordered, Nesting, Counted, Chosen
<1>3. Init => Registered /\ CrashExplained /\ SurvivalExplained
  BY DEF Init, Registered, CaseSince, CrashExplained, SurvivalExplained, Compiled
<1>4. Init => Visiting /\ Hosted
  BY DEF Init, Visiting, Hosted
<1>. QED BY <1>1, <1>2, <1>3, <1>4 DEF CrashInv

\* The steps that raise.
LEMMA CrashSteps ==
  ASSUME [Steps]_vars, phase' = "crashed", phase # "crashed"
  PROVE  /\ UNCHANGED <<session, since, rescued>>
         /\ \/ (CloseDef \/ CloseModule) /\ FunctionsList \notin DOMAIN ets
            \/ FinishWalk /\ (TooMany(Cases) \/ ~(Range(Cases) \subseteq DOMAIN ets))
            \/ FinishTransform /\ ~(registry \subseteq DOMAIN ets)
            \/ RequireRaises \/ HostRaises
<1>1. CloseDef \/ CloseModule \/ FinishWalk \/ FinishTransform \/ RequireRaises \/ HostRaises
  BY EmitSteps
  DEF Steps, StartTransform, EmitStep, CompileCase, OpenDef, OpenModule, Restart, Rescue, Over, vars
<1>2. "crashed" # "cases" /\ "crashed" # "idle"
  OBVIOUS
<1>3. CloseDef \/ CloseModule => FunctionsList \notin DOMAIN ets
  BY Zenon DEF CloseDef, CloseModule
<1>4. FinishWalk => TooMany(Cases) \/ ~(Range(Cases) \subseteq DOMAIN ets)
  BY <1>2, Zenon DEF FinishWalk, Cases
<1>5. FinishTransform => ~(registry \subseteq DOMAIN ets)
  <2>1. FinishTransform => registry \ DOMAIN ets # {}
    BY <1>2, Zenon DEF FinishTransform
  <2>. QED BY <2>1
<1>6. UNCHANGED <<session, since, rescued>>
  <2>1. CloseDef \/ CloseModule => UNCHANGED <<session, since, rescued>>
    BY Zenon DEF CloseDef, CloseModule, Raise, history
  <2>. QED BY <1>1, <2>1, HostSteps DEF HostSays, FinishWalk, FinishTransform, Raise, history
<1>. QED BY <1>1, <1>3, <1>4, <1>5, <1>6

\* What the compiler's own Elixir raises for is in the prompt.
LEMMA HostExplained ==
  ASSUME CrashInv, ~rescued, RequireRaises \/ HostRaises
  PROVE  MistakesMacro(Latest) \/ HasRefusable(Latest)
<1>1. /\ phase \in {"walk", "cases"} /\ todo # <<>> /\ todo[1].op \in {"module", "call"}
  BY DEF RequireRaises, HostRaises, At, Next_item
<1>2. todo[1] \in Visited(Latest)
  BY <1>1, FrontVisited DEF CrashInv
<1>3. CASE HostRaises
  BY <1>2, <1>3 DEF HostRaises, HasRefusable
<1>4. CASE RequireRaises
  <2>1. /\ todo[1].op = "call" /\ Written(todo[1].name, todo[1].fn) \in ets[GuardsTable]
        /\ Callee(todo[1]) = {}
    BY <1>4 DEF RequireRaises, Guarded
  <2>2. PICK m \in ModulesOf(Latest), n \in host :
          Written(todo[1].name, todo[1].fn) \in GuardsOf(m) /\ n.name = m.name
    BY <1>1, <2>1 DEF CrashInv, Hosted
  <2>3. m.name # todo[1].name
    BY <2>1, <2>2 DEF Callee
  <2>. QED BY <1>2, <2>1, <2>2, <2>3 DEF MistakesMacro
<1>. QED BY <1>3, <1>4

LEMMA CrashStep == CrashInv /\ [Steps]_vars => CrashExplained'
<1>. SUFFICES ASSUME CrashInv, [Steps]_vars, phase' = "crashed", ~rescued'
              PROVE  \/ HasNestedModule(Latest') \/ HasTwoCases(Latest') \/ UsedCaseBefore'
                     \/ MistakesMacro(Latest') \/ HasRefusable(Latest')
  BY DEF CrashExplained
<1>1. CASE phase = "crashed"
  <2>1. UNCHANGED vars
    BY <1>1, EmitSteps, HostSteps
    DEF Steps, EmitStep, HostSays, StartTransform, CompileCase, At, OpenDef, OpenModule, CloseDef,
        CloseModule, FinishWalk, FinishTransform, Restart, Rescue, Over
  <2>. QED BY <1>1, <2>1, SameLatest, SameUsed DEF vars, history, CrashInv, CrashExplained
<1>2. CASE phase # "crashed"
  <2>1. UNCHANGED <<session, since, rescued>>
    BY <1>2, CrashSteps
  <2>2. Latest' = Latest /\ UsedCaseBefore' = UsedCaseBefore /\ ~rescued
    BY <2>1, SameLatest, SameUsed
  <2>3. CASE (CloseDef \/ CloseModule) /\ FunctionsList \notin DOMAIN ets
    <3>1. /\ phase = "walk" /\ todo # <<>>
          /\ todo[1] = EndOf("def") \/ todo[1] = EndOf("module")
      BY <2>3, Zenon DEF CloseDef, CloseModule, Leaving
    <3>2. ~NothingOpen(todo)
      <4>1. 1 \in 1..Len(todo)
        BY <3>1, TailItems DEF CrashInv, Ordered, Pending
      <4>. QED BY <3>1, <4>1, EndsDiffer DEF NothingOpen
    <3>3. HasNestedModule(Latest)
      BY <2>2, <2>3, <3>1, <3>2 DEF CrashInv, Nesting, NotNested
    <3>. QED BY <2>2, <3>3
  <2>4. CASE FinishWalk /\ (TooMany(Cases) \/ ~(Range(Cases) \subseteq DOMAIN ets))
    <3>1. phase = "walk" /\ todo = <<>>
      BY <2>4 DEF FinishWalk
    <3>2. TooMany(Cases)
      BY <2>2, <2>4, <3>1 DEF CrashInv, Counted, Count
    <3>3. HasTwoCases(Latest)
      BY <2>2, <3>1, <3>2, WalkedAll DEF CrashInv, TooMany
    <3>. QED BY <2>2, <3>3
  <2>5. CASE FinishTransform /\ ~(registry \subseteq DOMAIN ets)
    BY <2>2, <2>5 DEF FinishTransform, CrashInv, Registered, RowsRecorded
  <2>6. CASE RequireRaises \/ HostRaises
    BY <2>2, <2>6, HostExplained
  <2>. QED BY <1>2, <2>3, <2>4, <2>5, <2>6, CrashSteps
<1>. QED BY <1>1, <1>2

LEMMA SurvivalStep == CrashInv /\ [Steps]_vars => SurvivalExplained'
<1>. SUFFICES ASSUME CrashInv, [Steps]_vars, phase' = "idle", ~rescued', Len(session') >= since'
              PROVE  /\ ~HasNestedModule(Latest') /\ ~HasTwoCases(Latest')
                     /\ UsedCaseBefore' => OuterCases(Latest') # {}
  BY DEF SurvivalExplained, Compiled
<1>1. CASE FinishTransform /\ registry \subseteq DOMAIN ets
  <2>1. phase = "cases" /\ UNCHANGED <<session, since, rescued>>
    BY <1>1 DEF FinishTransform, Raise, history
  <2>2. Latest' = Latest /\ UsedCaseBefore' = UsedCaseBefore
    BY <2>1, SameLatest, SameUsed
  <2>3. /\ Cases # <<>> <=> OuterCases(Latest) # {}
        /\ ~HasNestedModule(Latest) /\ ~HasTwoCases(Latest)
    BY <2>1 DEF CrashInv, Chosen
  <2>4. ASSUME UsedCaseBefore PROVE Cases # <<>>
    <3>1. ~(registry \subseteq SetupTables)
      BY <2>1, <2>4 DEF CrashInv, Registered, RowsRecorded
    <3>2. PICK t \in registry : t[1] = "case"
      BY <3>1 DEF CrashInv, Named
    <3>3. t \in DOMAIN ets
      BY <1>1
    <3>. QED BY <2>1, <3>2, <3>3 DEF CrashInv, Registered, RowsRecorded
  <2>. QED BY <2>2, <2>3, <2>4
<1>2. CASE Restart
  BY <1>2 DEF Restart, CrashInv, RowInv, Prompted
<1>3. CASE UNCHANGED vars
  BY <1>3, SameLatest, SameUsed DEF vars, history, CrashInv, SurvivalExplained, Compiled
<1>. QED BY <1>1, <1>2, <1>3, IdleSteps

LEMMA CrashInvHolds == Runs => []CrashInv
<1>1. CrashInv /\ [Steps]_vars => RowInv'
  BY TransformInvStep, RowStep, PromptedStep DEF CrashInv, RowInv
<1>2. CrashInv /\ [Steps]_vars => CrashInv'
  BY <1>1, NamedStep, OrderedStep, NestingStep, CountedStep, ChosenStep, RegisteredStep,
     VisitingStep, HostedStep, CrashStep, SurvivalStep
  DEF CrashInv
<1>. QED BY <1>2, CrashInvInit, PTL DEF Runs

(* CrashExplained, for any prompts: while none was rescued, an exception   *)
(* of transform has one of five reasons.  A module's end deletes the list  *)
(* of functions of the one around it (Modules.terminate_module_tables),    *)
(* construct_cases takes one case, the row of a case's table outlives the  *)
(* table (Processing.terminate), a guard is found by a joined name whose   *)
(* module the compiler's own Elixir has under another alias, or what it is *)
(* given to evaluate raises.                                               *)
THEOREM CrashExplainedHolds == Spec => []CrashExplained
<1>1. CrashInv => CrashExplained
  BY DEF CrashInv
<1>. QED BY <1>1, CrashInvHolds, SpecRuns, PTL

(* SurvivalExplained, for any prompts: each of the reasons does stop the   *)
(* prompt, whatever else it holds, but that a case of its own may have     *)
(* drawn the identifier of the table that is gone.                         *)
THEOREM SurvivalExplainedHolds == Spec => []SurvivalExplained
<1>1. CrashInv => SurvivalExplained
  BY DEF CrashInv
<1>. QED BY <1>1, CrashInvHolds, SpecRuns, PTL
=============================================================================
