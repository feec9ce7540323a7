---------------------------- MODULE ProgramProofs ----------------------------
(* What the program of a prompt consists of, for any prompts and any draws *)
(* of identifiers: proofs about the properties of Transform that speak of  *)
(* the emitted functions.                                                  *)
EXTENDS TransformProofs, FiniteSetTheorems

-----------------------------------------------------------------------------
(* The frames of a walk: a module or a def above the first, a def above    *)
(* its module, whose name is in its own.                                   *)
ClauseOf(name, c) == \E f, id : c = ClauseTable(name, f, id)

Layered ==
  phase = "walk" =>
    \A i \in 1..Len(frames) :
      \/ i = 1
      \/ frames[i].kind = "module"
      \/ /\ frames[i].kind = "def" /\ frames[i - 1].kind = "module"
         /\ ClauseOf(frames[i - 1].name, frames[i].name)

LEMMA ClauseFacts ==
  ASSUME NEW name, NEW c, ClauseOf(name, c)
  PROVE  c[1] = "clause" /\ FunctionOf(c)[1] = "function"
BY DEF ClauseOf, ClauseTable, FunctionOf, FunctionTable

\* The frames that stay where they are keep their layers.
LEMMA LayersBelow ==
  ASSUME Layered, phase = "walk", phase' = "walk",
         Len(frames) \in Nat, Len(frames') \in Nat, Len(frames') <= Len(frames),
         \A i \in 1..Len(frames') :
           frames'[i].kind = frames[i].kind /\ frames'[i].name = frames[i].name
  PROVE  Layered'
<1>. SUFFICES ASSUME NEW i \in 1..Len(frames'), i # 1
              PROVE  \/ frames'[i].kind = "module"
                     \/ /\ frames'[i].kind = "def" /\ frames'[i - 1].kind = "module"
                        /\ ClauseOf(frames'[i - 1].name, frames'[i].name)
  BY DEF Layered
<1>1. i \in 1..Len(frames) /\ i - 1 \in 1..Len(frames')
  OBVIOUS
<1>. QED BY <1>1 DEF Layered

\* ... under a frame that is put on them.
LEMMA LayersAbove ==
  ASSUME TransformInv, Layered, phase = "walk", NEW k, NEW n,
         frames' = Append(frames, Frame(k, n)),
         \/ k = "module"
         \/ k = "def" /\ InnerFrame.kind = "module" /\ ClauseOf(InnerFrame.name, n)
  PROVE  Layered'
<1>1. /\ Len(frames) \in Nat /\ Len(frames') = Len(frames) + 1
      /\ \A i \in 1..Len(frames) : frames'[i] = frames[i]
      /\ frames'[Len(frames) + 1].kind = k /\ frames'[Len(frames) + 1].name = n
  BY PushedFrame
<1>2. Len(frames) > 0
  BY DEF TransformInv, Stack
<1>. SUFFICES ASSUME NEW i \in 1..Len(frames'), i # 1
              PROVE  \/ frames'[i].kind = "module"
                     \/ /\ frames'[i].kind = "def" /\ frames'[i - 1].kind = "module"
                        /\ ClauseOf(frames'[i - 1].name, frames'[i].name)
  BY DEF Layered
<1>3. CASE i = Len(frames) + 1
  <2>1. i - 1 = Len(frames) /\ i - 1 \in 1..Len(frames)
    BY <1>1, <1>2, <1>3
  <2>2. frames'[i - 1] = InnerFrame
    BY <1>1, <2>1 DEF InnerFrame
  <2>. QED BY <1>1, <1>3, <2>2
<1>4. CASE i # Len(frames) + 1
  <2>1. i \in 1..Len(frames) /\ i - 1 \in 1..Len(frames)
    BY <1>1, <1>4
  <2>. QED BY <1>1, <2>1 DEF Layered
<1>. QED BY <1>3, <1>4

LEMMA LayeredStep == RowInv /\ Layered /\ [Steps]_vars => Layered'
<1>. SUFFICES ASSUME RowInv, Layered, [Steps]_vars, phase' = "walk" PROVE Layered'
  BY DEF Layered
<1>. USE DEF RowInv
<1>1. ASSUME NEW prompt \in Inputs, StartTransform(prompt) PROVE Layered'
  <2>1. Len(frames') = 1
    BY <1>1 DEF StartTransform
  <2>. QED BY <2>1 DEF Layered
<1>2. CASE Emits \/ ExpandMacro \/ \E id \in Ids : CompileCase(id)
  <2>1. phase = "walk"
    BY <1>2, DropSteps
  <2>2. \E names : frames' = Calling(names)
    BY <1>2, EmitSteps, Zenon DEF EmitStep, CompileCase
  <2>3. SameKinds(frames, frames') /\ Len(frames) \in Nat
    BY <2>1, <2>2, CalledFrames
  <2>. QED BY <2>1, <2>3, LayersBelow DEF SameKinds
<1>3. CASE CloseDef
  <2>1. FunctionsList \in DOMAIN ets /\ phase = "walk"
    BY <1>3, DropSteps DEF CloseDef
  <2>2. /\ Len(frames) > 2 /\ Shape(frames') /\ Len(frames') = Len(frames) - 1
        /\ \A i \in 1..Len(frames') : frames'[i] = frames[i]
    BY <1>3, <2>1, CloseDefStack
  <2>. QED BY <2>1, <2>2, LayersBelow, ShapeLen DEF TransformInv
<1>4. CASE CloseModule
  <2>1. FunctionsList \in DOMAIN ets /\ phase = "walk"
    BY <1>4, DropSteps DEF CloseModule
  <2>2. /\ Len(frames) > 1 /\ Shape(frames') /\ Len(frames') = Len(frames) - 1
        /\ \A i \in 1..Len(frames') :
             frames'[i].kind = frames[i].kind /\ frames'[i].name = frames[i].name
    BY <1>4, <2>1, CloseModuleStack
  <2>. QED BY <2>1, <2>2, LayersBelow, ShapeLen DEF TransformInv
<1>5. CASE OpenModule
  <2>. DEFINE name == todo[1].name
  <2>1. frames' = Append(frames, Frame("module", name)) /\ phase = "walk"
    BY <1>5 DEF OpenModule
  <2>. HIDE DEF name
  <2>. QED BY <2>1, LayersAbove
<1>6. ASSUME NEW id \in Ids, OpenDef(id) PROVE Layered'
  <2>. DEFINE clause == ClauseTable(InnerFrame.name, todo[1].fn, id)
  <2>1. frames' = Append(frames, Frame("def", clause)) /\ InnerFrame.kind = "module"
        /\ phase = "walk"
    BY <1>6 DEF OpenDef
  <2>2. ClauseOf(InnerFrame.name, clause)
    BY DEF ClauseOf
  <2>. HIDE DEF clause
  <2>. QED BY <2>1, <2>2, LayersAbove
<1>7. CASE UNCHANGED vars
  BY <1>7 DEF vars, Layered
<1>. QED BY <1>1, <1>2, <1>3, <1>4, <1>5, <1>6, <1>7, WalkSteps


-----------------------------------------------------------------------------
(* A walk that meets no module inside a module: at most a module and a def *)
(* are open, and no table of a module is left when none is.                *)
Single == phase = "walk" /\ ~rescued /\ ~HasNestedModule(Latest)

Opener == frames[2].name

LEMMA FrameLevels ==
  ASSUME RowInv, Named, Nesting, Layered, Single
  PROVE  /\ Len(frames) \in 1..3 /\ frames[1].kind = "main"
         /\ Len(frames) > 1 => frames[2].kind = "module" /\ FunctionsList \in DOMAIN ets
         /\ Len(frames) = 3 => frames[3].kind = "def" /\ ClauseOf(Opener, frames[3].name)
         /\ Len(frames) = 1 => \A t \in DOMAIN ets : t \in SetupTables \/ t[1] = "case"
<1>1. Len(frames) \in Nat /\ Len(frames) > 0 /\ frames[1].kind = "main"
  BY ShapeLen DEF RowInv, TransformInv, Stack, Single
<1>2. NotNested /\ phase = "walk"
  BY DEF Nesting, Single
<1>. PICK n \in Nat : n = Len(frames) /\ n > 0
  BY <1>1
<1>3. ASSUME n > 1
      PROVE  /\ FunctionsList \in DOMAIN ets
             /\ \A i \in 1..n : frames[i].kind = "module" => i = 2
  <2>1. n # 1
    BY <1>3
  <2>. QED BY <1>2, <2>1 DEF NotNested
<1>4. \A i \in 1..n : \/ i = 1
                      \/ frames[i].kind = "module"
                      \/ /\ frames[i].kind = "def" /\ frames[i - 1].kind = "module"
                         /\ ClauseOf(frames[i - 1].name, frames[i].name)
  BY <1>2 DEF Layered
<1>5. ASSUME n > 1 PROVE frames[2].kind = "module"
  <2>1. 2 \in 1..n /\ 2 - 1 = 1
    BY <1>5
  <2>2. \/ frames[2].kind = "module"
        \/ frames[1].kind = "module"
    BY <1>4, <2>1
  <2>. QED BY <1>1, <2>2
<1>6. ASSUME n > 2
      PROVE  frames[3].kind = "def" /\ ClauseOf(Opener, frames[3].name) /\ n = 3
  <2>1. 3 \in 1..n /\ 3 - 1 = 2 /\ n > 1
    BY <1>6
  <2>2. frames[3].kind # "module"
    BY <1>3, <2>1
  <2>3. frames[3].kind = "def" /\ ClauseOf(frames[2].name, frames[3].name)
    BY <1>4, <2>1, <2>2
  <2>4. ASSUME n # 3 PROVE FALSE
    <3>1. 4 \in 1..n /\ 4 - 1 = 3
      BY <1>6, <2>4
    <3>2. frames[4].kind # "module"
      BY <1>3, <2>1, <3>1
    <3>3. frames[3].kind = "module"
      BY <1>4, <3>1, <3>2
    <3>. QED BY <2>2, <3>3
  <2>. QED BY <2>3, <2>4 DEF Opener
<1>7. n = 1 => \A t \in DOMAIN ets : t \in SetupTables \/ t[1] = "case"
  <2>1. n = 1 => DOMAIN ets \subseteq registry
    BY <1>2 DEF RowInv, TransformInv, Clean, Single
  <2>. QED BY <2>1 DEF Named
<1>8. n \in 1..3
  BY <1>6
<1>9. n > 1 => frames[2].kind = "module" /\ FunctionsList \in DOMAIN ets
  BY <1>3, <1>5
<1>10. n = 3 => frames[3].kind = "def" /\ ClauseOf(Opener, frames[3].name)
  BY <1>6
<1>11. Len(frames) = n
  OBVIOUS
<1>. HIDE DEF Opener
<1>. QED BY <1>1, <1>7, <1>8, <1>9, <1>10, <1>11, Zenon

\* A prompt that is still walked as before.
LEMMA StillSingle ==
  ASSUME phase = "walk", Single', UNCHANGED <<session, rescued>> PROVE Single /\ Latest' = Latest
BY SameLatest DEF Single

-----------------------------------------------------------------------------
(* What the steps of the walk make of the contents of the tables.          *)
LEMMA TableNames ==
  /\ {ModulesTable, Predefines, GuardsTable} \subseteq SetupTables
  /\ GuardsTable \notin {ModulesTable, Predefines, CasesTable, FunctionsList}
  /\ ModulesTable # Predefines /\ CasesTable \notin {ModulesTable, Predefines, FunctionsList}
  /\ FunctionsList \notin {ModulesTable, Predefines}
  /\ \A t \in SetupTables \cup {FunctionsList, ProcessedFunctions} :
       t[1] \notin {"case", "clause", "function", "module"}
  /\ \A id : CaseTable(id)[1] = "case"
  /\ \A m : ModuleTable(m)[1] = "module"
  /\ \A c : FunctionOf(c)[1] = "function"
BY DEF SetupTables, Includes, ModulesTable, Predefines, PurgeTargets, GuardsTable, CasesTable,
       FunctionsList, ProcessedFunctions, CaseTable, ModuleTable, FunctionOf, FunctionTable

LEMMA SetupThere ==
  ASSUME RowInv, phase \in {"walk", "cases"} PROVE SetupTables \subseteq DOMAIN ets
BY DEF RowInv, TransformInv, TypeOK

LEMMA StartTables ==
  ASSUME RowInv, ~rescued, NEW prompt, StartTransform(prompt)
  PROVE  /\ DOMAIN ets' = SetupTables /\ ets'[ModulesTable] = {} /\ ets'[Predefines] = {}
<1>1. DOMAIN ets = {} /\ ets' = Created(ets, SetupTables)
  BY DEF RowInv, TransformInv, IdleClean, StartTransform
<1>2. \A t \in SetupTables : ets'[t] = Fresh(t)
  BY <1>1 DEF Created
<1>3. DOMAIN ets' = SetupTables
  BY <1>1, CreatedDomain
<1>4. ets'[ModulesTable] = Fresh(ModulesTable) /\ ets'[Predefines] = Fresh(Predefines)
  BY <1>2, TableNames
<1>. QED BY <1>3, <1>4 DEF Fresh

LEMMA CaseTablesKept ==
  ASSUME RowInv, NEW id, CompileCase(id)
  PROVE  /\ \A t \in DOMAIN ets : t[1] # "case" /\ t \notin {CasesTable, Predefines} => ets'[t] = ets[t]
         /\ ets'[Predefines] = ets[Predefines] \cup {CaseTable(id)}
         /\ \A t \in DOMAIN ets : t[1] = "case" /\ t # CaseTable(id) => ets'[t] = ets[t]
         /\ ets'[CaseTable(id)]
              = (IF CaseTable(id) \in DOMAIN ets THEN ets[CaseTable(id)] ELSE <<>>) \o todo[1].body
<1>. DEFINE name == CaseTable(id)
            new == {name}
            predefined == Predefined(ets, new)
            created == Created(predefined, new)
            made == Appended(created, CasesTable, name)
<1>1. ets' = [made EXCEPT ![name] = @ \o todo[1].body]
  BY DEF CompileCase
<1>2. Predefines \in DOMAIN ets
  <2>1. phase \in {"walk", "cases"}
    BY DEF CompileCase, At
  <2>. QED BY <2>1, SetupThere, TableNames
<1>3. name[1] = "case" /\ name \notin {CasesTable, Predefines}
  <2>1. name[1] = "case"
    BY TableNames
  <2>2. Predefines[1] # "case" /\ CasesTable[1] # "case"
    BY TableNames, OtherTables
  <2>. QED BY <2>1, <2>2
<1>4. new = {name}
  OBVIOUS
<1>. HIDE DEF name
<1>5. /\ \A t \in DOMAIN ets : t # Predefines => predefined[t] = ets[t]
      /\ predefined[Predefines] = ets[Predefines] \cup {name}
      /\ DOMAIN predefined = DOMAIN ets
  BY <1>2, <1>4, PredefinedRow, PredefinedDomain DEF Predefined
<1>. HIDE DEF predefined
<1>6. /\ \A t \in DOMAIN ets : created[t] = predefined[t]
      /\ name \notin DOMAIN ets => created[name] = Fresh(name)
      /\ DOMAIN created = DOMAIN ets \cup {name}
  BY <1>4, <1>5, CreatedRow, CreatedDomain DEF Created
<1>. HIDE DEF created, new
<1>7. /\ \A t \in DOMAIN ets \cup {name} : t # CasesTable => made[t] = created[t]
      /\ DOMAIN made = DOMAIN ets \cup {name}
  BY <1>6, AppendedRow, AppendedDomain
<1>. HIDE DEF made
<1>8. /\ \A t \in DOMAIN ets : t # name => ets'[t] = made[t]
      /\ ets'[name] = made[name] \o todo[1].body
  BY <1>1, <1>7
<1>9. Fresh(name) = <<>>
  BY <1>3, TableNames DEF Fresh
<1>10. Predefines # CasesTable /\ Predefines # name
  BY <1>3, TableNames
<1>11. ets'[Predefines] = ets[Predefines] \cup {name}
  BY <1>2, <1>5, <1>6, <1>7, <1>8, <1>10
<1>12. ets'[name] = (IF name \in DOMAIN ets THEN ets[name] ELSE <<>>) \o todo[1].body
  <2>1. name \in DOMAIN ets => made[name] = ets[name]
    BY <1>3, <1>5, <1>6, <1>7
  <2>2. name \notin DOMAIN ets => made[name] = <<>>
    BY <1>3, <1>6, <1>7, <1>9
  <2>. QED BY <1>8, <2>1, <2>2
<1>13. ASSUME NEW t \in DOMAIN ets, t[1] # "case", t \notin {CasesTable, Predefines}
       PROVE  ets'[t] = ets[t]
  <2>1. t # name
    BY <1>3, <1>13
  <2>. QED BY <1>5, <1>6, <1>7, <1>8, <1>13, <2>1
<1>14. ASSUME NEW t \in DOMAIN ets, t[1] = "case", t # name PROVE ets'[t] = ets[t]
  <2>1. t \notin {CasesTable, Predefines}
    BY <1>14, TableNames, OtherTables
  <2>. QED BY <1>5, <1>6, <1>7, <1>8, <1>14, <2>1
<1>. QED BY <1>11, <1>12, <1>13, <1>14 DEF name

LEMMA OpenModuleTablesKept ==
  ASSUME OpenModule
  PROVE  /\ \A t \in DOMAIN ets : t # GuardsTable => ets'[t] = ets[t]
         /\ FunctionsList \notin DOMAIN ets => ets'[FunctionsList] = <<>>
         /\ FunctionsList \in DOMAIN ets'
<1>. DEFINE tables == TablesOfModule(todo[1].name)
            made == Created(ets, tables)
<1>1. ets' = Recorded(made, todo[1]) /\ FunctionsList \in tables
  BY DEF OpenModule, TablesOfModule
<1>2. FunctionsList \in DOMAIN made
  BY <1>1, CreatedDomain
<1>3. FunctionsList \notin DOMAIN ets => made[FunctionsList] = Fresh(FunctionsList)
  BY <1>1 DEF Created
<1>. HIDE DEF made, tables
<1>4. DOMAIN ets' = DOMAIN made /\ ets'[FunctionsList] = made[FunctionsList]
  BY <1>1, <1>2, RecordedRow, RecordedDomain, TableNames
<1>. QED BY <1>2, <1>3, <1>4, OpenModuleKeeps, TableNames DEF Fresh, TableSame

\* A def whose module is open adds to three tables, two of which it may make.
LEMMA CloseDefTablesKept ==
  ASSUME RowInv, CloseDef, FunctionsList \in DOMAIN ets, InnerFrame.name[1] = "clause"
  PROVE  LET clause == InnerFrame.name IN
         /\ \A t \in DOMAIN ets :
              t \notin {clause, FunctionOf(clause), FunctionsList, Predefines} => ets'[t] = ets[t]
         /\ ets'[Predefines] = ets[Predefines] \cup {clause}
         /\ ets'[FunctionsList] = Append(ets[FunctionsList], clause)
         /\ ets'[clause] = InnerFrame.calls
         /\ FunctionOf(clause) \in DOMAIN ets =>
              ets'[FunctionOf(clause)] = Append(ets[FunctionOf(clause)], clause)
         /\ clause \notin DOMAIN ets /\ FunctionOf(clause) \notin DOMAIN ets =>
              ets'[FunctionOf(clause)] = Append(<<>>, clause)
<1>. DEFINE clause == InnerFrame.name
            function == FunctionOf(clause)
            isNew == clause \notin DOMAIN ets
            new == IF isNew THEN {clause, FunctionOf(clause)} ELSE {}
            made == Created(ets, new)
            base == Predefined(made, {clause})
            row == [base EXCEPT ![clause] = InnerFrame.calls]
            listed == Appended(row, FunctionsList, clause)
<1>1. ets' = Appended(listed, FunctionOf(clause), clause)
  BY Zenon DEF CloseDef
<1>2. phase = "walk"
  BY DEF CloseDef
<1>3. Predefines \in DOMAIN ets
  BY <1>2, SetupThere, TableNames
<1>4. clause[1] = "clause" /\ function[1] = "function"
  BY TableNames
<1>5. /\ clause \notin {function, FunctionsList, Predefines}
      /\ function \notin {FunctionsList, Predefines} /\ FunctionsList # Predefines
  BY <1>4, TableNames
<1>6. new = (IF clause \notin DOMAIN ets THEN {clause, function} ELSE {})
  OBVIOUS
<1>7. function = FunctionOf(clause)
  OBVIOUS
<1>. HIDE DEF clause, function, new, isNew
<1>8. /\ \A t \in DOMAIN ets : made[t] = ets[t]
      /\ clause \in DOMAIN made
      /\ clause \notin DOMAIN ets /\ function \notin DOMAIN ets => function \in DOMAIN made /\ made[function] = <<>>
      /\ DOMAIN made = DOMAIN ets \cup new
  <2>. HIDE DEF made
  <2>1. DOMAIN made = DOMAIN ets \cup new /\ \A t \in DOMAIN ets : made[t] = ets[t]
    <3>1. DOMAIN made = DOMAIN ets \cup new
      BY CreatedDomain, Zenon DEF made
    <3>2. \A t \in DOMAIN ets : made[t] = ets[t]
      BY CreatedRow DEF made
    <3>. QED BY <3>1, <3>2
  <2>2. Fresh(function) = <<>>
    BY <1>4, TableNames DEF Fresh
  <2>3. clause \notin DOMAIN ets /\ function \notin DOMAIN ets =>
          function \in DOMAIN made /\ made[function] = Fresh(function)
    BY <1>6, <2>1 DEF made, Created
  <2>. QED BY <1>6, <2>1, <2>2, <2>3
<1>. HIDE DEF made
<1>9. /\ \A t \in DOMAIN made : t # Predefines => base[t] = made[t]
      /\ base[Predefines] = ets[Predefines] \cup {clause}
      /\ DOMAIN base = DOMAIN made
  BY <1>3, <1>8, PredefinedRow, PredefinedDomain DEF Predefined
<1>. HIDE DEF base
<1>10. /\ \A t \in DOMAIN made : t # clause => row[t] = base[t]
       /\ row[clause] = InnerFrame.calls /\ DOMAIN row = DOMAIN made
  BY <1>8, <1>9
<1>. HIDE DEF row
<1>11. /\ \A t \in DOMAIN made : t # FunctionsList => listed[t] = row[t]
       /\ listed[FunctionsList] = Append(row[FunctionsList], clause) /\ DOMAIN listed = DOMAIN made
  BY <1>8, <1>10, AppendedRow, AppendedDomain
<1>. HIDE DEF listed
<1>12. /\ \A t \in DOMAIN made : t # function => ets'[t] = listed[t]
       /\ function \in DOMAIN made => ets'[function] = Append(listed[function], clause)
  BY <1>1, <1>7, <1>11, AppendedRow
<1>13. ets'[Predefines] = ets[Predefines] \cup {clause}
  BY <1>3, <1>5, <1>8, <1>9, <1>10, <1>11, <1>12
<1>14. ets'[clause] = InnerFrame.calls
  BY <1>5, <1>8, <1>10, <1>11, <1>12
<1>15. ets'[FunctionsList] = Append(ets[FunctionsList], clause)
  <2>1. row[FunctionsList] = ets[FunctionsList]
    BY <1>5, <1>8, <1>9, <1>10
  <2>. QED BY <1>5, <1>8, <1>11, <1>12, <2>1
<1>16. \A t \in DOMAIN ets :
         t \notin {clause, function, FunctionsList, Predefines} => ets'[t] = ets[t]
  BY <1>8, <1>9, <1>10, <1>11, <1>12
<1>17. function \in DOMAIN made => listed[function] = made[function]
  BY <1>5, <1>9, <1>10, <1>11
<1>18. function \in DOMAIN ets => ets'[function] = Append(ets[function], clause)
  BY <1>8, <1>12, <1>17
<1>19. clause \notin DOMAIN ets /\ function \notin DOMAIN ets => ets'[function] = Append(<<>>, clause)
  BY <1>8, <1>12, <1>17
<1>. QED BY <1>7, <1>13, <1>14, <1>15, <1>16, <1>18, <1>19 DEF clause

LEMMA CloseModuleTablesKept ==
  ASSUME RowInv, CloseModule, FunctionsList \in DOMAIN ets
  PROVE  /\ ets'[ModulesTable] = ets[ModulesTable] \cup {ModuleCode}
         /\ ets'[Predefines] = ets[Predefines] \cup {m.function : m \in ModuleCode.managers}
         /\ \A t \in DOMAIN ets' :
              t \notin {ModulesTable, Predefines} => t \in DOMAIN ets /\ ets'[t] = ets[t]
<1>. DEFINE functions == {m.function : m \in ModuleCode.managers}
            declared == Predefined(ets, functions)
            filled == [declared EXCEPT ![ModulesTable] = @ \cup {ModuleCode}]
<1>1. ets' = Deleted(filled, module_registry')
  BY Zenon DEF CloseModule
<1>2. phase = "walk" /\ module_registry' = module_registry \cup {ProcessedFunctions}
  BY DEF CloseModule
<1>3. SetupTables \subseteq DOMAIN ets /\ SetupTables \cap module_registry' = {}
  BY <1>2, SetupThere, ModuleTablesSeparate DEF RowInv, TransformInv, Separate
<1>4. /\ declared[ModulesTable] = ets[ModulesTable]
      /\ declared[Predefines] = ets[Predefines] \cup functions
      /\ DOMAIN declared = DOMAIN ets
      /\ \A t \in DOMAIN ets : t # Predefines => declared[t] = ets[t]
  BY <1>3, TableNames, PredefinedRow, PredefinedDomain DEF Predefined
<1>. HIDE DEF declared, functions
<1>5. /\ filled[ModulesTable] = ets[ModulesTable] \cup {ModuleCode}
      /\ filled[Predefines] = ets[Predefines] \cup functions
      /\ DOMAIN filled = DOMAIN ets
      /\ \A t \in DOMAIN ets : t \notin {ModulesTable, Predefines} => filled[t] = ets[t]
  BY <1>3, <1>4, TableNames
<1>. HIDE DEF filled
<1>6. {ModulesTable, Predefines} \subseteq DOMAIN filled \ module_registry'
  BY <1>3, <1>5, TableNames
<1>7. \A t \in DOMAIN ets' : t \in DOMAIN filled \ module_registry' /\ ets'[t] = filled[t]
  <2>1. DOMAIN ets' = DOMAIN filled \ module_registry'
    BY <1>1, DeletedDomain
  <2>2. \A t \in DOMAIN filled \ module_registry' : Deleted(filled, module_registry')[t] = filled[t]
    BY DeletedRow
  <2>. QED BY <1>1, <2>1, <2>2
<1>. QED BY <1>1, <1>5, <1>6, <1>7, DeletedRow DEF functions


-----------------------------------------------------------------------------
(* The clauses of a prompt, where they are while it is walked: in modules  *)
(* that are closed, in the list of the one that is open, or being built.   *)
Mods == ets[ModulesTable]

List == IF FunctionsList \in DOMAIN ets THEN ets[FunctionsList] ELSE <<>>

Building == IF Len(frames) = 3 THEN {frames[3].name} ELSE {}

ClausesOf(mods) == UNION {Range(m.clauses) : m \in mods}

Of(d, m) == m.op = "module" /\ d.op = "def" /\ d \in Range(m.body)

\* No module with a function of this name has a def ahead.
NoneAhead(f) == \A m \in ModulesOf(Latest) : \A d \in Ahead(todo) : Of(d, m) => f \notin FunctionsIn(m)

\* A module with a function of this name has been entered.
Begun(f) == \E m \in ModulesOf(Latest) : m \notin Ahead(todo) /\ f \in FunctionsIn(m)

Placed ==
  /\ drawn \in Seq(Range(drawn)) /\ List \in Seq(Range(List))
  /\ Range(drawn) = ClausesOf(Mods) \cup Range(List) \cup Building

\* What the clauses' functions are, if no two modules have one of one name.
OpenedOnce ==
  \A c \in Range(List) \cup Building :
    Begun(FunctionOf(c)) /\ \A d \in ClausesOf(Mods) : FunctionOf(d) # FunctionOf(c)

ClosedOnce ==
  /\ \A c \in ClausesOf(Mods) : NoneAhead(FunctionOf(c))
  /\ \A m, n \in Mods :
       m # n => \A c \in Range(m.clauses), d \in Range(n.clauses) : FunctionOf(c) # FunctionOf(d)

NoRepeats(mods) == \A m \in mods : Distinct(m.clauses)

Repeats ==
  Distinct(drawn) <=> NoRepeats(Mods) /\ Distinct(List) /\ Building \cap Range(List) = {}

Once == NamesOnce(Latest) => OpenedOnce /\ ClosedOnce /\ Repeats

Tracked == Single => Placed /\ Once

LEMMA DistinctAppend ==
  ASSUME NEW S, NEW s \in Seq(S), NEW e
  PROVE  Distinct(Append(s, e)) <=> Distinct(s) /\ e \notin Range(s)
<1>. DEFINE t == Append(s, e)
<1>. PICK n \in Nat : n = Len(s)
  OBVIOUS
<1>1. DOMAIN s = 1..n /\ DOMAIN t = 1..n + 1
      /\ (\A i \in 1..n : t[i] = s[i]) /\ t[n + 1] = e
  BY AppendProperties
<1>. HIDE DEF t
<1>2. Distinct(t) => Distinct(s) /\ e \notin Range(s)
  <2>. SUFFICES ASSUME Distinct(t) PROVE Distinct(s) /\ e \notin Range(s)
    OBVIOUS
  <2>1. \A i \in 1..n : i \in 1..n + 1 /\ i # n + 1 /\ n + 1 \in 1..n + 1
    OBVIOUS
  <2>. QED BY <1>1, <2>1 DEF Distinct, Range
<1>3. ASSUME Distinct(s), e \notin Range(s) PROVE Distinct(t)
  <2>. SUFFICES ASSUME NEW i \in 1..n + 1, NEW j \in 1..n + 1, i # j PROVE t[i] # t[j]
    BY <1>1 DEF Distinct
  <2>1. \A k \in 1..n : s[k] # e
    BY <1>1, <1>3 DEF Range
  <2>2. CASE i \in 1..n /\ j \in 1..n
    BY <1>1, <1>3, <2>2 DEF Distinct
  <2>3. CASE i = n + 1
    <3>1. j \in 1..n
      BY <2>3
    <3>. QED BY <1>1, <2>1, <2>3, <3>1
  <2>4. CASE j = n + 1
    <3>1. i \in 1..n
      BY <2>4
    <3>. QED BY <1>1, <2>1, <2>4, <3>1
  <2>. QED BY <2>2, <2>3, <2>4
<1>. QED BY <1>2, <1>3 DEF t

LEMMA EmptyClauses == Range(<<>>) = {} /\ Distinct(<<>>) /\ <<>> \in Seq({})
BY DEF Range, Distinct

\* A step that goes on to the next item, with all clauses where they were.
LEMMA SameTracked ==
  ASSUME Single, Tracked, Latest' = Latest, UNCHANGED drawn, Mods' = Mods, List' = List,
         SameKinds(frames, frames'), Len(frames) \in 1..3, Ahead(todo') \subseteq Ahead(todo)
  PROVE  Tracked'
<1>1. Building' = Building /\ (Len(frames) > 1 => Opener' = Opener)
      /\ (Len(frames') > 1 <=> Len(frames) > 1)
  <2>. PICK n \in 1..3 : n = Len(frames)
    OBVIOUS
  <2>1. Len(frames') = n /\ \A i \in 1..n : frames'[i].name = frames[i].name
    BY DEF SameKinds
  <2>2. n > 1 => Opener' = Opener
    BY <2>1 DEF Opener
  <2>3. n = 3 => frames'[3].name = frames[3].name
    BY <2>1
  <2>. QED BY <2>1, <2>2, <2>3 DEF Building
<1>2. Placed'
  BY <1>1 DEF Tracked, Placed
<1>3. ASSUME NamesOnce(Latest) PROVE OpenedOnce' /\ ClosedOnce' /\ Repeats'
  <2>1. OpenedOnce /\ ClosedOnce /\ Repeats
    BY <1>3 DEF Tracked, Once
  <2>2. \A f : (NoneAhead(f) => NoneAhead(f)') /\ (Begun(f) => Begun(f)')
    BY DEF NoneAhead, Begun
  <2>3. Repeats'
    BY <1>1, <2>1 DEF Repeats
  <2>4. ClosedOnce'
    BY <2>1, <2>2 DEF ClosedOnce
  <2>6. OpenedOnce'
    BY <1>1, <2>1, <2>2 DEF OpenedOnce
  <2>. QED BY <2>3, <2>4, <2>6
<1>. QED BY <1>2, <1>3 DEF Tracked, Once


-----------------------------------------------------------------------------
(* The steps of the walk keep every clause in its place.                   *)
WalkInv == CrashInv /\ Layered

Levelled ==
  Single =>
    /\ Len(frames) \in 1..3 /\ frames[1].kind = "main"
    /\ Len(frames) > 1 => frames[2].kind = "module" /\ FunctionsList \in DOMAIN ets
    /\ Len(frames) = 3 => frames[3].kind = "def" /\ ClauseOf(Opener, frames[3].name)
    /\ Len(frames) = 1 =>
         /\ FunctionsList \notin DOMAIN ets
         /\ \A t \in DOMAIN ets : t[1] \notin {"clause", "function"}

LEMMA WalkLevelled == WalkInv => Levelled
<1>1. FunctionsList \notin SetupTables /\ FunctionsList[1] # "case"
  BY NamesDiffer
<1>2. \A t \in SetupTables : t[1] \notin {"clause", "function"}
  BY TableNames
<1>. QED BY <1>1, <1>2, FrameLevels DEF WalkInv, CrashInv, Levelled

LEMMA AheadDrops ==
  ASSUME WalkInv, phase = "walk", Dropped \/ ExpandedItem
  PROVE  Latest' = Latest /\ Ahead(todo') \subseteq Ahead(todo)
<1>1. Parsed(Latest) /\ Pending(Latest, todo)
  BY LatestParsed DEF WalkInv, CrashInv, Ordered
<1>2. CASE Dropped
  <2>1. Ahead(todo) = Inside(todo[1]) \cup Ahead(Tail(todo))
    BY <1>1, <1>2, SkipPending DEF Dropped
  <2>. QED BY <1>2, <2>1, SameLatest DEF Dropped
<1>3. CASE ExpandedItem
  <2>1. Ahead(todo[1].body \o Tail(todo)) \subseteq Ahead(todo)
    BY <1>1, <1>3, ExpandPending DEF ExpandedItem
  <2>. QED BY <1>3, <2>1, SameLatest DEF ExpandedItem
<1>. QED BY <1>2, <1>3

\* The item an open one stands for is ahead no more.
LEMMA AheadEnters ==
  ASSUME WalkInv, phase = "walk", NEW kind \in {"module", "def"}, EnteredItem(kind)
  PROVE  /\ Latest' = Latest /\ todo[1] \in Ahead(todo) \cap Walked(Latest)
         /\ \A n \in Ahead(todo') :
              n.op # "end" => n \in Ahead(todo) \cap Walked(Latest) /\ n # todo[1]
<1>1. Parsed(Latest) /\ Pending(Latest, todo) /\ todo # <<>> /\ todo[1].op = kind
  BY LatestParsed DEF WalkInv, CrashInv, Ordered, EnteredItem
<1>2. /\ todo[1] \in Walked(Latest)
      /\ Inside(todo[1]) = {todo[1]} \cup Ahead(todo[1].body) /\ todo[1] \notin Ahead(todo[1].body)
      /\ Ahead(todo) = {todo[1]} \cup Ahead(todo[1].body) \cup Ahead(Tail(todo))
      /\ Ahead(todo') = Ahead(todo[1].body) \cup {EndOf(kind)} \cup Ahead(Tail(todo))
  BY <1>1, EnterPending DEF EnteredItem
<1>3. todo[1] \notin Ahead(Tail(todo))
  <2>1. todo[1] \notin Ends
    BY <1>1, <1>2, EndsAreNoItems
  <2>. QED BY <1>1, <1>2, <2>1, SkipPending
<1>4. EndOf(kind).op = "end"
  BY DEF EndOf
<1>5. \A n \in Ahead(todo) : n \in Walked(Latest) \/ n \in Ends
  <2>. SUFFICES ASSUME NEW j \in 1..Len(todo), NEW n \in Inside(todo[j])
                PROVE  n \in Walked(Latest) \/ n \in Ends
    BY DEF Ahead
  <2>. QED BY <1>1, PendingItem
<1>6. \A e \in Ends : e.op = "end"
  BY EndsAreNoItems
<1>. QED BY <1>2, <1>3, <1>4, <1>5, <1>6, SameLatest DEF EnteredItem

LEMMA StartTracked ==
  ASSUME WalkInv, ~rescued, NEW prompt \in Inputs, StartTransform(prompt) PROVE Tracked'
<1>1. DOMAIN ets' = SetupTables /\ ets'[ModulesTable] = {}
  BY StartTables DEF WalkInv, CrashInv
<1>2. Mods' = {} /\ List' = <<>>
  BY <1>1, NamesDiffer DEF Mods, List
<1>3. Len(frames') = 1 /\ drawn' = <<>>
  BY DEF StartTransform
<1>4. Building' = {}
  BY <1>3 DEF Building
<1>5. Placed'
  BY <1>2, <1>3, <1>4, EmptyClauses DEF Placed, ClausesOf
<1>6. ClausesOf(Mods') = {}
  BY <1>2 DEF ClausesOf
<1>7. OpenedOnce' /\ ClosedOnce' /\ Repeats'
  BY <1>2, <1>3, <1>4, <1>6, EmptyClauses DEF OpenedOnce, ClosedOnce, Repeats, NoRepeats
<1>. QED BY <1>5, <1>7 DEF Tracked, Once

\* A call, a case or an if: every clause stays where it is.
LEMMA CallEffect ==
  ASSUME WalkInv, Levelled, Single', Emits \/ ExpandMacro \/ \E id : CompileCase(id)
  PROVE  /\ Single /\ Latest' = Latest /\ UNCHANGED drawn
         /\ SameKinds(frames, frames') /\ Len(frames) \in 1..3
         /\ Mods' = Mods /\ List' = List /\ Ahead(todo') \subseteq Ahead(todo)
         /\ \A t \in DOMAIN ets : t[1] \in {"clause", "function"} => ets'[t] = ets[t]
         /\ \A t : t[1] \in {"clause", "function"} => (t \in DOMAIN ets' <=> t \in DOMAIN ets)
<1>1. phase = "walk" /\ (Dropped \/ ExpandedItem)
  BY DropSteps DEF Single
<1>2. Latest' = Latest /\ Ahead(todo') \subseteq Ahead(todo)
  BY <1>1, AheadDrops
<1>3. Single
  BY <1>1, StillSingle DEF Dropped, ExpandedItem
<1>4. UNCHANGED drawn /\ \E names : frames' = Calling(names)
  BY Zenon DEF Emits, ExpandMacro, Emit, CompileCase, history
<1>5. SameKinds(frames, frames') /\ Len(frames) \in 1..3
  BY <1>1, <1>3, <1>4, CalledFrames DEF WalkInv, CrashInv, RowInv, Levelled
<1>6. CASE Emits \/ ExpandMacro
  <2>1. UNCHANGED ets
    BY <1>6, DropSteps
  <2>. QED BY <1>2, <1>3, <1>4, <1>5, <2>1 DEF Mods, List
<1>7. ASSUME NEW id, CompileCase(id)
      PROVE  /\ Mods' = Mods /\ List' = List
             /\ \A t \in DOMAIN ets : t[1] \in {"clause", "function"} => ets'[t] = ets[t]
             /\ \A t : t[1] \in {"clause", "function"} => (t \in DOMAIN ets' <=> t \in DOMAIN ets)
  <2>1. DOMAIN ets' = DOMAIN ets \cup {CaseTable(id)}
    BY <1>7, CaseDomain
  <2>2. \A t \in DOMAIN ets :
          t[1] # "case" /\ t \notin {CasesTable, Predefines} => ets'[t] = ets[t]
    BY <1>7, CaseTablesKept DEF WalkInv, CrashInv
  <2>3. ModulesTable \in DOMAIN ets
    BY <1>1, SetupThere, TableNames DEF WalkInv, CrashInv
  <2>4. /\ ModulesTable[1] # "case" /\ ModulesTable \notin {CasesTable, Predefines}
        /\ FunctionsList[1] # "case" /\ FunctionsList \notin {CasesTable, Predefines}
        /\ CaseTable(id)[1] = "case" /\ FunctionsList # CaseTable(id)
    BY TableNames
  <2>5. CasesTable[1] \notin {"clause", "function"} /\ Predefines[1] \notin {"clause", "function"}
    BY TableNames, OtherTables
  <2>6. Mods' = Mods /\ List' = List
    BY <2>1, <2>2, <2>3, <2>4 DEF Mods, List
  <2>. QED BY <2>1, <2>2, <2>4, <2>5, <2>6
<1>. QED BY <1>2, <1>3, <1>4, <1>5, <1>6, <1>7

LEMMA OpenModuleEffect ==
  ASSUME WalkInv, Levelled, Levelled', Single', OpenModule
  PROVE  /\ Single /\ Latest' = Latest /\ UNCHANGED drawn /\ EnteredItem("module")
         /\ Len(frames) = 1 /\ Len(frames') = 2 /\ Building = {} /\ Building' = {}
         /\ Opener' = todo[1].name
         /\ Mods' = Mods /\ List = <<>> /\ List' = <<>>
<1>. PICK name : name = todo[1].name
  OBVIOUS
<1>1. phase = "walk" /\ EnteredItem("module")
  BY EnterSteps
<1>2. Single /\ Latest' = Latest
  BY <1>1, StillSingle DEF EnteredItem
<1>3. frames' = Append(frames, Frame("module", name)) /\ UNCHANGED drawn
  BY DEF OpenModule, history
<1>4. /\ Len(frames) \in Nat /\ Len(frames') = Len(frames) + 1
      /\ frames'[Len(frames) + 1].kind = "module" /\ frames'[Len(frames) + 1].name = name
  BY <1>3, PushedFrame DEF WalkInv, CrashInv, RowInv
<1>5. Len(frames) = 1
  <2>1. Len(frames) \in 1..3 /\ Len(frames') \in 1..3
    BY <1>2 DEF Levelled
  <2>2. Len(frames') # 3
    <3>1. ASSUME Len(frames') = 3 PROVE FALSE
      <4>1. frames'[3].kind = "def"
        BY <3>1 DEF Levelled
      <4>2. Len(frames) + 1 = 3
        BY <1>4, <3>1
      <4>. QED BY <1>4, <4>1, <4>2
    <3>. QED BY <3>1
  <2>3. Len(frames) + 1 \in 1..3 /\ Len(frames) + 1 # 3
    BY <1>4, <2>1, <2>2
  <2>. QED BY <2>1, <2>3
<1>6. Building = {} /\ Building' = {} /\ Opener' = name /\ Len(frames') = 2
  BY <1>4, <1>5 DEF Building, Opener
<1>7. FunctionsList \notin DOMAIN ets
  BY <1>2, <1>5 DEF Levelled
<1>8. Mods' = Mods /\ List = <<>> /\ List' = <<>>
  <2>1. ModulesTable \in DOMAIN ets
    BY <1>1, SetupThere, TableNames DEF WalkInv, CrashInv
  <2>. QED BY <1>7, <2>1, OpenModuleTablesKept, TableNames DEF Mods, List
<1>. QED BY <1>1, <1>2, <1>3, <1>5, <1>6, <1>8

LEMMA OpenDefEffect ==
  ASSUME WalkInv, Levelled, Levelled', Single', NEW id, OpenDef(id)
  PROVE  /\ Single /\ Latest' = Latest /\ UNCHANGED ets /\ EnteredItem("def")
         /\ Len(frames) = 2 /\ Len(frames') = 3 /\ Opener' = Opener
         /\ frames'[3].name = ClauseTable(Opener, todo[1].fn, id)
         /\ FunctionOf(frames'[3].name) = FunctionTable(Opener, todo[1].fn)
         /\ Building = {} /\ Building' = {frames'[3].name} /\ drawn' = Append(drawn, frames'[3].name)
         /\ Mods' = Mods /\ List' = List
<1>. PICK clause : clause = ClauseTable(InnerFrame.name, todo[1].fn, id)
  OBVIOUS
<1>1. phase = "walk" /\ EnteredItem("def") /\ UNCHANGED ets /\ InnerFrame.kind = "module"
  BY EnterSteps DEF OpenDef
<1>2. Single /\ Latest' = Latest
  BY <1>1, StillSingle DEF EnteredItem
<1>3. frames' = Append(frames, Frame("def", clause)) /\ drawn' = Append(drawn, clause)
  BY DEF OpenDef
<1>4. FunctionOf(clause) = FunctionTable(InnerFrame.name, todo[1].fn)
  BY DEF ClauseTable, FunctionOf, FunctionTable
<1>5. /\ Len(frames) \in Nat /\ Len(frames') = Len(frames) + 1
      /\ \A i \in 1..Len(frames) : frames'[i] = frames[i]
      /\ frames'[Len(frames) + 1].kind = "def" /\ frames'[Len(frames) + 1].name = clause
  BY <1>3, PushedFrame DEF WalkInv, CrashInv, RowInv
<1>6. Len(frames) = 2
  <2>1. Len(frames) \in 1..3 /\ Len(frames') \in 1..3 /\ frames[1].kind = "main"
    BY <1>2 DEF Levelled
  <2>2. Len(frames) # 1
    BY <1>1, <2>1 DEF InnerFrame
  <2>3. Len(frames) + 1 \in 1..3
    BY <1>5, <2>1
  <2>. QED BY <2>1, <2>2, <2>3
<1>7. /\ Len(frames') = 3 /\ Building = {} /\ Building' = {clause} /\ Opener' = Opener
      /\ frames'[3].name = clause
  <2>1. frames'[2] = frames[2]
    BY <1>5, <1>6
  <2>. QED BY <1>5, <1>6, <2>1 DEF Building, Opener
<1>8. Mods' = Mods /\ List' = List
  BY <1>1 DEF Mods, List
<1>9. InnerFrame.name = Opener
  BY <1>6 DEF InnerFrame, Opener
<1>. QED BY <1>1, <1>2, <1>3, <1>4, <1>6, <1>7, <1>8, <1>9

LEMMA CloseDefEffect ==
  ASSUME WalkInv, Levelled, Single', CloseDef
  PROVE  /\ Single /\ Latest' = Latest /\ UNCHANGED drawn
         /\ FunctionsList \in DOMAIN ets /\ Ahead(todo') \subseteq Ahead(todo)
         /\ Len(frames) = 3 /\ Len(frames') = 2 /\ Opener' = Opener
         /\ InnerFrame = frames[3] /\ ClauseOf(Opener, frames[3].name)
         /\ Building = {frames[3].name} /\ Building' = {}
         /\ Mods' = Mods /\ List' = Append(List, frames[3].name)
<1>. PICK clause : clause = InnerFrame.name
  OBVIOUS
<1>1. phase = "walk" /\ Dropped /\ FunctionsList \in DOMAIN ets
  BY DropSteps DEF Single, CloseDef
<1>2. Single /\ Latest' = Latest /\ Ahead(todo') \subseteq Ahead(todo)
  BY <1>1, StillSingle, AheadDrops DEF Dropped
<1>3. /\ Len(frames) > 2 /\ Len(frames') = Len(frames) - 1
      /\ \A i \in 1..Len(frames') : frames'[i] = frames[i]
  BY <1>1, CloseDefStack DEF WalkInv, CrashInv, RowInv
<1>4. Len(frames) = 3
  BY <1>2, <1>3 DEF Levelled
<1>5. InnerFrame = frames[3] /\ clause = frames[3].name /\ ClauseOf(Opener, clause)
  BY <1>2, <1>4 DEF Levelled, InnerFrame
<1>6. UNCHANGED drawn
  BY <1>1, Zenon DEF CloseDef, history
<1>7. Building = {clause} /\ Building' = {} /\ Opener' = Opener /\ Len(frames') = 2
  <2>1. frames'[2] = frames[2]
    BY <1>3, <1>4
  <2>. QED BY <1>3, <1>4, <1>5, <2>1 DEF Building, Opener
<1>8. clause[1] = "clause" /\ FunctionOf(clause)[1] = "function"
  BY <1>5, ClauseFacts
<1>9. /\ \A t \in DOMAIN ets :
            t \notin {clause, FunctionOf(clause), FunctionsList, Predefines} => ets'[t] = ets[t]
      /\ ets'[FunctionsList] = Append(ets[FunctionsList], clause)
  BY <1>1, <1>8, CloseDefTablesKept DEF WalkInv, CrashInv
<1>10. Mods' = Mods /\ List' = Append(List, clause)
  <2>1. ModulesTable \in DOMAIN ets
    BY <1>1, SetupThere, TableNames DEF WalkInv, CrashInv
  <2>2. ModulesTable \notin {clause, FunctionOf(clause), FunctionsList, Predefines}
    BY <1>8, TableNames
  <2>3. FunctionsList \in DOMAIN ets'
    BY <1>1, ListKept DEF WalkInv, CrashInv, Behind
  <2>. QED BY <1>1, <1>9, <2>1, <2>2, <2>3 DEF Mods, List
<1>. QED BY <1>1, <1>2, <1>4, <1>5, <1>6, <1>7, <1>10

LEMMA CloseModuleEffect ==
  ASSUME WalkInv, Levelled, Single', CloseModule
  PROVE  /\ Single /\ Latest' = Latest /\ UNCHANGED drawn
         /\ FunctionsList \in DOMAIN ets /\ Ahead(todo') \subseteq Ahead(todo)
         /\ Len(frames) = 2 /\ Len(frames') = 1 /\ Building = {} /\ Building' = {}
         /\ Mods' = Mods \cup {ModuleCode} /\ List' = <<>> /\ ModuleCode.clauses = List
<1>1. phase = "walk" /\ Dropped /\ FunctionsList \in DOMAIN ets
      /\ InnerFrame.kind = "module"
  BY DropSteps DEF Single, CloseModule, Leaving
<1>2. Single /\ Latest' = Latest /\ Ahead(todo') \subseteq Ahead(todo)
  BY <1>1, StillSingle, AheadDrops DEF Dropped
<1>3. /\ Len(frames) > 1 /\ Len(frames') = Len(frames) - 1
  BY <1>1, CloseModuleStack DEF WalkInv, CrashInv, RowInv
<1>4. Len(frames) = 2
  <2>1. Len(frames) \in 1..3 /\ (Len(frames) = 3 => frames[3].kind = "def")
    BY <1>2 DEF Levelled
  <2>2. Len(frames) # 3
    BY <1>1, <2>1 DEF InnerFrame
  <2>. QED BY <1>3, <2>1, <2>2
<1>5. Building = {} /\ Building' = {} /\ Len(frames') = 1
  BY <1>3, <1>4 DEF Building
<1>6. UNCHANGED drawn
  BY <1>1, Zenon DEF CloseModule, history
<1>7. Mods' = Mods \cup {ModuleCode} /\ List' = <<>> /\ ModuleCode.clauses = List
  BY <1>1, CloseModuleTablesKept, ListDeleted DEF WalkInv, CrashInv, Mods, List, ModuleCode
<1>. QED BY <1>1, <1>2, <1>4, <1>5, <1>6, <1>7

-----------------------------------------------------------------------------
(* Every def of a module is met, and its clause is of its function: what   *)
(* is ahead of the walk in a module is in the one that is open, or ahead   *)
(* with all of its module.                                                 *)
\* Item j of the walk is in the open module m.
InOpener(m, j) ==
  Len(frames) > 1 /\ m.name = Opener /\ \E e \in 1..Len(todo) : e > j /\ todo[e] = EndOf("module")

Home ==
  \A m \in Walked(Latest), j \in 1..Len(todo) : \A d \in Inside(todo[j]) :
    Of(d, m) => m \in Inside(todo[j]) \/ InOpener(m, j)

Drawn(m, d) == \E c \in Range(drawn) : FunctionOf(c) = FunctionTable(m.name, d.fn)

Met ==
  \A m \in Walked(Latest) : \A d \in Range(m.body) :
    Of(d, m) => d \in Ahead(todo) \/ Drawn(m, d)

Homely == Single => Home /\ Met

LEMMA BodyInside ==
  ASSUME NEW p, Parsed(p), NEW m \in Walked(p), m.op = "module"
  PROVE  Range(m.body) \subseteq Inside(m)
<1>1. m.op # "case"
  OBVIOUS
<1>2. Inside(m) = {m} \cup UNION {Inside(d) : d \in Range(m.body)}
  BY <1>1, InsideParts
<1>3. ASSUME NEW d \in Range(m.body) PROVE d \in Inside(m)
  BY <1>2, InsideItself
<1>. QED BY <1>3

LEMMA StartHome ==
  ASSUME WalkInv, NEW prompt \in Inputs, StartTransform(prompt) PROVE Homely'
<1>1. Latest' = prompt /\ todo' = prompt /\ Parsed(prompt)
  BY StartLatest DEF WalkInv, CrashInv
<1>2. prompt \in Seq(Walked(prompt)) /\ Apart(prompt)
  BY <1>1 DEF Parsed
<1>3. DOMAIN prompt = 1..Len(prompt) /\ Range(prompt) = {prompt[j] : j \in 1..Len(prompt)}
  BY <1>2, RangeEquality
<1>4. ASSUME NEW m \in Walked(prompt), NEW d \in Range(m.body), Of(d, m),
             NEW k \in 1..Len(prompt), m \in Inside(prompt[k])
      PROVE  d \in Inside(prompt[k])
  <2>1. prompt[k] \in Walked(prompt)
    BY <1>2
  <2>2. Inside(m) \subseteq Inside(prompt[k])
    BY <1>1, <1>4, <2>1, InsideClosed, ParsedItem
  <2>. QED BY <1>1, <1>4, <2>2, BodyInside DEF Of
<1>5. \A m \in Walked(prompt) : \E k \in 1..Len(prompt) : m \in Inside(prompt[k])
  BY <1>3 DEF Walked
<1>6. ASSUME NEW m \in Walked(prompt), NEW j \in 1..Len(prompt), NEW d \in Inside(prompt[j]), Of(d, m)
      PROVE  m \in Inside(prompt[j])
  <2>1. PICK k \in 1..Len(prompt) : m \in Inside(prompt[k])
    BY <1>5
  <2>2. d \in Inside(prompt[k])
    BY <1>4, <1>6, <2>1 DEF Of
  <2>3. j = k
    BY <1>2, <1>3, <1>6, <2>2 DEF Apart
  <2>. QED BY <2>1, <2>3
<1>7. ASSUME NEW m \in Walked(prompt), NEW d \in Range(m.body), Of(d, m)
      PROVE  d \in Ahead(prompt)
  BY <1>4, <1>5, <1>7 DEF Ahead
<1>. QED BY <1>1, <1>6, <1>7 DEF Homely, Home, Met

\* What has no module in it has no def in it.
LEMMA PlainHasNoDef ==
  ASSUME NEW p, Parsed(p), NEW i \in Walked(p) \cup Ends, Plain(i), NEW d \in Inside(i)
  PROVE  d.op # "def"
<1>1. CASE i.op = "call" /\ i \notin Ends
  BY <1>1, ParsedItem
<1>2. CASE i.op # "call" \/ i \in Ends
  <2>1. i.op # "def" /\ Inside(i) = {i}
    BY <1>2, InsideLeaf, EndsAreNoItems, ParsedItem DEF Plain
  <2>. QED BY <2>1
<1>. QED BY <1>1, <1>2

\* What is ahead moves up by one.
LEMMA DroppedHome ==
  ASSUME WalkInv, Single, Single', Homely, Dropped, Plain(todo[1]), UNCHANGED drawn,
         todo[1] # EndOf("module") /\ Len(frames) > 1 => Len(frames') > 1 /\ Opener' = Opener
  PROVE  Homely'
<1>1. /\ Parsed(Latest) /\ Pending(Latest, todo) /\ todo # <<>> /\ todo' = Tail(todo)
      /\ Latest' = Latest
  BY LatestParsed, SameLatest DEF WalkInv, CrashInv, Ordered, Dropped, Single
<1>2. /\ Len(todo) \in Nat \ {0} /\ Len(todo') = Len(todo) - 1
      /\ todo[1] \in Walked(Latest) \cup Ends
      /\ \A j \in 1..Len(todo) - 1 : todo'[j] = todo[j + 1]
  BY <1>1, TailItems DEF Pending
<1>. PICK n \in Nat : n = Len(todo')
  BY <1>2
<1>3. Len(todo) = n + 1 /\ \A j \in 1..n : j + 1 \in 1..Len(todo) /\ todo'[j] = todo[j + 1]
  BY <1>2
<1>4. Home /\ Met
  BY DEF Homely
<1>5. ASSUME NEW m \in Walked(Latest), NEW j \in 1..n, InOpener(m, j + 1) PROVE InOpener(m, j)'
  <2>1. PICK e \in 1..Len(todo) : e > j + 1 /\ todo[e] = EndOf("module")
    BY <1>5 DEF InOpener
  <2>2. PICK i \in 1..n : e = i + 1 /\ i > j
    <3>1. e - 1 \in 1..n /\ e = (e - 1) + 1 /\ e - 1 > j
      BY <1>3, <2>1
    <3>. QED BY <3>1
  <2>3. todo'[i] = EndOf("module")
    BY <1>3, <2>1, <2>2
  <2>4. todo[1] # EndOf("module")
    <3>1. SUFFICES ASSUME todo[1] = EndOf("module") PROVE FALSE
      OBVIOUS
    <3>2. 1 \in 1..Len(todo) /\ ~NothingOpen(todo)
      BY <1>2, <3>1, EndsDiffer DEF NothingOpen
    <3>3. OneModuleOpen(todo)
      BY <3>2 DEF WalkInv, CrashInv, Nesting, NotNested, Single
    <3>4. NothingOpen(Tail(todo))
      BY <1>1, <3>1, <3>3, DropsOutside
    <3>. QED BY <1>1, <2>3, <3>4, EndsDiffer DEF NothingOpen
  <2>5. Len(frames') > 1 /\ m.name = Opener'
    BY <1>5, <2>4 DEF InOpener
  <2>. QED BY <2>2, <2>3, <2>5 DEF InOpener
<1>6. ASSUME NEW m \in Walked(Latest), NEW j \in 1..n, NEW d \in Inside(todo'[j]), Of(d, m)
      PROVE  m \in Inside(todo'[j]) \/ InOpener(m, j)'
  <2>1. m \in Inside(todo[j + 1]) \/ InOpener(m, j + 1)
    BY <1>3, <1>4, <1>6 DEF Home
  <2>. QED BY <1>3, <1>5, <2>1
<1>7. Home'
  BY <1>1, <1>6 DEF Home
<1>8. Met'
  <2>1. Ahead(todo) = Inside(todo[1]) \cup Ahead(todo')
    BY <1>1, SkipPending
  <2>2. \A d \in Inside(todo[1]) : d.op # "def"
    BY <1>1, <1>2, PlainHasNoDef
  <2>. QED BY <1>1, <1>4, <2>1, <2>2 DEF Met, Of, Drawn
<1>. QED BY <1>7, <1>8 DEF Homely

\* A call, text or a case stays in the open module.
LEMMA CallOpener ==
  ASSUME WalkInv, Levelled, Single', Emits \/ ExpandMacro \/ \E id : CompileCase(id)
  PROVE  UNCHANGED drawn /\ (Len(frames) > 1 => Len(frames') > 1 /\ Opener' = Opener)
<1>1. UNCHANGED drawn /\ SameKinds(frames, frames') /\ Len(frames) \in 1..3
  BY CallEffect
<1>2. Len(frames) > 1 => 2 \in 1..Len(frames)
  BY <1>1
<1>. QED BY <1>1, <1>2 DEF SameKinds, Opener

LEMMA CloseModuleHome ==
  ASSUME WalkInv, Levelled, Homely, Single', CloseModule PROVE Homely'
<1>1. Dropped /\ todo[1] = EndOf("module") /\ phase = "walk"
  BY DropSteps DEF Single, CloseModule
<1>2. Single
  BY <1>1, StillSingle DEF Dropped
<1>3. Plain(todo[1])
  BY <1>1, EndsDiffer DEF Plain
<1>4. UNCHANGED drawn
  <2>1. FunctionsList \in DOMAIN ets
    BY <1>1, DropSteps DEF Single
  <2>. QED BY <2>1, Zenon DEF CloseModule, history
<1>. QED BY <1>1, <1>2, <1>3, <1>4, DroppedHome

LEMMA DropHome ==
  ASSUME WalkInv, Levelled, Homely, Single', Emits \/ (\E id : CompileCase(id)) \/ CloseDef
  PROVE  Homely'
<1>1. phase = "walk" /\ Dropped /\ Plain(todo[1]) /\ todo[1] # EndOf("module")
  <2>1. \A e \in Ends : e.op = "end"
    BY EndsAreNoItems
  <2>. QED BY <2>1, DropSteps, EndsDiffer DEF Plain, Single, CloseDef, EmittedOps
<1>2. Single
  BY <1>1, StillSingle DEF Dropped
<1>3. UNCHANGED drawn /\ (Len(frames) > 1 => Len(frames') > 1 /\ Opener' = Opener)
  <2>1. CASE CloseDef
    <3>1. UNCHANGED drawn
      BY <2>1, Zenon DEF CloseDef, Raise, history
    <3>2. Len(frames') = 2 /\ Opener' = Opener
      BY <2>1, CloseDefEffect
    <3>. QED BY <3>1, <3>2
  <2>2. CASE Emits \/ \E id : CompileCase(id)
    BY <2>2, CallOpener
  <2>. QED BY <2>1, <2>2
<1>. QED BY <1>1, <1>2, <1>3, DroppedHome

\* What a macro yields has no def in it either.
LEMMA ExpandedHome ==
  ASSUME WalkInv, Levelled, Homely, Single', ExpandMacro PROVE Homely'
<1>. PICK b : b = todo[1].body
  OBVIOUS
<1>1. phase = "walk" /\ ExpandedItem
  BY DropSteps DEF Single
<1>2. Single /\ Latest' = Latest
  BY <1>1, StillSingle DEF ExpandedItem
<1>3. UNCHANGED drawn /\ (Len(frames) > 1 => Len(frames') > 1 /\ Opener' = Opener)
  BY CallOpener
<1>4. /\ Parsed(Latest) /\ Pending(Latest, todo) /\ todo # <<>> /\ todo[1].op = "call"
      /\ todo' = b \o Tail(todo)
  BY <1>1, LatestParsed DEF WalkInv, CrashInv, Ordered, ExpandedItem
<1>. PICK t : t = todo'
  OBVIOUS
<1>5. /\ Spliced(todo, b, t)
      /\ \A j \in 1..Len(b) : Inside(b[j]) \subseteq Inside(todo[1])
      /\ \A d \in Inside(todo[1]) : d.op # "def"
      /\ Ahead(todo) \subseteq Inside(todo[1]) \cup Ahead(t)
  <2>1. todo[1].body = b
    OBVIOUS
  <2>2. \A d \in Inside(todo[1]) : d.op \in {"call", "text"}
    BY <1>4, ExpandPending
  <2>. QED BY <1>4, <2>1, <2>2, ExpandPending
<1>. PICK n \in Nat : n = Len(b)
  BY <1>5 DEF Spliced
<1>6. /\ Len(todo) \in Nat \ {0}
      /\ \A j \in 1..Len(t) :
           \/ j \in 1..n /\ t[j] = b[j]
           \/ \E i \in 2..Len(todo) : j = n + i - 1 /\ t[j] = todo[i]
      /\ \A i \in 2..Len(todo) : n + i - 1 \in 1..Len(t) /\ t[n + i - 1] = todo[i]
  BY <1>5 DEF Spliced
<1>7. Home /\ Met
  BY <1>2 DEF Homely
<1>8. ASSUME NEW m \in Walked(Latest), NEW i \in 2..Len(todo), InOpener(m, i)
      PROVE  InOpener(m, n + i - 1)'
  <2>1. PICK e \in 1..Len(todo) : e > i /\ todo[e] = EndOf("module")
    BY <1>8 DEF InOpener
  <2>2. e \in 2..Len(todo) /\ n + e - 1 > n + i - 1
    BY <1>6, <2>1
  <2>3. n + e - 1 \in 1..Len(todo') /\ todo'[n + e - 1] = EndOf("module")
    BY <1>6, <2>1, <2>2
  <2>. QED BY <1>3, <1>8, <2>2, <2>3 DEF InOpener
<1>9. ASSUME NEW m \in Walked(Latest), NEW j \in 1..Len(todo'), NEW d \in Inside(todo'[j]), Of(d, m)
      PROVE  m \in Inside(todo'[j]) \/ InOpener(m, j)'
  <2>1. ~(j \in 1..n /\ todo'[j] = b[j])
    BY <1>5, <1>9 DEF Of
  <2>2. PICK i \in 2..Len(todo) : j = n + i - 1 /\ todo'[j] = todo[i]
    BY <1>6, <2>1
  <2>3. i \in 1..Len(todo)
    BY <1>6
  <2>4. m \in Inside(todo[i]) \/ InOpener(m, i)
    BY <1>7, <1>9, <2>2, <2>3 DEF Home
  <2>. QED BY <1>8, <2>2, <2>4
<1>10. Home'
  BY <1>2, <1>9 DEF Home
<1>11. Met'
  BY <1>2, <1>3, <1>5, <1>7 DEF Met, Of, Drawn
<1>. QED BY <1>10, <1>11 DEF Homely


\* Every item that is ahead after one is entered is of its body, its end, or
\* was ahead.
PlaceAfter(s, b, t, kind, j) ==
  \/ j \in 1..Len(b) /\ Inside(t[j]) \subseteq Inside(s[1]) \ {s[1]}
  \/ j = Len(b) + 1 /\ t[j] = EndOf(kind)
  \/ \E i \in 2..Len(s) : j = Len(b) + i /\ t[j] = s[i]

LEMMA PlacesAfter ==
  ASSUME NEW s, NEW b, NEW t, NEW kind, InPlace(s, b, t, kind), NEW j \in 1..Len(t)
  PROVE  PlaceAfter(s, b, t, kind, j)
<1>. PICK n \in Nat : n = Len(b)
  BY DEF InPlace
<1>1. /\ Len(s) \in Nat \ {0} /\ Len(t) = n + Len(s) /\ t[n + 1] = EndOf(kind)
      /\ \A i \in 1..n : t[i] = b[i] /\ Inside(b[i]) \subseteq Inside(s[1]) \ {s[1]}
      /\ \A i \in 2..Len(s) : t[n + i] = s[i]
  BY DEF InPlace
<1>2. CASE j \in 1..n
  BY <1>1, <1>2 DEF PlaceAfter
<1>3. CASE j = n + 1
  BY <1>1, <1>3 DEF PlaceAfter
<1>4. CASE j > n + 1
  <2>1. j - n \in 2..Len(s) /\ j = n + (j - n)
    BY <1>1, <1>4
  <2>2. PICK i \in 2..Len(s) : j = n + i
    BY <2>1
  <2>3. t[j] = s[i]
    BY <1>1, <2>2
  <2>. QED BY <2>2, <2>3 DEF PlaceAfter
<1>. QED BY <1>2, <1>3, <1>4 DEF PlaceAfter

LEMMA OpenModuleHome ==
  ASSUME WalkInv, Levelled, Levelled', Homely, Single', OpenModule PROVE Homely'
<1>. PICK b : b = todo[1].body
  OBVIOUS
<1>1. /\ Single /\ Latest' = Latest /\ UNCHANGED drawn /\ EnteredItem("module")
      /\ Len(frames) = 1 /\ Len(frames') = 2 /\ Opener' = todo[1].name
  BY OpenModuleEffect
<1>2. /\ Parsed(Latest) /\ Pending(Latest, todo) /\ todo # <<>> /\ todo[1].op = "module"
      /\ todo' = Entered(todo, "module")
  BY <1>1, LatestParsed DEF WalkInv, CrashInv, Ordered, EnteredItem, Single
<1>3. InPlace(todo, b, todo', "module")
  BY <1>2, EnterPlaces
<1>4. Home /\ Met /\ todo[1] \in Walked(Latest)
  BY <1>1, <1>2, EnterPending DEF Homely
<1>5. \A m, j : ~InOpener(m, j)
  BY <1>1 DEF InOpener
<1>. PICK n \in Nat : n = Len(b)
  BY <1>3 DEF InPlace
<1>6. n + 1 \in 1..Len(todo') /\ todo'[n + 1] = EndOf("module") /\ Len(todo) \in Nat \ {0}
  BY <1>3 DEF InPlace
<1>7. ASSUME NEW m \in Walked(Latest), NEW j \in 1..Len(todo'), NEW d \in Inside(todo'[j]), Of(d, m)
      PROVE  m \in Inside(todo'[j]) \/ InOpener(m, j)'
  <2>1. CASE j \in 1..n /\ Inside(todo'[j]) \subseteq Inside(todo[1]) \ {todo[1]}
    <3>1. 1 \in 1..Len(todo) /\ d \in Inside(todo[1])
      BY <1>6, <1>7, <2>1
    <3>2. m \in Inside(todo[1])
      BY <1>4, <1>5, <1>7, <3>1 DEF Home
    <3>3. ~Nests(todo[1])
      BY <1>1, <1>2, <1>4, NestsWalked DEF Single
    <3>4. m = todo[1]
      BY <1>2, <1>7, <3>2, <3>3 DEF Nests, Of
    <3>5. n + 1 > j
      BY <2>1
    <3>6. \E e \in 1..Len(todo') : e > j /\ todo'[e] = EndOf("module")
      BY <1>6, <3>5
    <3>. QED BY <1>1, <3>4, <3>6 DEF InOpener
  <2>2. CASE todo'[j] = EndOf("module")
    <3>1. Inside(todo'[j]) = {todo'[j]} /\ todo'[j].op = "end"
      BY <2>2, EndsAreNoItems, EndsDiffer
    <3>. QED BY <1>7, <3>1 DEF Of
  <2>3. CASE \E i \in 2..Len(todo) : todo'[j] = todo[i]
    <3>1. PICK i \in 2..Len(todo) : todo'[j] = todo[i]
      BY <2>3
    <3>2. i \in 1..Len(todo)
      BY <1>6
    <3>. QED BY <1>4, <1>5, <1>7, <3>1, <3>2 DEF Home
  <2>4. \/ j \in 1..Len(b) /\ Inside(todo'[j]) \subseteq Inside(todo[1]) \ {todo[1]}
        \/ j = Len(b) + 1 /\ todo'[j] = EndOf("module")
        \/ \E i \in 2..Len(todo) : j = Len(b) + i /\ todo'[j] = todo[i]
    <3>. PICK t : t = todo'
      OBVIOUS
    <3>1. InPlace(todo, b, t, "module") /\ j \in 1..Len(t)
      BY <1>3
    <3>2. PlaceAfter(todo, b, t, "module", j)
      BY <3>1, PlacesAfter
    <3>. QED BY <3>2 DEF PlaceAfter
  <2>. QED BY <2>1, <2>2, <2>3, <2>4
<1>8. Home'
  BY <1>1, <1>7 DEF Home
<1>9. Met'
  <2>1. /\ Ahead(todo) = {todo[1]} \cup Ahead(b) \cup Ahead(Tail(todo))
        /\ Ahead(todo') = Ahead(b) \cup {EndOf("module")} \cup Ahead(Tail(todo))
    BY <1>2, EnterPending
  <2>. QED BY <1>1, <1>2, <1>4, <2>1 DEF Met, Of, Drawn
<1>. QED BY <1>8, <1>9 DEF Homely

LEMMA OpenDefHome ==
  ASSUME WalkInv, Levelled, Levelled', Tracked, Homely, Single', NEW id, OpenDef(id) PROVE Homely'
<1>. PICK b : b = todo[1].body
  OBVIOUS
<1>. PICK clause : clause = frames'[3].name
  OBVIOUS
<1>1. /\ Single /\ Latest' = Latest /\ EnteredItem("def")
      /\ Len(frames) = 2 /\ Len(frames') = 3 /\ Opener' = Opener
      /\ FunctionOf(clause) = FunctionTable(Opener, todo[1].fn) /\ drawn' = Append(drawn, clause)
  BY OpenDefEffect
<1>2. /\ Parsed(Latest) /\ Pending(Latest, todo) /\ todo # <<>> /\ todo[1].op = "def"
      /\ todo' = Entered(todo, "def")
  BY <1>1, LatestParsed DEF WalkInv, CrashInv, Ordered, EnteredItem, Single
<1>3. InPlace(todo, b, todo', "def")
  BY <1>2, EnterPlaces
<1>4. Home /\ Met /\ todo[1] \in Walked(Latest)
  BY <1>1, <1>2, EnterPending DEF Homely
<1>5. Len(todo) \in Nat \ {0} /\ todo[1] \notin Ends
      /\ \A i \in 2..Len(todo) : Len(b) + i \in 1..Len(todo') /\ todo'[Len(b) + i] = todo[i]
  BY <1>3 DEF InPlace
<1>6. 1 \in 1..Len(todo)
  BY <1>5
<1>7. OneModuleOpen(todo)
  BY <1>1 DEF WalkInv, CrashInv, Nesting, NotNested, Single
<1>8. PICK e \in 1..Len(todo) :
        /\ todo[e] = EndOf("module")
        /\ \A j \in 1..Len(todo) : j < e => todo[j] # EndOf("module") /\ ~HasModule(todo[j])
  BY <1>7 DEF OneModuleOpen
<1>9. ~HasModule(todo[1]) /\ e \in 2..Len(todo)
  <2>1. e # 1
    BY <1>5, <1>8, EndsDiffer
  <2>2. 1 < e
    BY <1>6, <2>1
  <2>. QED BY <1>6, <1>8, <2>2
<1>. PICK n \in Nat : n = Len(b)
  BY <1>3 DEF InPlace
<1>10. ASSUME NEW m \in Walked(Latest), NEW j \in 1..Len(todo), NEW k, InOpener(m, j),
              k \in Nat, k < n + j + 1
       PROVE  InOpener(m, k)'
  <2>1. PICK i \in 1..Len(todo) : i > j /\ todo[i] = EndOf("module")
    BY <1>10 DEF InOpener
  <2>2. i \in 2..Len(todo) /\ n + i > k
    BY <1>10, <2>1
  <2>3. n + i \in 1..Len(todo') /\ todo'[n + i] = EndOf("module")
    BY <1>5, <2>1, <2>2
  <2>. QED BY <1>1, <1>10, <2>2, <2>3 DEF InOpener
<1>11. ASSUME NEW m \in Walked(Latest), NEW d \in Inside(todo[1]), Of(d, m) PROVE InOpener(m, 1)
  <2>1. m \notin Inside(todo[1])
    BY <1>9, <1>11 DEF HasModule, Of
  <2>. QED BY <1>4, <1>6, <1>11, <2>1 DEF Home
<1>12. ASSUME NEW m \in Walked(Latest), NEW j \in 1..Len(todo'), NEW d \in Inside(todo'[j]), Of(d, m)
       PROVE  m \in Inside(todo'[j]) \/ InOpener(m, j)'
  <2>1. CASE j \in 1..n /\ Inside(todo'[j]) \subseteq Inside(todo[1]) \ {todo[1]}
    <3>1. InOpener(m, 1)
      BY <1>11, <1>12, <2>1
    <3>2. j < n + 1 + 1
      BY <2>1
    <3>. QED BY <1>6, <1>10, <3>1, <3>2
  <2>2. CASE todo'[j] = EndOf("def")
    <3>1. Inside(todo'[j]) = {todo'[j]} /\ todo'[j].op = "end"
      BY <2>2, EndsAreNoItems, EndsDiffer
    <3>. QED BY <1>12, <3>1 DEF Of
  <2>3. CASE \E i \in 2..Len(todo) : j = n + i /\ todo'[j] = todo[i]
    <3>1. PICK i \in 2..Len(todo) : j = n + i /\ todo'[j] = todo[i]
      BY <2>3
    <3>2. i \in 1..Len(todo) /\ j < n + i + 1
      BY <3>1
    <3>3. m \in Inside(todo[i]) \/ InOpener(m, i)
      BY <1>4, <1>12, <3>1, <3>2 DEF Home
    <3>. QED BY <1>10, <3>1, <3>2, <3>3
  <2>4. \/ j \in 1..Len(b) /\ Inside(todo'[j]) \subseteq Inside(todo[1]) \ {todo[1]}
        \/ j = Len(b) + 1 /\ todo'[j] = EndOf("def")
        \/ \E i \in 2..Len(todo) : j = Len(b) + i /\ todo'[j] = todo[i]
    <3>. PICK t : t = todo'
      OBVIOUS
    <3>1. InPlace(todo, b, t, "def") /\ j \in 1..Len(t)
      BY <1>3
    <3>2. PlaceAfter(todo, b, t, "def", j)
      BY <3>1, PlacesAfter
    <3>. QED BY <3>2 DEF PlaceAfter
  <2>. QED BY <2>1, <2>2, <2>3, <2>4
<1>13. Home'
  BY <1>1, <1>12 DEF Home
<1>14. Met'
  <2>1. /\ Ahead(todo) = {todo[1]} \cup Ahead(b) \cup Ahead(Tail(todo))
        /\ Ahead(todo') = Ahead(b) \cup {EndOf("def")} \cup Ahead(Tail(todo))
    BY <1>2, EnterPending
  <2>2. Range(drawn') = Range(drawn) \cup {clause}
    BY <1>1, RangeOfAppend DEF Tracked, Placed
  <2>4. ASSUME NEW m \in Walked(Latest), Of(todo[1], m) PROVE m.name = Opener
    BY <1>11, <2>4, InsideItself DEF InOpener
  <2>5. ASSUME NEW m \in Walked(Latest), NEW d \in Range(m.body), Of(d, m)
        PROVE  d \in Ahead(todo') \/ Drawn(m, d)'
    <3>1. CASE d = todo[1]
      BY <1>1, <2>2, <2>4, <2>5, <3>1 DEF Drawn
    <3>2. CASE d # todo[1]
      BY <1>4, <2>1, <2>2, <2>5, <3>2 DEF Met, Drawn
    <3>. QED BY <3>1, <3>2
  <2>. QED BY <1>1, <2>5 DEF Met
<1>. QED BY <1>13, <1>14 DEF Homely

\* The def that is entered is one of the open module.
LEMMA OpenDefOwner ==
  ASSUME WalkInv, Levelled, Levelled', Homely, Single', NEW id, OpenDef(id)
  PROVE  \E m \in ModulesOf(Latest) : Of(todo[1], m) /\ m.name = Opener /\ m \notin Ahead(todo)
<1>1. Single /\ EnteredItem("def") /\ Len(frames) = 2
  BY OpenDefEffect
<1>2. /\ Parsed(Latest) /\ Pending(Latest, todo) /\ todo # <<>> /\ todo[1].op = "def"
  BY <1>1, LatestParsed DEF WalkInv, CrashInv, Ordered, EnteredItem, Single
<1>3. todo[1] \in Walked(Latest) /\ todo[1] \notin Ends /\ 1 \in 1..Len(todo)
  <2>1. todo[1] \in Walked(Latest)
    BY <1>2, EnterPending
  <2>2. 1 \in 1..Len(todo)
    BY <1>2, TailItems DEF Pending
  <2>. QED BY <1>2, <2>1, <2>2, EndsAreNoItems
<1>4. PICK m \in Walked(Latest) : Of(todo[1], m)
  BY <1>2, <1>3 DEF Parsed, Of
<1>5. ~HasModule(todo[1])
  <2>1. OneModuleOpen(todo)
    <3>1. Len(frames) # 1
      BY <1>1
    <3>. QED BY <1>1, <3>1 DEF WalkInv, CrashInv, Nesting, NotNested, Single
  <2>2. PICK e \in 1..Len(todo) :
          /\ todo[e] = EndOf("module")
          /\ \A j \in 1..Len(todo) : j < e => ~HasModule(todo[j])
    BY <2>1 DEF OneModuleOpen
  <2>3. e # 1
    BY <1>3, <2>2, EndsDiffer
  <2>. QED BY <1>3, <2>2, <2>3
<1>6. m \notin Inside(todo[1])
  BY <1>4, <1>5 DEF HasModule, Of
<1>7. m.name = Opener
  BY <1>1, <1>3, <1>4, <1>6, InsideItself DEF Homely, Home, InOpener
<1>8. ASSUME NEW j \in 1..Len(todo), m \in Inside(todo[j]) PROVE FALSE
  <2>1. todo[j] \in Walked(Latest)
    <3>1. todo[j] \in Ends => Inside(todo[j]) = {todo[j]} /\ todo[j].op = "end"
      BY EndsAreNoItems
    <3>2. todo[j] \notin Ends
      BY <1>4, <1>8, <3>1 DEF Of
    <3>. QED BY <1>2, <3>2, PendingItem
  <2>2. Inside(m) \subseteq Inside(todo[j])
    BY <1>2, <1>8, <2>1, InsideClosed, ParsedItem
  <2>3. todo[1] \in Inside(m)
    BY <1>2, <1>4, BodyInside DEF Of
  <2>4. j # 1
    BY <1>6, <1>8
  <2>. QED BY <1>2, <1>3, <2>2, <2>3, <2>4, InsideItself DEF Pending
<1>9. m \notin Ahead(todo)
  BY <1>8 DEF Ahead
<1>. QED BY <1>4, <1>7, <1>9 DEF ModulesOf, Of

LEMMA HomelyStep ==
  WalkInv /\ Levelled /\ Levelled' /\ Tracked /\ Homely /\ [Steps]_vars => Homely'
<1>. SUFFICES ASSUME WalkInv, Levelled, Levelled', Tracked, Homely, [Steps]_vars, Single'
              PROVE  Homely'
  BY DEF Homely
<1>1. phase' = "walk"
  BY DEF Single
<1>2. CASE UNCHANGED vars
  <2>1. Single /\ UNCHANGED <<frames, todo, drawn>> /\ Latest' = Latest
    BY <1>2, SameLatest DEF vars, history, Single
  <2>2. Home' /\ Met'
    BY <2>1 DEF Homely, Home, Met, InOpener, Opener, Drawn
  <2>. QED BY <2>2 DEF Homely
<1>. QED BY <1>1, <1>2, StartHome, DropHome, ExpandedHome, OpenModuleHome, OpenDefHome, CloseModuleHome, WalkSteps


-----------------------------------------------------------------------------
(* So no clause is lost and none is put in a second place.                 *)
LEMMA CallTracked ==
  ASSUME WalkInv, Levelled, Tracked, Single', Emits \/ ExpandMacro \/ \E id : CompileCase(id)
  PROVE  Tracked'
<1>1. /\ Single /\ Latest' = Latest /\ UNCHANGED drawn
      /\ SameKinds(frames, frames') /\ Len(frames) \in 1..3
      /\ Mods' = Mods /\ List' = List /\ Ahead(todo') \subseteq Ahead(todo)
  BY CallEffect
<1>. QED BY <1>1, SameTracked

\* Behind an item that is entered no other module has defs ahead.
LEMMA EnteredOnce ==
  ASSUME WalkInv, phase = "walk", NEW kind \in {"module", "def"}, EnteredItem(kind)
  PROVE  \A f : (NoneAhead(f) => NoneAhead(f)') /\ (Begun(f) => Begun(f)')
<1>1. /\ Latest' = Latest
      /\ \A n \in Ahead(todo') : n.op # "end" => n \in Ahead(todo)
  BY AheadEnters
<1>2. \A m \in ModulesOf(Latest) : m \in Ahead(todo') => m \in Ahead(todo)
  BY <1>1 DEF ModulesOf
<1>3. \A m, d : Of(d, m) /\ d \in Ahead(todo') => d \in Ahead(todo)
  BY <1>1 DEF Of
<1>. QED BY <1>1, <1>2, <1>3 DEF NoneAhead, Begun

LEMMA OpenModuleTracked ==
  ASSUME WalkInv, Levelled, Levelled', Tracked, Single', OpenModule PROVE Tracked'
<1>1. /\ Single /\ Latest' = Latest /\ UNCHANGED drawn /\ EnteredItem("module")
      /\ Len(frames') = 2 /\ Building = {} /\ Building' = {}
      /\ Mods' = Mods /\ List = <<>> /\ List' = <<>>
  BY OpenModuleEffect
<1>2. Placed'
  BY <1>1 DEF Tracked, Placed
<1>3. ASSUME NamesOnce(Latest) PROVE OpenedOnce' /\ ClosedOnce' /\ Repeats'
  <2>1. ClosedOnce /\ Repeats
    BY <1>1, <1>3 DEF Tracked, Once
  <2>2. \A f : NoneAhead(f) => NoneAhead(f)'
    BY <1>1, EnteredOnce DEF Single
  <2>3. OpenedOnce'
    BY <1>1, EmptyClauses DEF OpenedOnce
  <2>4. ClosedOnce'
    BY <1>1, <2>1, <2>2 DEF ClosedOnce
  <2>5. Repeats'
    BY <1>1, <2>1 DEF Repeats
  <2>. QED BY <2>3, <2>4, <2>5
<1>. QED BY <1>1, <1>2, <1>3 DEF Tracked, Once

LEMMA OpenDefTracked ==
  ASSUME WalkInv, Levelled, Levelled', Tracked, Homely, Single', NEW id, OpenDef(id) PROVE Tracked'
<1>. PICK clause : clause = frames'[3].name
  OBVIOUS
<1>1. /\ Single /\ Latest' = Latest /\ EnteredItem("def")
      /\ FunctionOf(clause) = FunctionTable(Opener, todo[1].fn)
      /\ Building = {} /\ Building' = {clause} /\ drawn' = Append(drawn, clause)
      /\ Mods' = Mods /\ List' = List
  BY OpenDefEffect
<1>2. Placed
  BY <1>1 DEF Tracked
<1>3. /\ Range(drawn') = Range(drawn) \cup {clause}
      /\ Distinct(drawn') <=> Distinct(drawn) /\ clause \notin Range(drawn)
      /\ drawn' \in Seq(Range(drawn) \cup {clause})
  BY <1>1, <1>2, RangeOfAppend, DistinctAppend, AppendProperties DEF Placed
<1>4. Placed'
  BY <1>1, <1>2, <1>3 DEF Placed
<1>5. ASSUME NamesOnce(Latest) PROVE OpenedOnce' /\ ClosedOnce' /\ Repeats'
  <2>1. OpenedOnce /\ ClosedOnce /\ Repeats
    BY <1>1, <1>5 DEF Tracked, Once
  <2>2. \A f : (NoneAhead(f) => NoneAhead(f)') /\ (Begun(f) => Begun(f)')
    BY <1>1, EnteredOnce DEF Single
  <2>3. PICK m \in ModulesOf(Latest) : Of(todo[1], m) /\ m.name = Opener /\ m \notin Ahead(todo)
    BY OpenDefOwner
  <2>4. FunctionOf(clause) \in FunctionsIn(m)
    BY <1>1, <2>3 DEF FunctionsIn, Of
  <2>5. todo[1] \in Ahead(todo)
    BY <1>1, AheadEnters DEF Single
  <2>6. Begun(FunctionOf(clause))
    BY <2>3, <2>4 DEF Begun
  <2>7. \A d \in ClausesOf(Mods) : FunctionOf(d) # FunctionOf(clause)
    BY <2>1, <2>3, <2>4, <2>5 DEF ClosedOnce, NoneAhead
  <2>8. OpenedOnce'
    BY <1>1, <2>1, <2>2, <2>6, <2>7 DEF OpenedOnce
  <2>9. ClosedOnce'
    BY <1>1, <2>1, <2>2 DEF ClosedOnce
  <2>10. clause \in Range(drawn) <=> clause \in Range(List)
    BY <1>1, <1>2, <2>7 DEF Placed
  <2>11. Repeats'
    BY <1>1, <1>3, <2>1, <2>10 DEF Repeats
  <2>. QED BY <2>8, <2>9, <2>11
<1>. QED BY <1>1, <1>4, <1>5 DEF Tracked, Once

LEMMA CloseDefTracked ==
  ASSUME WalkInv, Levelled, Tracked, Single', CloseDef PROVE Tracked'
<1>. PICK clause : clause = frames[3].name
  OBVIOUS
<1>1. /\ Single /\ Latest' = Latest /\ UNCHANGED drawn /\ Ahead(todo') \subseteq Ahead(todo)
      /\ Building = {clause} /\ Building' = {}
      /\ Mods' = Mods /\ List' = Append(List, clause)
  BY CloseDefEffect
<1>2. Placed
  BY <1>1 DEF Tracked
<1>3. /\ Range(List') = Range(List) \cup {clause}
      /\ Distinct(List') <=> Distinct(List) /\ clause \notin Range(List)
      /\ List' \in Seq(Range(List) \cup {clause})
  BY <1>1, <1>2, RangeOfAppend, DistinctAppend, AppendProperties DEF Placed
<1>4. Placed'
  BY <1>1, <1>2, <1>3 DEF Placed
<1>5. ASSUME NamesOnce(Latest) PROVE OpenedOnce' /\ ClosedOnce' /\ Repeats'
  <2>1. OpenedOnce /\ ClosedOnce /\ Repeats
    BY <1>1, <1>5 DEF Tracked, Once
  <2>2. \A f : (NoneAhead(f) => NoneAhead(f)') /\ (Begun(f) => Begun(f)')
    BY <1>1 DEF NoneAhead, Begun
  <2>3. OpenedOnce'
    BY <1>1, <1>3, <2>1, <2>2 DEF OpenedOnce
  <2>4. ClosedOnce'
    BY <1>1, <2>1, <2>2 DEF ClosedOnce
  <2>5. Repeats'
    BY <1>1, <1>3, <2>1 DEF Repeats
  <2>. QED BY <2>3, <2>4, <2>5
<1>. QED BY <1>1, <1>4, <1>5 DEF Tracked, Once

\* The module that is left has no def ahead.
LEMMA CloseModuleTracked ==
  ASSUME WalkInv, Levelled, Tracked, Homely', Single', CloseModule PROVE Tracked'
<1>1. /\ Single /\ Latest' = Latest /\ UNCHANGED drawn /\ Ahead(todo') \subseteq Ahead(todo)
      /\ Len(frames') = 1 /\ Building = {} /\ Building' = {}
      /\ Mods' = Mods \cup {ModuleCode} /\ List' = <<>> /\ ModuleCode.clauses = List
  BY CloseModuleEffect
<1>2. ClausesOf(Mods') = ClausesOf(Mods) \cup Range(List)
  BY <1>1 DEF ClausesOf
<1>3. Placed'
  BY <1>1, <1>2, EmptyClauses DEF Tracked, Placed
<1>4. ASSUME NamesOnce(Latest) PROVE OpenedOnce' /\ ClosedOnce' /\ Repeats'
  <2>1. OpenedOnce /\ ClosedOnce /\ Repeats
    BY <1>1, <1>4 DEF Tracked, Once
  <2>2. \A f : NoneAhead(f) => NoneAhead(f)'
    BY <1>1 DEF NoneAhead
  <2>3. ASSUME NEW f, Begun(f) PROVE NoneAhead(f)'
    <3>. SUFFICES ASSUME NEW n \in ModulesOf(Latest), NEW d \in Ahead(todo'), Of(d, n), f \in FunctionsIn(n)
                  PROVE  FALSE
      BY <1>1 DEF NoneAhead
    <3>1. PICK m \in ModulesOf(Latest) : m \notin Ahead(todo) /\ f \in FunctionsIn(m)
      BY <2>3 DEF Begun
    <3>2. m = n
      BY <1>4, <3>1 DEF NamesOnce
    <3>3. PICK j \in 1..Len(todo') : d \in Inside(todo'[j])
      BY DEF Ahead
    <3>4. n \in Walked(Latest') /\ Home'
      BY <1>1 DEF Homely, ModulesOf
    <3>5. n \in Inside(todo'[j])
      BY <1>1, <3>3, <3>4 DEF Home, InOpener
    <3>. QED BY <1>1, <3>1, <3>2, <3>5 DEF Ahead
  <2>4. OpenedOnce'
    BY <1>1, EmptyClauses DEF OpenedOnce
  <2>5. \A c \in ClausesOf(Mods') : NoneAhead(FunctionOf(c))'
    BY <1>2, <2>1, <2>2, <2>3 DEF ClosedOnce, OpenedOnce
  <2>6. \A m \in Mods : \A d \in Range(m.clauses) : \A c \in Range(List) : FunctionOf(d) # FunctionOf(c)
    BY <2>1 DEF OpenedOnce, ClausesOf
  <2>7. ASSUME NEW m \in Mods', NEW n \in Mods', m # n,
               NEW c \in Range(m.clauses), NEW d \in Range(n.clauses)
        PROVE  FunctionOf(c) # FunctionOf(d)
    <3>1. CASE m \in Mods /\ n \in Mods
      BY <2>1, <2>7, <3>1 DEF ClosedOnce
    <3>2. CASE m = ModuleCode /\ n \in Mods
      BY <1>1, <2>6, <3>2
    <3>3. CASE m \in Mods /\ n = ModuleCode
      BY <1>1, <2>6, <3>3
    <3>. QED BY <1>1, <2>7, <3>1, <3>2, <3>3
  <2>8. ClosedOnce'
    BY <2>5, <2>7 DEF ClosedOnce
  <2>9. NoRepeats(Mods') <=> NoRepeats(Mods) /\ Distinct(List)
    BY <1>1 DEF NoRepeats
  <2>10. Repeats'
    BY <1>1, <2>1, <2>9, EmptyClauses DEF Repeats
  <2>. QED BY <2>4, <2>8, <2>10
<1>. QED BY <1>1, <1>3, <1>4 DEF Tracked, Once

LEMMA TrackedStep ==
  WalkInv /\ Levelled /\ Levelled' /\ Homely /\ Homely' /\ Tracked /\ [Steps]_vars => Tracked'
<1>. SUFFICES ASSUME WalkInv, Levelled, Levelled', Homely, Homely', Tracked, [Steps]_vars, Single'
              PROVE  Tracked'
  BY DEF Tracked
<1>1. phase' = "walk" /\ ~rescued'
  BY DEF Single
<1>2. ASSUME NEW prompt \in Inputs, StartTransform(prompt) PROVE Tracked'
  <2>1. ~rescued
    BY <1>1, <1>2 DEF StartTransform
  <2>. QED BY <1>2, <2>1, StartTracked
<1>3. CASE UNCHANGED vars
  BY <1>3 DEF vars, history, Tracked, Single, Placed, Once, OpenedOnce, ClosedOnce, Repeats, NoRepeats,
              Mods, List, Building, NoneAhead, Begun, ClausesOf, Latest
<1>. QED BY <1>1, <1>2, <1>3, CallTracked, OpenModuleTracked, OpenDefTracked, CloseDefTracked,
            CloseModuleTracked, WalkSteps


-----------------------------------------------------------------------------
(* The clauses of one function among the first n of s, in the order of s.  *)
Picked(cl, l, s, n, f) ==
  \E at \in [1..l -> 1..n] :
    /\ \A i \in 1..n : FunctionOf(s[i]) = f <=> \E k \in 1..l : at[k] = i
    /\ \A j, k \in 1..l : j < k => at[j] < at[k]
    /\ \A k \in 1..l : cl[k] = s[at[k]]

Picks(cl, s, n, f) == cl \in Seq(Range(cl)) /\ Picked(cl, Len(cl), s, n, f)

LEMMA PicksSelect ==
  ASSUME NEW S, NEW s \in Seq(S), NEW cl, NEW f, Picks(cl, s, Len(s), f)
  PROVE  Selects(cl, s, f)
<1>. DEFINE places == {i \in DOMAIN s : FunctionOf(s[i]) = f}
<1>. PICK n \in Nat : n = Len(s)
  OBVIOUS
<1>1. DOMAIN s = 1..n /\ DOMAIN cl = 1..Len(cl)
  BY DEF Picks, Picked
<1>2. PICK at \in [1..Len(cl) -> 1..n] :
        /\ \A i \in 1..n : FunctionOf(s[i]) = f <=> \E k \in 1..Len(cl) : at[k] = i
        /\ \A j, k \in 1..Len(cl) : j < k => at[j] < at[k]
        /\ \A k \in 1..Len(cl) : cl[k] = s[at[k]]
  BY DEF Picks, Picked
<1>3. \A k \in 1..Len(cl) : at[k] \in places
  BY <1>1, <1>2
<1>4. at \in [DOMAIN cl -> places]
  BY <1>1, <1>3
<1>5. Range(at) = places
  BY <1>1, <1>2, <1>4 DEF Range
<1>. QED BY <1>1, <1>2, <1>4, <1>5 DEF Selects

LEMMA PicksSame ==
  ASSUME NEW n \in Nat, NEW s, NEW t, \A i \in 1..n : t[i] = s[i],
         NEW cl, NEW f, Picks(cl, s, n, f)
  PROVE  Picks(cl, t, n, f)
<1>1. PICK at \in [1..Len(cl) -> 1..n] :
        /\ \A i \in 1..n : FunctionOf(s[i]) = f <=> \E k \in 1..Len(cl) : at[k] = i
        /\ \A j, k \in 1..Len(cl) : j < k => at[j] < at[k]
        /\ \A k \in 1..Len(cl) : cl[k] = s[at[k]]
  BY DEF Picks, Picked
<1>2. \A k \in 1..Len(cl) : at[k] \in 1..n
  OBVIOUS
<1>3. \A i \in 1..n : FunctionOf(t[i]) = f <=> \E k \in 1..Len(cl) : at[k] = i
  BY <1>1
<1>4. \A k \in 1..Len(cl) : cl[k] = t[at[k]]
  BY <1>1, <1>2
<1>5. cl \in Seq(Range(cl))
  BY DEF Picks, Picked
<1>. QED BY <1>1, <1>3, <1>4, <1>5 DEF Picks, Picked

LEMMA PicksOther ==
  ASSUME NEW n \in Nat, NEW s, NEW cl, NEW f, Picks(cl, s, n, f), FunctionOf(s[n + 1]) # f
  PROVE  Picks(cl, s, n + 1, f)
<1>1. PICK at \in [1..Len(cl) -> 1..n] :
        /\ \A i \in 1..n : FunctionOf(s[i]) = f <=> \E k \in 1..Len(cl) : at[k] = i
        /\ \A j, k \in 1..Len(cl) : j < k => at[j] < at[k]
        /\ \A k \in 1..Len(cl) : cl[k] = s[at[k]]
  BY DEF Picks, Picked
<1>2. \A k \in 1..Len(cl) : at[k] \in 1..n /\ at[k] # n + 1
  OBVIOUS
<1>3. \A i \in 1..n + 1 : i \in 1..n \/ i = n + 1
  OBVIOUS
<1>4. \A i \in 1..n + 1 : FunctionOf(s[i]) = f <=> \E k \in 1..Len(cl) : at[k] = i
  BY <1>1, <1>2, <1>3
<1>5. at \in [1..Len(cl) -> 1..n + 1]
  OBVIOUS
<1>6. cl \in Seq(Range(cl))
  BY DEF Picks, Picked
<1>. QED BY <1>1, <1>4, <1>5, <1>6 DEF Picks, Picked

LEMMA PicksOne ==
  ASSUME NEW n \in Nat, NEW s, NEW cl, NEW f, Picks(cl, s, n, f), NEW c, c = s[n + 1], FunctionOf(c) = f
  PROVE  Picks(Append(cl, c), s, n + 1, f)
<1>. DEFINE more == Append(cl, c)
<1>1. PICK at \in [1..Len(cl) -> 1..n] :
        /\ \A i \in 1..n : FunctionOf(s[i]) = f <=> \E k \in 1..Len(cl) : at[k] = i
        /\ \A j, k \in 1..Len(cl) : j < k => at[j] < at[k]
        /\ \A k \in 1..Len(cl) : cl[k] = s[at[k]]
  BY DEF Picks, Picked
<1>2. cl \in Seq(Range(cl))
  BY DEF Picks, Picked
<1>3. PICK l \in Nat : l = Len(cl)
  BY <1>2
<1>4. /\ Len(more) = l + 1 /\ more[l + 1] = c
      /\ \A k \in 1..l : more[k] = cl[k]
      /\ Range(more) = Range(cl) \cup {c} /\ more \in Seq(Range(cl) \cup {c})
  <2>1. cl \in Seq(Range(cl) \cup {c}) /\ c \in Range(cl) \cup {c}
    BY <1>2
  <2>. QED BY <1>2, <1>3, <2>1, AppendProperties, RangeOfAppend
<1>. HIDE DEF more
<1>. DEFINE to == [k \in 1..l + 1 |-> IF k = l + 1 THEN n + 1 ELSE at[k]]
<1>5. \A k \in 1..l : at[k] \in 1..n
  BY <1>3
<1>6. \A k \in 1..l + 1 : k \in 1..l \/ k = l + 1
  BY <1>3
<1>7. to \in [1..l + 1 -> 1..n + 1] /\ to[l + 1] = n + 1
      /\ \A k \in 1..l : to[k] = at[k] /\ at[k] \in 1..n /\ k \in 1..l + 1 /\ k # l + 1
  <2>1. \A k \in 1..l + 1 : (IF k = l + 1 THEN n + 1 ELSE at[k]) \in 1..n + 1
    <3>. TAKE k \in 1..l + 1
    <3>1. CASE k = l + 1
      BY <3>1
    <3>2. CASE k # l + 1
      BY <1>5, <1>6, <3>2
    <3>. QED BY <3>1, <3>2
  <2>2. l + 1 \in 1..l + 1 /\ \A k \in 1..l : k \in 1..l + 1 /\ k # l + 1
    BY <1>3
  <2>. QED BY <1>5, <2>1, <2>2
<1>. HIDE DEF to
<1>8. \A i \in 1..n + 1 : FunctionOf(s[i]) = f <=> \E k \in 1..l + 1 : to[k] = i
  <2>. TAKE i \in 1..n + 1
  <2>1. CASE i = n + 1
    <3>1. l + 1 \in 1..l + 1
      BY <1>3
    <3>. QED BY <1>7, <2>1, <3>1
  <2>2. CASE i # n + 1
    <3>1. i \in 1..n
      BY <2>2
    <3>2. FunctionOf(s[i]) = f <=> \E k \in 1..l : at[k] = i
      BY <1>1, <1>3, <3>1
    <3>. QED BY <1>6, <1>7, <2>2, <3>2
  <2>. QED BY <2>1, <2>2
<1>9. \A j, k \in 1..l + 1 : j < k => to[j] < to[k]
  <2>. SUFFICES ASSUME NEW j \in 1..l + 1, NEW k \in 1..l + 1, j < k PROVE to[j] < to[k]
    OBVIOUS
  <2>1. j \in 1..l
    BY <1>3
  <2>2. CASE k = l + 1
    BY <1>7, <2>1, <2>2
  <2>3. CASE k \in 1..l
    BY <1>1, <1>3, <1>7, <2>1, <2>3
  <2>. QED BY <1>6, <2>2, <2>3
<1>10. \A k \in 1..l + 1 : more[k] = s[to[k]]
  <2>. TAKE k \in 1..l + 1
  <2>1. CASE k = l + 1
    BY <1>4, <1>7, <2>1
  <2>2. CASE k \in 1..l
    BY <1>1, <1>3, <1>4, <1>7, <2>2
  <2>. QED BY <1>6, <2>1, <2>2
<1>11. more \in Seq(Range(more))
  BY <1>4
<1>12. \E q \in [1..l + 1 -> 1..n + 1] :
         /\ \A i \in 1..n + 1 : FunctionOf(s[i]) = f <=> \E k \in 1..l + 1 : q[k] = i
         /\ \A j, k \in 1..l + 1 : j < k => q[j] < q[k]
         /\ \A k \in 1..l + 1 : more[k] = s[q[k]]
  BY <1>7, <1>8, <1>9, <1>10, Zenon
<1>13. Picked(more, l + 1, s, n + 1, f)
  BY <1>12, Zenon DEF Picked
<1>14. Picks(more, s, n + 1, f)
  BY <1>4, <1>11, <1>13 DEF Picks
<1>. QED BY <1>14 DEF more

LEMMA PicksNothing ==
  ASSUME NEW n \in Nat, NEW s, NEW f, \A i \in 1..n : FunctionOf(s[i]) # f
  PROVE  Picks(<<>>, s, n, f)
<1>1. Len(<<>>) = 0 /\ <<>> \in Seq(Range(<<>>)) /\ 1..0 = {}
  OBVIOUS
<1>2. PICK at \in [1..0 -> 1..n] : TRUE
  <2>1. [k \in 1..0 |-> 1] \in [1..0 -> 1..n]
    BY <1>1
  <2>. QED BY <2>1
<1>. QED BY <1>1, <1>2 DEF Picks, Picked


-----------------------------------------------------------------------------
(* create_managers: one function for each name, at its first clause.       *)
Heads(s) == \A c \in Range(s) : \E i \in FirstClauses(s) : FunctionOf(s[i]) = FunctionOf(c)

LEMMA HeadsEmpty == Heads(<<>>)
BY EmptyClauses DEF Heads

LEMMA HeadsAppend ==
  ASSUME NEW S, NEW s \in Seq(S), NEW e, Heads(s) PROVE Heads(Append(s, e))
<1>. DEFINE t == Append(s, e)
<1>. PICK n \in Nat : n = Len(s)
  OBVIOUS
<1>1. /\ DOMAIN s = 1..n /\ DOMAIN t = 1..n + 1 /\ t[n + 1] = e
      /\ \A i \in 1..n : t[i] = s[i]
      /\ Range(t) = Range(s) \cup {e}
  BY AppendProperties, RangeOfAppend
<1>. HIDE DEF t
<1>2. FirstClauses(s) \subseteq FirstClauses(t) \cap 1..n
  <2>. SUFFICES ASSUME NEW i \in FirstClauses(s) PROVE i \in FirstClauses(t) \cap 1..n
    OBVIOUS
  <2>1. i \in 1..n /\ \A j \in 1..i - 1 : j \in 1..n /\ FunctionOf(s[j]) # FunctionOf(s[i])
    BY <1>1 DEF FirstClauses
  <2>2. i \in 1..n + 1 /\ \A j \in 1..i - 1 : FunctionOf(t[j]) # FunctionOf(t[i])
    BY <1>1, <2>1
  <2>. QED BY <1>1, <2>1, <2>2 DEF FirstClauses
<1>3. \A c \in Range(s) : \E i \in FirstClauses(t) : FunctionOf(t[i]) = FunctionOf(c)
  BY <1>1, <1>2 DEF Heads
<1>4. CASE \E c \in Range(s) : FunctionOf(c) = FunctionOf(e)
  <2>1. \E i \in FirstClauses(t) : FunctionOf(t[i]) = FunctionOf(e)
    BY <1>3, <1>4
  <2>. QED BY <1>1, <1>3, <2>1 DEF Heads, t
<1>5. CASE \A c \in Range(s) : FunctionOf(c) # FunctionOf(e)
  <2>1. \A j \in 1..n : FunctionOf(s[j]) # FunctionOf(e)
    BY <1>1, <1>5 DEF Range
  <2>2. n + 1 \in FirstClauses(t)
    <3>1. n + 1 \in 1..n + 1 /\ n + 1 - 1 = n
      OBVIOUS
    <3>. QED BY <1>1, <2>1, <3>1 DEF FirstClauses
  <2>. QED BY <1>1, <1>3, <2>2 DEF Heads, t
<1>. QED BY <1>4, <1>5

LEMMA HeadsOnce ==
  ASSUME NEW S, NEW s \in Seq(S), NEW i \in FirstClauses(s), NEW j \in FirstClauses(s),
         FunctionOf(s[i]) = FunctionOf(s[j])
  PROVE  i = j
<1>1. /\ i \in 1..Len(s) /\ \A k \in 1..i - 1 : FunctionOf(s[k]) # FunctionOf(s[i])
      /\ j \in 1..Len(s) /\ \A k \in 1..j - 1 : FunctionOf(s[k]) # FunctionOf(s[j])
  BY DEF FirstClauses
<1>2. ~(i < j)
  BY <1>1
<1>3. ~(j < i)
  BY <1>1
<1>. QED BY <1>1, <1>2, <1>3

\* Each of a module's functions has one that tries its clauses.
Tried(m) ==
  /\ \A g \in m.managers : \E c \in Range(m.clauses) : g.function = FunctionOf(c)
  /\ \A c \in Range(m.clauses) : \E g \in m.managers : g.function = FunctionOf(c)
  /\ \A g, h \in m.managers : g.function = h.function => g = h

LEMMA CodeTried ==
  ASSUME FunctionsList \in DOMAIN ets, List \in Seq(Range(List)), Heads(List)
  PROVE  /\ Tried(ModuleCode)
         /\ \A g \in ModuleCode.managers : \E c \in Range(List) :
              g.function = FunctionOf(c) /\ g.clauses = ets[FunctionOf(c)]
<1>1. ModuleCode.clauses = List
  BY DEF ModuleCode, List
<1>2. ModuleCode.managers = {[at |-> i, function |-> FunctionOf(List[i]),
                              clauses |-> ets[FunctionOf(List[i])]] : i \in FirstClauses(List)}
  BY DEF ModuleCode, List
<1>3. \A i \in FirstClauses(List) : List[i] \in Range(List)
  BY DEF FirstClauses, Range
<1>4. \A g \in ModuleCode.managers : \E i \in FirstClauses(List) :
        /\ g = [at |-> i, function |-> FunctionOf(List[i]), clauses |-> ets[FunctionOf(List[i])]]
        /\ g.function = FunctionOf(List[i]) /\ g.clauses = ets[FunctionOf(List[i])]
  BY <1>2
<1>5. \A g \in ModuleCode.managers : \E c \in Range(List) :
        g.function = FunctionOf(c) /\ g.clauses = ets[FunctionOf(c)]
  BY <1>3, <1>4
<1>6. \A c \in Range(List) : \E g \in ModuleCode.managers : g.function = FunctionOf(c)
  <2>. TAKE c \in Range(List)
  <2>1. PICK i \in FirstClauses(List) : FunctionOf(List[i]) = FunctionOf(c)
    BY DEF Heads
  <2>. DEFINE g == [at |-> i, function |-> FunctionOf(List[i]),
                    clauses |-> ets[FunctionOf(List[i])]]
  <2>2. g \in ModuleCode.managers /\ g.function = FunctionOf(c)
    BY <1>2, <2>1
  <2>. QED BY <2>2
<1>7. ASSUME NEW g \in ModuleCode.managers, NEW h \in ModuleCode.managers, g.function = h.function
      PROVE  g = h
  <2>1. PICK i \in FirstClauses(List) :
          /\ g = [at |-> i, function |-> FunctionOf(List[i]), clauses |-> ets[FunctionOf(List[i])]]
          /\ g.function = FunctionOf(List[i])
    BY <1>4
  <2>2. PICK j \in FirstClauses(List) :
          /\ h = [at |-> j, function |-> FunctionOf(List[j]), clauses |-> ets[FunctionOf(List[j])]]
          /\ h.function = FunctionOf(List[j])
    BY <1>4
  <2>3. i = j
    BY <1>7, <2>1, <2>2, HeadsOnce
  <2>. QED BY <2>1, <2>2, <2>3
<1>. QED BY <1>1, <1>5, <1>6, <1>7 DEF Tried

-----------------------------------------------------------------------------
(* What the tables of clauses and functions hold while their module is     *)
(* open, of the clauses that are complete.                                 *)
Complete == IF Len(frames) = 3 THEN Len(drawn) - 1 ELSE Len(drawn)

Tabled ==
  /\ Len(frames) = 3 => Len(drawn) > 0 /\ drawn[Len(drawn)] = frames[3].name
  /\ \A i \in 1..Complete : drawn[i] \in ClausesOf(Mods) \cup Range(List)
  /\ \A t \in DOMAIN ets : t[1] = "clause" => FunctionOf(t) \in DOMAIN ets
  /\ \A c \in Range(List) : FunctionOf(c) \in DOMAIN ets
  /\ Heads(List)
  /\ \A m \in Mods : Tried(m)

Followed ==
  /\ \A f \in DOMAIN ets : f[1] = "function" => Picks(ets[f], drawn, Complete, f)
  /\ \A m \in Mods : \A g \in m.managers : Picks(g.clauses, drawn, Complete, g.function)

SourceOrder == Single => Tabled /\ (NamesOnce(Latest) => Followed)

LEMMA SameSourceOrder ==
  ASSUME Single, SourceOrder, Latest' = Latest, Complete' = Complete, UNCHANGED drawn,
         Mods' = Mods, List' = List,
         Len(frames') = 3 => Len(frames) = 3 /\ frames'[3].name = frames[3].name,
         \A t \in DOMAIN ets : t[1] \in {"clause", "function"} => ets'[t] = ets[t],
         \A t : t[1] \in {"clause", "function"} => (t \in DOMAIN ets' <=> t \in DOMAIN ets)
  PROVE  SourceOrder'
<1>1. Tabled'
  <2>1. \A c : FunctionOf(c)[1] = "function"
    BY TableNames
  <2>. QED BY <2>1 DEF SourceOrder, Tabled
<1>2. NamesOnce(Latest) => Followed'
  BY DEF SourceOrder, Followed
<1>. QED BY <1>1, <1>2 DEF SourceOrder

LEMMA StartSourceOrder ==
  ASSUME WalkInv, ~rescued, NEW prompt \in Inputs, StartTransform(prompt) PROVE SourceOrder'
<1>1. DOMAIN ets' = SetupTables /\ ets'[ModulesTable] = {}
  BY StartTables DEF WalkInv, CrashInv
<1>2. Mods' = {} /\ List' = <<>>
  BY <1>1, NamesDiffer DEF Mods, List
<1>3. Len(frames') = 1 /\ drawn' = <<>>
  BY DEF StartTransform
<1>4. Complete' = 0 /\ 1..0 = {}
  BY <1>3 DEF Complete
<1>5. \A t \in DOMAIN ets' : t[1] \notin {"clause", "function"}
  BY <1>1, TableNames
<1>. QED BY <1>2, <1>3, <1>4, <1>5, HeadsEmpty, EmptyClauses DEF SourceOrder, Tabled, Followed

LEMMA CallSourceOrder ==
  ASSUME WalkInv, Levelled, SourceOrder, Single', Emits \/ ExpandMacro \/ \E id : CompileCase(id)
  PROVE  SourceOrder'
<1>1. /\ Single /\ Latest' = Latest /\ UNCHANGED drawn
      /\ SameKinds(frames, frames') /\ Len(frames) \in 1..3
      /\ Mods' = Mods /\ List' = List
      /\ \A t \in DOMAIN ets : t[1] \in {"clause", "function"} => ets'[t] = ets[t]
      /\ \A t : t[1] \in {"clause", "function"} => (t \in DOMAIN ets' <=> t \in DOMAIN ets)
  BY CallEffect
<1>2. Complete' = Complete
  BY <1>1 DEF Complete, SameKinds
<1>3. Len(frames') = 3 => Len(frames) = 3 /\ frames'[3].name = frames[3].name
  <2>1. Len(frames) = 3 => 3 \in 1..Len(frames)
    OBVIOUS
  <2>. QED BY <1>1, <2>1 DEF SameKinds
<1>. QED BY <1>1, <1>2, <1>3, SameSourceOrder

LEMMA OpenModuleSourceOrder ==
  ASSUME WalkInv, Levelled, Levelled', SourceOrder, Single', OpenModule PROVE SourceOrder'
<1>1. /\ Single /\ Latest' = Latest /\ UNCHANGED drawn
      /\ Len(frames) = 1 /\ Len(frames') = 2 /\ Mods' = Mods /\ List' = List
  BY OpenModuleEffect
<1>2. Complete' = Complete
  BY <1>1 DEF Complete
<1>3. DOMAIN ets' = DOMAIN ets \cup TablesOfModule(todo[1].name)
  BY OpenModuleDomain
<1>4. \A t \in TablesOfModule(todo[1].name) : t[1] \notin {"clause", "function"}
  BY TableNames DEF TablesOfModule, ModuleTable
<1>5. \A t \in DOMAIN ets : t[1] \in {"clause", "function"} => ets'[t] = ets[t]
  BY OpenModuleTablesKept, TableNames
<1>. QED BY <1>1, <1>2, <1>3, <1>4, <1>5, SameSourceOrder


LEMMA OpenDefSourceOrder ==
  ASSUME WalkInv, Levelled, Levelled', Tracked, SourceOrder, Single', NEW id, OpenDef(id)
  PROVE  SourceOrder'
<1>. PICK clause : clause = frames'[3].name
  OBVIOUS
<1>1. /\ Single /\ Latest' = Latest /\ UNCHANGED ets
      /\ Len(frames) = 2 /\ Len(frames') = 3 /\ drawn' = Append(drawn, clause)
      /\ Mods' = Mods /\ List' = List
  BY OpenDefEffect
<1>2. drawn \in Seq(Range(drawn))
  BY <1>1 DEF Tracked, Placed
<1>3. PICK n \in Nat : n = Len(drawn)
  BY <1>2
<1>4. /\ Len(drawn') = n + 1 /\ drawn'[n + 1] = clause
      /\ \A i \in 1..n : drawn'[i] = drawn[i]
  <2>1. drawn \in Seq(Range(drawn) \cup {clause}) /\ clause \in Range(drawn) \cup {clause}
    BY <1>2
  <2>. QED BY <1>1, <1>3, <2>1, AppendProperties
<1>5. Complete = n /\ Complete' = n /\ n + 1 > 0
  BY <1>1, <1>3, <1>4 DEF Complete
<1>6. Tabled'
  <2>1. Tabled
    BY <1>1 DEF SourceOrder
  <2>. QED BY <1>1, <1>4, <1>5, <2>1 DEF Tabled
<1>7. ASSUME NamesOnce(Latest) PROVE Followed'
  <2>1. Followed
    BY <1>1, <1>7 DEF SourceOrder
  <2>2. \A cl, f : Picks(cl, drawn, n, f) => Picks(cl, drawn', n, f)
    BY <1>4, PicksSame
  <2>. QED BY <1>1, <1>5, <2>1, <2>2 DEF Followed
<1>. QED BY <1>1, <1>6, <1>7 DEF SourceOrder

\* The tables a def has when it is over.
LEMMA CloseDefTables ==
  ASSUME WalkInv, Levelled, SourceOrder, Single', CloseDef, NEW clause, clause = frames[3].name
  PROVE  /\ DOMAIN ets' = DOMAIN ets \cup {clause, FunctionOf(clause)}
         /\ \A t \in DOMAIN ets :
              t \notin {clause, FunctionOf(clause), FunctionsList, Predefines} => ets'[t] = ets[t]
         /\ ets'[Predefines] = ets[Predefines] \cup {clause}
         /\ ets'[clause] = InnerFrame.calls
         /\ ets'[FunctionOf(clause)] =
              Append(IF FunctionOf(clause) \in DOMAIN ets THEN ets[FunctionOf(clause)] ELSE <<>>, clause)
<1>1. /\ Single /\ FunctionsList \in DOMAIN ets
      /\ InnerFrame.name = clause /\ ClauseOf(Opener, clause)
  BY CloseDefEffect
<1>2. clause[1] = "clause"
  BY <1>1, ClauseFacts
<1>3. clause \in DOMAIN ets => FunctionOf(clause) \in DOMAIN ets
  BY <1>1, <1>2 DEF SourceOrder, Tabled
<1>4. DOMAIN ets' = DOMAIN ets \cup {clause, FunctionOf(clause)}
  BY <1>1, <1>3, CloseDefDomain DEF NewOfClause, TablesOfClause
<1>5. /\ \A t \in DOMAIN ets :
           t \notin {clause, FunctionOf(clause), FunctionsList, Predefines} => ets'[t] = ets[t]
      /\ ets'[Predefines] = ets[Predefines] \cup {clause}
      /\ ets'[clause] = InnerFrame.calls
      /\ FunctionOf(clause) \in DOMAIN ets =>
           ets'[FunctionOf(clause)] = Append(ets[FunctionOf(clause)], clause)
      /\ clause \notin DOMAIN ets /\ FunctionOf(clause) \notin DOMAIN ets =>
           ets'[FunctionOf(clause)] = Append(<<>>, clause)
  BY <1>1, <1>2, CloseDefTablesKept DEF WalkInv, CrashInv
<1>. QED BY <1>3, <1>4, <1>5

LEMMA CloseDefSourceOrder ==
  ASSUME WalkInv, Levelled, Tracked, SourceOrder, Single', CloseDef PROVE SourceOrder'
<1>. PICK clause : clause = frames[3].name
  OBVIOUS
<1>. DEFINE function == FunctionOf(clause)
<1>1. /\ Single /\ Latest' = Latest /\ UNCHANGED drawn
      /\ Len(frames) = 3 /\ Len(frames') = 2 /\ ClauseOf(Opener, clause) /\ Building = {clause}
      /\ Mods' = Mods /\ List' = Append(List, clause)
  BY CloseDefEffect
<1>2. clause[1] = "clause" /\ function[1] = "function"
  BY <1>1, ClauseFacts
<1>3. /\ DOMAIN ets' = DOMAIN ets \cup {clause, function}
      /\ \A t \in DOMAIN ets :
           t \notin {clause, function, FunctionsList, Predefines} => ets'[t] = ets[t]
      /\ ets'[function] = Append(IF function \in DOMAIN ets THEN ets[function] ELSE <<>>, clause)
  BY CloseDefTables
<1>4. drawn \in Seq(Range(drawn)) /\ List \in Seq(Range(List))
  BY <1>1 DEF Tracked, Placed
<1>5. Tabled
  BY <1>1 DEF SourceOrder
<1>6. PICK n \in Nat : n + 1 = Len(drawn)
  <2>1. Len(drawn) \in Nat /\ Len(drawn) > 0
    BY <1>1, <1>4, <1>5 DEF Tabled
  <2>2. Len(drawn) - 1 \in Nat /\ (Len(drawn) - 1) + 1 = Len(drawn)
    BY <2>1
  <2>. QED BY <2>2
<1>7. Complete = n /\ Complete' = n + 1 /\ drawn[n + 1] = clause
  BY <1>1, <1>5, <1>6 DEF Complete, Tabled
<1>8. Range(List') = Range(List) \cup {clause}
  BY <1>1, <1>4, RangeOfAppend
<1>9. FunctionsList[1] # "function" /\ Predefines[1] # "function"
      /\ \A c : FunctionOf(c)[1] = "function"
  BY TableNames
<1>10. Tabled'
  <2>1. \A i \in 1..n + 1 : drawn[i] \in ClausesOf(Mods) \cup Range(List')
    <3>. TAKE i \in 1..n + 1
    <3>1. CASE i \in 1..n
      BY <1>5, <1>7, <1>8, <3>1 DEF Tabled
    <3>2. CASE i = n + 1
      BY <1>7, <1>8, <3>2
    <3>. QED BY <3>1, <3>2
  <2>2. \A t \in DOMAIN ets' : t[1] = "clause" => FunctionOf(t) \in DOMAIN ets'
    BY <1>2, <1>3, <1>5 DEF Tabled
  <2>3. \A c \in Range(List') : FunctionOf(c) \in DOMAIN ets'
    BY <1>3, <1>5, <1>8 DEF Tabled
  <2>4. Heads(List')
    BY <1>1, <1>4, <1>5, HeadsAppend DEF Tabled
  <2>. QED BY <1>1, <1>5, <1>7, <2>1, <2>2, <2>3, <2>4 DEF Tabled
<1>11. ASSUME NamesOnce(Latest) PROVE Followed'
  <2>1. Followed
    BY <1>1, <1>11 DEF SourceOrder
  <2>2. \A c \in ClausesOf(Mods) : FunctionOf(c) # function
    BY <1>1, <1>11 DEF Tracked, Once, OpenedOnce
  <2>3. \A cl, f : Picks(cl, drawn, n, f) /\ f # function => Picks(cl, drawn, n + 1, f)
    BY <1>7, PicksOther
  <2>4. Picks(ets'[function], drawn, n + 1, function)
    <3>. DEFINE before == IF function \in DOMAIN ets THEN ets[function] ELSE <<>>
    <3>1. Picks(before, drawn, n, function)
      <4>1. CASE function \in DOMAIN ets
        <5>1. Picks(ets[function], drawn, n, function)
          BY <1>2, <1>7, <2>1, <4>1 DEF Followed
        <5>. QED BY <4>1, <5>1
      <4>2. CASE function \notin DOMAIN ets
        <5>1. \A i \in 1..n : FunctionOf(drawn[i]) # function
          BY <1>5, <1>7, <2>2, <4>2 DEF Tabled
        <5>2. Picks(<<>>, drawn, n, function)
          BY <5>1, PicksNothing
        <5>. QED BY <4>2, <5>2
      <4>. QED BY <4>1, <4>2
    <3>2. ets'[function] = Append(before, clause)
      BY <1>3
    <3>. HIDE DEF before
    <3>. QED BY <1>7, <3>1, <3>2, PicksOne
  <2>5. \A f \in DOMAIN ets' : f[1] = "function" => Picks(ets'[f], drawn, n + 1, f)
    <3>. SUFFICES ASSUME NEW f \in DOMAIN ets', f[1] = "function", f # function
                  PROVE  Picks(ets'[f], drawn, n + 1, f)
      BY <2>4
    <3>1. f \in DOMAIN ets /\ f \notin {clause, function, FunctionsList, Predefines}
      BY <1>2, <1>3, <1>9
    <3>2. ets'[f] = ets[f] /\ Picks(ets[f], drawn, n, f)
      BY <1>3, <1>7, <2>1, <3>1 DEF Followed
    <3>. QED BY <2>3, <3>2
  <2>6. \A m \in Mods : \A g \in m.managers : Picks(g.clauses, drawn, n + 1, g.function)
    <3>. TAKE m \in Mods
    <3>. TAKE g \in m.managers
    <3>1. \E c \in Range(m.clauses) : g.function = FunctionOf(c)
      BY <1>5 DEF Tabled, Tried
    <3>2. g.function # function
      BY <2>2, <3>1 DEF ClausesOf
    <3>. QED BY <1>7, <2>1, <2>3, <3>2 DEF Followed
  <2>. QED BY <1>1, <1>7, <2>5, <2>6 DEF Followed
<1>. QED BY <1>1, <1>10, <1>11 DEF SourceOrder

LEMMA CloseModuleSourceOrder ==
  ASSUME WalkInv, Levelled, Levelled', Tracked, SourceOrder, Single', CloseModule
  PROVE  SourceOrder'
<1>1. /\ Single /\ Single' /\ Latest' = Latest /\ UNCHANGED drawn /\ FunctionsList \in DOMAIN ets
      /\ Len(frames) = 2 /\ Len(frames') = 1
      /\ Mods' = Mods \cup {ModuleCode} /\ List' = <<>> /\ ModuleCode.clauses = List
  BY CloseModuleEffect
<1>2. Tabled /\ List \in Seq(Range(List))
  BY <1>1 DEF SourceOrder, Tracked, Placed
<1>3. /\ Tried(ModuleCode)
      /\ \A g \in ModuleCode.managers : \E c \in Range(List) :
           g.function = FunctionOf(c) /\ g.clauses = ets[FunctionOf(c)]
  BY <1>1, <1>2, CodeTried DEF Tabled
<1>4. \A t \in DOMAIN ets' : t[1] \notin {"clause", "function"}
  BY <1>1 DEF Levelled
<1>5. Complete' = Complete
  BY <1>1 DEF Complete
<1>6. ClausesOf(Mods') = ClausesOf(Mods) \cup Range(List)
  BY <1>1 DEF ClausesOf
<1>7. Tabled'
  <2>1. \A i \in 1..Complete' : drawn[i] \in ClausesOf(Mods') \cup Range(List')
    BY <1>2, <1>5, <1>6 DEF Tabled
  <2>2. \A m \in Mods' : Tried(m)
    BY <1>1, <1>2, <1>3 DEF Tabled
  <2>3. Heads(List') /\ Range(List') = {}
    BY <1>1, HeadsEmpty, EmptyClauses
  <2>4. Len(frames') # 3 /\ drawn' = drawn
    BY <1>1
  <2>5. \A t \in DOMAIN ets' : t[1] # "clause"
    BY <1>4
  <2>6. \A i \in 1..Complete' : drawn'[i] \in ClausesOf(Mods') \cup Range(List')
    BY <2>1, <2>4
  <2>. QED BY <2>2, <2>3, <2>4, <2>5, <2>6, Zenon DEF Tabled
<1>8. ASSUME NamesOnce(Latest) PROVE Followed'
  <2>1. Followed
    BY <1>1, <1>8 DEF SourceOrder
  <2>2. \A g \in ModuleCode.managers : Picks(g.clauses, drawn, Complete, g.function)
    <3>. TAKE g \in ModuleCode.managers
    <3>1. PICK c \in Range(List) : g.function = FunctionOf(c) /\ g.clauses = ets[FunctionOf(c)]
      BY <1>3
    <3>2. FunctionOf(c) \in DOMAIN ets /\ FunctionOf(c)[1] = "function"
      BY <1>2, TableNames DEF Tabled
    <3>. QED BY <2>1, <3>1, <3>2 DEF Followed
  <2>. QED BY <1>1, <1>4, <1>5, <2>1, <2>2 DEF Followed
<1>. QED BY <1>1, <1>7, <1>8 DEF SourceOrder

LEMMA SourceOrderStep ==
  WalkInv /\ Levelled /\ Levelled' /\ Tracked /\ SourceOrder /\ [Steps]_vars => SourceOrder'
<1>. SUFFICES ASSUME WalkInv, Levelled, Levelled', Tracked, SourceOrder, [Steps]_vars, Single'
              PROVE  SourceOrder'
  BY DEF SourceOrder
<1>1. phase' = "walk" /\ ~rescued'
  BY DEF Single
<1>2. ASSUME NEW prompt \in Inputs, StartTransform(prompt) PROVE SourceOrder'
  <2>1. ~rescued
    BY <1>1, <1>2 DEF StartTransform
  <2>. QED BY <1>2, <2>1, StartSourceOrder
<1>3. CASE UNCHANGED vars
  <2>1. /\ Single /\ Latest' = Latest /\ Complete' = Complete /\ UNCHANGED <<drawn, frames, ets>>
        /\ Mods' = Mods /\ List' = List
    BY <1>3, SameLatest DEF vars, history, Single, Complete, Mods, List
  <2>. QED BY <2>1, SameSourceOrder
<1>. QED BY <1>1, <1>2, <1>3, CallSourceOrder, OpenModuleSourceOrder, OpenDefSourceOrder,
            CloseDefSourceOrder, CloseModuleSourceOrder, WalkSteps


-----------------------------------------------------------------------------
(* The row of predefines: what the prompt's program will define.           *)
ManagersOf(mods) == {g.function : g \in UNION {m.managers : m \in mods}}

Declared ==
  Single =>
    /\ ets[Predefines] = Range(Cases) \cup ManagersOf(Mods) \cup ClausesOf(Mods) \cup Range(List)
    /\ \A f \in DOMAIN ets :
         f[1] = "function" => ets[f] \in Seq(Range(ets[f])) /\ Range(ets[f]) \subseteq Range(List)
    /\ \A m \in Mods : \A g \in m.managers : Range(g.clauses) \subseteq Range(m.clauses)

LEMMA EmptyManagers ==
  /\ ManagersOf({}) = {} /\ ClausesOf({}) = {}
  /\ \A mods, m : ManagersOf(mods \cup {m}) = ManagersOf(mods) \cup {g.function : g \in m.managers}
BY DEF ManagersOf, ClausesOf

LEMMA StartDeclared ==
  ASSUME WalkInv, ~rescued, NEW prompt \in Inputs, StartTransform(prompt) PROVE Declared'
<1>1. /\ DOMAIN ets' = SetupTables /\ ets'[ModulesTable] = {} /\ ets'[Predefines] = {}
      /\ Cases' = <<>>
  BY StartTables, StartRow DEF WalkInv, CrashInv
<1>2. Mods' = {} /\ List' = <<>>
  BY <1>1, NamesDiffer DEF Mods, List
<1>3. \A t \in DOMAIN ets' : t[1] # "function"
  BY <1>1, TableNames
<1>. QED BY <1>1, <1>2, <1>3, EmptyManagers, EmptyClauses DEF Declared

LEMMA CallDeclared ==
  ASSUME WalkInv, Levelled, Declared, Single', Emits \/ ExpandMacro \/ \E id : CompileCase(id)
  PROVE  Declared'
<1>1. /\ Single /\ Mods' = Mods /\ List' = List
      /\ \A t \in DOMAIN ets : t[1] \in {"clause", "function"} => ets'[t] = ets[t]
      /\ \A t : t[1] \in {"clause", "function"} => (t \in DOMAIN ets' <=> t \in DOMAIN ets)
  BY CallEffect
<1>2. \/ ets'[Predefines] = ets[Predefines] /\ Cases' = Cases
      \/ \E name : /\ ets'[Predefines] = ets[Predefines] \cup {name}
                   /\ Range(Cases') = Range(Cases) \cup {name}
  <2>1. Emits \/ ExpandMacro => ets'[Predefines] = ets[Predefines] /\ Cases' = Cases
    BY DropSteps DEF Cases
  <2>. QED BY <2>1, CaseTablesKept, CaseRow DEF WalkInv, CrashInv
<1>3. ets'[Predefines] = Range(Cases') \cup ManagersOf(Mods') \cup ClausesOf(Mods') \cup Range(List')
  <2>1. ets[Predefines] = Range(Cases) \cup ManagersOf(Mods) \cup ClausesOf(Mods) \cup Range(List)
    BY <1>1 DEF Declared
  <2>2. CASE ets'[Predefines] = ets[Predefines] /\ Cases' = Cases
    BY <1>1, <2>1, <2>2
  <2>3. ASSUME NEW name, ets'[Predefines] = ets[Predefines] \cup {name},
               Range(Cases') = Range(Cases) \cup {name}
        PROVE  ets'[Predefines]
                 = Range(Cases') \cup ManagersOf(Mods') \cup ClausesOf(Mods') \cup Range(List')
    BY <1>1, <2>1, <2>3
  <2>. QED BY <1>2, <2>2, <2>3
<1>4. \A f \in DOMAIN ets' :
        f[1] = "function" => ets'[f] \in Seq(Range(ets'[f])) /\ Range(ets'[f]) \subseteq Range(List')
  BY <1>1 DEF Declared
<1>5. \A m \in Mods' : \A g \in m.managers : Range(g.clauses) \subseteq Range(m.clauses)
  BY <1>1 DEF Declared
<1>. QED BY <1>3, <1>4, <1>5, Zenon DEF Declared

LEMMA OpenModuleDeclared ==
  ASSUME WalkInv, Levelled, Levelled', Declared, Single', OpenModule PROVE Declared'
<1>1. Single /\ Mods' = Mods /\ List' = List
  BY OpenModuleEffect
<1>2. DOMAIN ets' = DOMAIN ets \cup TablesOfModule(todo[1].name)
  BY OpenModuleDomain
<1>3. \A t \in TablesOfModule(todo[1].name) : t[1] # "function"
  BY TableNames DEF TablesOfModule, ModuleTable
<1>4. \A t \in DOMAIN ets : t # GuardsTable => ets'[t] = ets[t]
  BY OpenModuleTablesKept
<1>5. CasesTable \in DOMAIN ets /\ Predefines \in DOMAIN ets
  BY <1>1, SetupThere, TableNames, OtherTables DEF WalkInv, CrashInv, Single
<1>6. Cases' = Cases /\ ets'[Predefines] = ets[Predefines]
  BY <1>4, <1>5, TableNames DEF Cases
<1>7. \A f \in DOMAIN ets' : f[1] = "function" => f \in DOMAIN ets /\ ets'[f] = ets[f]
  BY <1>2, <1>3, <1>4, TableNames
<1>. QED BY <1>1, <1>6, <1>7 DEF Declared

LEMMA OpenDefDeclared ==
  ASSUME WalkInv, Levelled, Levelled', Declared, Single', NEW id, OpenDef(id) PROVE Declared'
<1>1. Single /\ UNCHANGED ets /\ Mods' = Mods /\ List' = List
  BY OpenDefEffect
<1>. QED BY <1>1 DEF Declared, Cases

LEMMA CloseDefDeclared ==
  ASSUME WalkInv, Levelled, Tracked, SourceOrder, Declared, Single', CloseDef PROVE Declared'
<1>. PICK clause : clause = frames[3].name
  OBVIOUS
<1>. DEFINE function == FunctionOf(clause)
            before == IF function \in DOMAIN ets THEN ets[function] ELSE <<>>
<1>1. Single /\ Mods' = Mods /\ List' = Append(List, clause) /\ ClauseOf(Opener, clause)
  BY CloseDefEffect
<1>2. /\ DOMAIN ets' = DOMAIN ets \cup {clause, function}
      /\ \A t \in DOMAIN ets :
           t \notin {clause, function, FunctionsList, Predefines} => ets'[t] = ets[t]
      /\ ets'[Predefines] = ets[Predefines] \cup {clause}
      /\ ets'[function] = Append(before, clause)
  BY CloseDefTables
<1>3. List \in Seq(Range(List))
  BY <1>1 DEF Tracked, Placed
<1>4. Range(List') = Range(List) \cup {clause}
  BY <1>1, <1>3, RangeOfAppend
<1>5. clause[1] = "clause" /\ function[1] = "function"
      /\ FunctionsList[1] # "function" /\ Predefines[1] # "function"
  BY <1>1, ClauseFacts, TableNames
<1>6. Cases' = Cases
  BY QuietRow DEF WalkInv, CrashInv, QuietStep, Single, CloseDef
<1>7. before \in Seq(Range(before)) /\ Range(before) \subseteq Range(List)
  <2>1. CASE function \in DOMAIN ets
    <3>1. ets[function] \in Seq(Range(ets[function])) /\ Range(ets[function]) \subseteq Range(List)
      BY <1>1, <1>5, <2>1 DEF Declared
    <3>. QED BY <2>1, <3>1
  <2>2. CASE function \notin DOMAIN ets
    <3>1. <<>> \in Seq(Range(<<>>)) /\ Range(<<>>) \subseteq Range(List)
      BY EmptyClauses
    <3>. QED BY <2>2, <3>1
  <2>. QED BY <2>1, <2>2
<1>. HIDE DEF before
<1>8. /\ Range(ets'[function]) = Range(before) \cup {clause}
      /\ ets'[function] \in Seq(Range(ets'[function]))
  <2>1. before \in Seq(Range(before) \cup {clause}) /\ clause \in Range(before) \cup {clause}
    BY <1>7
  <2>. QED BY <1>2, <1>7, <2>1, RangeOfAppend, AppendProperties
<1>9. ASSUME NEW f \in DOMAIN ets', f[1] = "function"
      PROVE  ets'[f] \in Seq(Range(ets'[f])) /\ Range(ets'[f]) \subseteq Range(List')
  <2>1. CASE f = function
    BY <1>4, <1>7, <1>8, <2>1
  <2>2. CASE f # function
    <3>1. f \in DOMAIN ets /\ ets'[f] = ets[f]
      BY <1>2, <1>5, <1>9, <2>2
    <3>. QED BY <1>1, <1>4, <1>9, <3>1 DEF Declared
  <2>. QED BY <2>1, <2>2
<1>10. ets'[Predefines] = Range(Cases') \cup ManagersOf(Mods') \cup ClausesOf(Mods') \cup Range(List')
  BY <1>1, <1>2, <1>4, <1>6 DEF Declared
<1>. QED BY <1>1, <1>9, <1>10 DEF Declared

LEMMA CloseModuleDeclared ==
  ASSUME WalkInv, Levelled, Levelled', Tracked, SourceOrder, Declared, Single', CloseModule
  PROVE  Declared'
<1>1. /\ Single /\ Single' /\ FunctionsList \in DOMAIN ets /\ Len(frames') = 1
      /\ Mods' = Mods \cup {ModuleCode} /\ List' = <<>> /\ ModuleCode.clauses = List
  BY CloseModuleEffect
<1>2. \A t \in DOMAIN ets' : t[1] # "function"
  BY <1>1 DEF Levelled
<1>3. ets'[Predefines] = ets[Predefines] \cup {g.function : g \in ModuleCode.managers}
  BY <1>1, CloseModuleTablesKept DEF WalkInv, CrashInv
<1>4. Cases' = Cases
  BY QuietRow DEF WalkInv, CrashInv, QuietStep, Single, CloseModule
<1>5. \A g \in ModuleCode.managers : \E c \in Range(List) :
        g.function = FunctionOf(c) /\ g.clauses = ets[FunctionOf(c)]
  BY <1>1, CodeTried DEF Tracked, Placed, SourceOrder, Tabled
<1>6. \A g \in ModuleCode.managers : Range(g.clauses) \subseteq Range(List)
  <2>1. \A c \in Range(List) : FunctionOf(c) \in DOMAIN ets /\ FunctionOf(c)[1] = "function"
    BY <1>1, TableNames DEF SourceOrder, Tabled
  <2>. QED BY <1>1, <1>5, <2>1 DEF Declared
<1>7. ClausesOf(Mods') = ClausesOf(Mods) \cup Range(List)
  BY <1>1 DEF ClausesOf
<1>8. ManagersOf(Mods') = ManagersOf(Mods) \cup {g.function : g \in ModuleCode.managers}
  BY <1>1, EmptyManagers
<1>9. Range(List') = {}
  BY <1>1, EmptyClauses
<1>10. ets'[Predefines] = Range(Cases') \cup ManagersOf(Mods') \cup ClausesOf(Mods') \cup Range(List')
  BY <1>1, <1>3, <1>4, <1>7, <1>8, <1>9 DEF Declared
<1>11. \A m \in Mods' : \A g \in m.managers : Range(g.clauses) \subseteq Range(m.clauses)
  BY <1>1, <1>6 DEF Declared
<1>. QED BY <1>2, <1>10, <1>11 DEF Declared

LEMMA DeclaredStep ==
  WalkInv /\ Levelled /\ Levelled' /\ Tracked /\ SourceOrder /\ Declared /\ [Steps]_vars => Declared'
<1>. SUFFICES ASSUME WalkInv, Levelled, Levelled', Tracked, SourceOrder, Declared, [Steps]_vars, Single'
              PROVE  Declared'
  BY DEF Declared
<1>1. phase' = "walk" /\ ~rescued'
  BY DEF Single
<1>2. ASSUME NEW prompt \in Inputs, StartTransform(prompt) PROVE Declared'
  <2>1. ~rescued
    BY <1>1, <1>2 DEF StartTransform
  <2>. QED BY <1>2, <2>1, StartDeclared
<1>3. CASE UNCHANGED vars
  <2>1. Single /\ UNCHANGED ets /\ Mods' = Mods /\ List' = List /\ Cases' = Cases
    BY <1>3, SameLatest DEF vars, history, Single, Mods, List, Cases
  <2>. QED BY <2>1 DEF Declared
<1>. QED BY <1>1, <1>2, <1>3, CallDeclared, OpenModuleDeclared, OpenDefDeclared, CloseDefDeclared,
            CloseModuleDeclared, WalkSteps



-----------------------------------------------------------------------------
(* What is called: what was emitted, and the functions of cases.           *)
Bodies(prompt) == UNION {Range(c.body) : c \in OuterCases(prompt)}

EmittedNames == {NameOf(i) : i \in emitted}

Known == EmittedNames \cup Range(Cases)

LEMMA EmitsItems ==
  ASSUME Emits \/ ExpandMacro
  PROVE  \E items : /\ frames' = Calling({NameOf(i) : i \in items}) /\ emitted' = emitted \cup items
                    /\ UNCHANGED <<ets, program, drawn>>
BY DEF Emits, ExpandMacro, Emit

LEMMA EmittedNamesAdded ==
  ASSUME NEW items, emitted' = emitted \cup items
  PROVE  EmittedNames' = EmittedNames \cup {NameOf(i) : i \in items}
BY DEF EmittedNames

\* No other step of the walk emits.
LEMMA SameEmitted ==
  ASSUME OpenModule \/ CloseDef \/ CloseModule \/ \E id : OpenDef(id) \/ CompileCase(id)
  PROVE  EmittedNames' = EmittedNames
<1>1. UNCHANGED emitted
  BY Zenon DEF OpenModule, CloseDef, CloseModule, OpenDef, CompileCase, Raise, history
<1>. QED BY <1>1 DEF EmittedNames

WalkCalls ==
  Single =>
    /\ \A i \in 1..Len(frames) : frames[i].calls \subseteq Known
    /\ \A t \in DOMAIN ets : t[1] = "clause" => ets[t] \subseteq Known
    /\ \A m \in Mods : m.calls \subseteq Known
    /\ \A t \in DOMAIN ets : t[1] = "case" => ets[t] \in Seq(Bodies(Latest))
    /\ \A c \in Range(List) : c \in DOMAIN ets /\ c[1] = "clause"
    /\ \A c \in ClausesOf(Mods) : c[1] = "clause"

LEMMA CallAddedCalls ==
  ASSUME NEW s, Shape(s), NEW k \in 1..Len(s), NEW c, NEW t, CallAdded(s, t, k, c)
  PROVE  Len(t) = Len(s) /\ \A i \in 1..Len(s) : t[i].calls = IF i = k THEN c ELSE s[i].calls
<1>. DEFINE g == [s[k] EXCEPT !.calls = c]
<1>1. IsFrame(s[k]) /\ DOMAIN s = 1..Len(s) /\ Len(s) \in Nat
  BY ShapeLen DEF Shape
<1>2. g.calls = c
  BY <1>1 DEF IsFrame
<1>3. t = [s EXCEPT ![k] = g]
  BY DEF CallAdded
<1>. HIDE DEF g
<1>4. \A i \in 1..Len(s) : t[i] = IF i = k THEN g ELSE s[i]
  BY <1>1, <1>3
<1>5. Len(t) = Len(s)
  BY CallShape DEF SameKinds
<1>. QED BY <1>2, <1>4, <1>5

LEMMA CallingCalls ==
  ASSUME TransformInv, phase \in {"walk", "cases"}, NEW names, frames' = Calling(names)
  PROVE  /\ Len(frames') = Len(frames)
         /\ \A i \in 1..Len(frames) : frames'[i].calls \subseteq frames[i].calls \cup names
<1>. DEFINE k == Len(frames)
            c == frames[k].calls \cup names
<1>1. k \in 1..Len(frames) /\ Shape(frames)
  BY ShapeLen DEF TransformInv, Stack
<1>2. CallAdded(frames, frames', k, c)
  BY Zenon DEF Calling, CallAdded
<1>. HIDE DEF k, c
<1>3. Len(frames') = Len(frames)
      /\ \A i \in 1..Len(frames) : frames'[i].calls = IF i = k THEN c ELSE frames[i].calls
  BY <1>1, <1>2, CallAddedCalls
<1>. QED BY <1>3 DEF c

LEMMA CloseModuleCalls ==
  ASSUME TransformInv, CloseModule, FunctionsList \in DOMAIN ets
  PROVE  \A i \in 1..Len(frames') : frames'[i].calls \subseteq frames[i].calls \cup InnerFrame.calls
<1>. DEFINE outer == SubSeq(frames, 1, Len(frames) - 1)
            calls == outer[Len(outer)].calls \cup InnerFrame.calls
<1>1. frames' = [outer EXCEPT ![Len(outer)].calls = calls]
  BY Zenon DEF CloseModule
<1>2. Len(frames) > 1 /\ Len(frames') = Len(frames) - 1 /\ Len(frames) \in Nat
  BY CloseModuleStack, ShapeLen DEF TransformInv
<1>3. Shape(outer) /\ Len(outer) = Len(frames) - 1
      /\ \A i \in 1..Len(outer) : outer[i] = frames[i]
  BY <1>2, PopStack
<1>4. CallAdded(outer, frames', Len(outer), calls)
  BY <1>1, Zenon DEF CallAdded
<1>. HIDE DEF outer
<1>5. Len(outer) \in 1..Len(outer)
  BY <1>2, <1>3
<1>. HIDE DEF calls
<1>6. \A i \in 1..Len(outer) : frames'[i].calls = IF i = Len(outer) THEN calls ELSE outer[i].calls
  BY <1>3, <1>4, <1>5, CallAddedCalls
<1>. QED BY <1>2, <1>3, <1>5, <1>6 DEF calls

LEMMA PushedCalls ==
  ASSUME TransformInv, NEW k, NEW n, frames' = Append(frames, Frame(k, n))
  PROVE  /\ Len(frames) \in Nat /\ Len(frames') = Len(frames) + 1
         /\ \A i \in 1..Len(frames) : frames'[i] = frames[i]
         /\ frames'[Len(frames) + 1].calls = {}
<1>. DEFINE f == Frame(k, n)
<1>1. IsFrame(f) /\ f.calls = {}
  BY FrameIsFrame DEF Frame
<1>2. frames' = Append(frames, f)
  OBVIOUS
<1>. HIDE DEF f
<1>. QED BY <1>1, <1>2, PushShape, ShapeLen DEF TransformInv

\* The calls in the frames stay known when one is put on them.
LEMMA PushedKnown ==
  ASSUME TransformInv, NEW k, NEW n, frames' = Append(frames, Frame(k, n)),
         NEW S, \A i \in 1..Len(frames) : frames[i].calls \subseteq S
  PROVE  \A i \in 1..Len(frames') : frames'[i].calls \subseteq S
<1>1. /\ Len(frames) \in Nat /\ Len(frames') = Len(frames) + 1
      /\ \A i \in 1..Len(frames) : frames'[i] = frames[i]
      /\ frames'[Len(frames) + 1].calls = {}
  BY PushedCalls
<1>2. \A i \in 1..Len(frames') : i \in 1..Len(frames) \/ i = Len(frames) + 1
  BY <1>1
<1>. QED BY <1>1, <1>2

\* The item the walk meets is one of the prompt.
LEMMA MetItem ==
  ASSUME WalkInv, phase = "walk", todo # <<>>, todo[1].op # "end"
  PROVE  todo[1] \in Walked(Latest)
<1>1. Pending(Latest, todo)
  BY DEF WalkInv, CrashInv, Ordered
<1>2. todo[1] \in Walked(Latest) \cup Ends
  BY <1>1, TailItems DEF Pending
<1>. QED BY <1>2, EndsAreNoItems

LEMMA StartCalls ==
  ASSUME WalkInv, ~rescued, NEW prompt \in Inputs, StartTransform(prompt) PROVE WalkCalls'
<1>1. DOMAIN ets' = SetupTables /\ ets'[ModulesTable] = {}
  BY StartTables DEF WalkInv, CrashInv
<1>2. Mods' = {} /\ List' = <<>> /\ ClausesOf({}) = {} /\ Range(<<>>) = {}
  BY <1>1, NamesDiffer, EmptyManagers, EmptyClauses DEF Mods, List
<1>3. frames' = <<Frame("main", <<"main">>)>>
  BY DEF StartTransform
<1>4. \A i \in 1..Len(frames') : frames'[i].calls = {}
  BY <1>3 DEF Frame
<1>5. \A t \in DOMAIN ets' : t[1] \notin {"case", "clause"}
  BY <1>1, TableNames
<1>. QED BY <1>2, <1>4, <1>5 DEF WalkCalls


LEMMA CallWalkCalls ==
  ASSUME WalkInv, Levelled, WalkCalls, Single', Emits \/ ExpandMacro PROVE WalkCalls'
<1>1. /\ Single /\ Latest' = Latest /\ Mods' = Mods /\ List' = List
  BY CallEffect
<1>. PICK items : /\ frames' = Calling({NameOf(i) : i \in items}) /\ emitted' = emitted \cup items
                  /\ UNCHANGED <<ets, program, drawn>>
  BY EmitsItems
<1>. PICK names : names = {NameOf(i) : i \in items}
  OBVIOUS
<1>2. phase = "walk" /\ frames' = Calling(names) /\ UNCHANGED ets
  BY <1>1 DEF Single
<1>3. Known' = Known \cup names
  BY <1>1, <1>2, EmittedNamesAdded DEF Known, Cases
<1>4. Len(frames') = Len(frames)
      /\ \A i \in 1..Len(frames) : frames'[i].calls \subseteq frames[i].calls \cup names
  BY <1>2, CallingCalls DEF WalkInv, CrashInv, RowInv
<1>5. \A i \in 1..Len(frames') : frames'[i].calls \subseteq Known'
  BY <1>1, <1>3, <1>4 DEF WalkCalls
<1>. QED BY <1>1, <1>2, <1>3, <1>5 DEF WalkCalls

LEMMA CaseWalkCalls ==
  ASSUME WalkInv, Levelled, WalkCalls, Single', NEW id, CompileCase(id) PROVE WalkCalls'
<1>. PICK name : name = CaseTable(id)
  OBVIOUS
<1>. PICK body : body = todo[1].body
  OBVIOUS
<1>1. /\ Single /\ Latest' = Latest /\ Mods' = Mods /\ List' = List
      /\ \A t \in DOMAIN ets : t[1] \in {"clause", "function"} => ets'[t] = ets[t]
      /\ \A t : t[1] \in {"clause", "function"} => (t \in DOMAIN ets' <=> t \in DOMAIN ets)
  BY CallEffect
<1>. PICK new : new = {name}
  OBVIOUS
<1>2. phase = "walk" /\ todo # <<>> /\ todo[1].op = "case" /\ frames' = Calling(new)
  BY <1>1, Zenon DEF CompileCase, At, Next_item, Single
<1>3. Range(Cases') = Range(Cases) \cup {name}
  BY CaseRow DEF WalkInv, CrashInv
<1>4. Known' = Known \cup {name}
  BY <1>3, SameEmitted DEF Known
<1>5. Len(frames') = Len(frames)
      /\ \A i \in 1..Len(frames) : frames'[i].calls \subseteq frames[i].calls \cup new
  BY <1>2, CallingCalls DEF WalkInv, CrashInv, RowInv
<1>6. \A i \in 1..Len(frames') : frames'[i].calls \subseteq Known'
  BY <1>1, <1>4, <1>5 DEF WalkCalls
<1>7. body \in Seq(Bodies(Latest))
  <2>1. todo[1] \in OuterCases(Latest) /\ Parsed(Latest)
    BY <1>2, MetItem, LatestParsed DEF OuterCases, WalkInv, CrashInv
  <2>3. todo[1] \in Visited(Latest)
    BY <2>1 DEF OuterCases, Visited
  <2>2. body \in Seq(Range(body)) /\ Range(body) \subseteq Bodies(Latest)
    BY <2>1, <2>3 DEF Parsed, Bodies
  <2>. QED BY <2>2
<1>8. /\ DOMAIN ets' = DOMAIN ets \cup {name}
      /\ \A t \in DOMAIN ets : t[1] = "case" /\ t # name => ets'[t] = ets[t]
      /\ ets'[name] = (IF name \in DOMAIN ets THEN ets[name] ELSE <<>>) \o body
      /\ name[1] = "case"
  BY CaseDomain, CaseTablesKept, TableNames DEF WalkInv, CrashInv
<1>9. ets'[name] \in Seq(Bodies(Latest))
  <2>. DEFINE before == IF name \in DOMAIN ets THEN ets[name] ELSE <<>>
  <2>1. before \in Seq(Bodies(Latest))
    BY <1>1, <1>8 DEF WalkCalls
  <2>. HIDE DEF before
  <2>2. before \o body \in Seq(Bodies(Latest))
    BY <1>7, <2>1
  <2>. QED BY <1>8, <2>2 DEF before
<1>10. \A t \in DOMAIN ets' : t[1] = "case" => ets'[t] \in Seq(Bodies(Latest))
  BY <1>1, <1>8, <1>9 DEF WalkCalls
<1>11. \A t \in DOMAIN ets' : t[1] = "clause" => ets'[t] \subseteq Known'
  BY <1>1, <1>4 DEF WalkCalls
<1>12. \A m \in Mods' : m.calls \subseteq Known'
  BY <1>1, <1>4 DEF WalkCalls
<1>13. \A c \in Range(List') : c \in DOMAIN ets' /\ c[1] = "clause"
  BY <1>1, <1>8 DEF WalkCalls
<1>14. \A c \in ClausesOf(Mods') : c[1] = "clause"
  BY <1>1 DEF WalkCalls
<1>. QED BY <1>1, <1>6, <1>10, <1>11, <1>12, <1>13, <1>14, Zenon DEF WalkCalls

LEMMA OpenModuleCalls ==
  ASSUME WalkInv, Levelled, Levelled', WalkCalls, Single', OpenModule PROVE WalkCalls'
<1>1. Single /\ Latest' = Latest /\ Mods' = Mods /\ List' = List
  BY OpenModuleEffect
<1>2. frames' = Append(frames, Frame("module", todo[1].name))
      /\ DOMAIN ets' = DOMAIN ets \cup TablesOfModule(todo[1].name)
  BY OpenModuleDomain DEF OpenModule
<1>3. \A t \in TablesOfModule(todo[1].name) : t[1] \notin {"case", "clause"}
  BY TableNames DEF TablesOfModule, ModuleTable
<1>4. \A t \in DOMAIN ets : t # GuardsTable => ets'[t] = ets[t]
  BY OpenModuleTablesKept
<1>5. CasesTable \in DOMAIN ets
  BY <1>1, SetupThere, OtherTables DEF WalkInv, CrashInv, Single
<1>6. Known' = Known
  BY <1>4, <1>5, TableNames, SameEmitted DEF Known, Cases
<1>7. \A i \in 1..Len(frames') : frames'[i].calls \subseteq Known
  <2>. PICK k, n : k = "module" /\ n = todo[1].name
    OBVIOUS
  <2>1. frames' = Append(frames, Frame(k, n))
    BY <1>2
  <2>. QED BY <1>1, <2>1, PushedKnown DEF WalkInv, CrashInv, RowInv, WalkCalls
<1>8. \A t \in DOMAIN ets' : t[1] \in {"case", "clause"} => t \in DOMAIN ets /\ ets'[t] = ets[t]
  BY <1>2, <1>3, <1>4, TableNames
<1>. QED BY <1>1, <1>2, <1>6, <1>7, <1>8 DEF WalkCalls

LEMMA OpenDefCalls ==
  ASSUME WalkInv, Levelled, Levelled', WalkCalls, Single', NEW id, OpenDef(id) PROVE WalkCalls'
<1>1. Single /\ Latest' = Latest /\ UNCHANGED ets /\ Mods' = Mods /\ List' = List
  BY OpenDefEffect
<1>2. PICK n : frames' = Append(frames, Frame("def", n))
  BY DEF OpenDef
<1>3. Known' = Known
  BY <1>1, SameEmitted DEF Known, Cases
<1>4. \A i \in 1..Len(frames') : frames'[i].calls \subseteq Known
  BY <1>1, <1>2, PushedKnown DEF WalkInv, CrashInv, RowInv, WalkCalls
<1>. QED BY <1>1, <1>3, <1>4 DEF WalkCalls

LEMMA CloseDefCalls ==
  ASSUME WalkInv, Levelled, Tracked, SourceOrder, WalkCalls, Single', CloseDef PROVE WalkCalls'
<1>. PICK clause : clause = frames[3].name
  OBVIOUS
<1>. PICK function : function = FunctionOf(clause)
  OBVIOUS
<1>1. /\ Single /\ Latest' = Latest /\ Mods' = Mods /\ List' = Append(List, clause)
      /\ ClauseOf(Opener, clause) /\ Len(frames) = 3 /\ Len(frames') = 2 /\ InnerFrame = frames[3]
      /\ FunctionsList \in DOMAIN ets
  BY CloseDefEffect
<1>2. /\ DOMAIN ets' = DOMAIN ets \cup {clause, function}
      /\ \A t \in DOMAIN ets :
           t \notin {clause, function, FunctionsList, Predefines} => ets'[t] = ets[t]
      /\ ets'[clause] = InnerFrame.calls
  BY CloseDefTables
<1>3. Range(List') = Range(List) \cup {clause}
  BY <1>1, RangeOfAppend DEF Tracked, Placed
<1>4. clause[1] = "clause" /\ function[1] = "function"
      /\ FunctionsList[1] \notin {"case", "clause"} /\ Predefines[1] \notin {"case", "clause"}
  BY <1>1, ClauseFacts, TableNames
<1>5. Known' = Known
  <2>1. Cases' = Cases
    BY <1>1, QuietRow DEF WalkInv, CrashInv, QuietStep, Single
  <2>. QED BY <2>1, SameEmitted DEF Known
<1>6. \A i \in 1..2 : frames'[i] = frames[i]
  BY <1>1, CloseDefStack DEF WalkInv, CrashInv, RowInv
<1>7. \A i \in 1..3 : frames[i].calls \subseteq Known
  BY <1>1 DEF WalkCalls
<1>8. \A i \in 1..Len(frames') : frames'[i].calls \subseteq Known
  BY <1>1, <1>6, <1>7
<1>9. ets'[clause] \subseteq Known
  BY <1>1, <1>2, <1>7
<1>10. \A t \in DOMAIN ets' : t[1] = "clause" => ets'[t] \subseteq Known
  BY <1>1, <1>2, <1>4, <1>9 DEF WalkCalls
<1>11. \A t \in DOMAIN ets' : t[1] = "case" => ets'[t] \in Seq(Bodies(Latest))
  BY <1>1, <1>2, <1>4 DEF WalkCalls
<1>12. \A c \in Range(List') : c \in DOMAIN ets' /\ c[1] = "clause"
  BY <1>1, <1>2, <1>3, <1>4 DEF WalkCalls
<1>. QED BY <1>1, <1>5, <1>8, <1>10, <1>11, <1>12 DEF WalkCalls

LEMMA CloseModuleWalkCalls ==
  ASSUME WalkInv, Levelled, Levelled', Tracked, WalkCalls, Single', CloseModule PROVE WalkCalls'
<1>1. /\ Single /\ Latest' = Latest /\ FunctionsList \in DOMAIN ets
      /\ Len(frames) = 2 /\ Len(frames') = 1
      /\ Mods' = Mods \cup {ModuleCode} /\ List' = <<>> /\ ModuleCode.clauses = List
  BY CloseModuleEffect
<1>2. \A t \in DOMAIN ets' : t[1] # "clause"
  BY <1>1 DEF Levelled, Single
<1>3. \A t \in DOMAIN ets' : t[1] = "case" => t \in DOMAIN ets /\ ets'[t] = ets[t]
  <2>1. ModulesTable[1] # "case" /\ Predefines[1] # "case"
    BY TableNames
  <2>. QED BY <1>1, <2>1, CloseModuleTablesKept DEF WalkInv, CrashInv
<1>4. Known' = Known
  <2>1. Cases' = Cases
    BY <1>1, QuietRow DEF WalkInv, CrashInv, QuietStep, Single
  <2>. QED BY <2>1, SameEmitted DEF Known
<1>5. \A i \in 1..Len(frames') : frames'[i].calls \subseteq Known
  <2>1. InnerFrame = frames[2] /\ 1 \in 1..Len(frames) /\ 2 \in 1..Len(frames)
    BY <1>1 DEF InnerFrame
  <2>2. frames[1].calls \subseteq Known /\ frames[2].calls \subseteq Known
    BY <1>1, <2>1 DEF WalkCalls
  <2>3. frames'[1].calls \subseteq frames[1].calls \cup InnerFrame.calls
    BY <1>1, CloseModuleCalls DEF WalkInv, CrashInv, RowInv
  <2>. QED BY <1>1, <2>1, <2>2, <2>3
<1>6. ModuleCode.calls \subseteq Known
  <2>1. ModuleCode.calls = UNION {ets[List[i]] : i \in DOMAIN List}
    BY <1>1 DEF ModuleCode, List
  <2>2. \A i \in DOMAIN List : List[i] \in Range(List)
    BY DEF Range
  <2>3. \A c \in Range(List) : ets[c] \subseteq Known
    BY <1>1 DEF WalkCalls
  <2>. QED BY <2>1, <2>2, <2>3
<1>7. ClausesOf(Mods') = ClausesOf(Mods) \cup Range(List)
  BY <1>1 DEF ClausesOf
<1>8. \A c \in ClausesOf(Mods') : c[1] = "clause"
  BY <1>1, <1>7 DEF WalkCalls
<1>9. Range(List') = {}
  BY <1>1, EmptyClauses
<1>10. \A m \in Mods' : m.calls \subseteq Known
  BY <1>1, <1>6 DEF WalkCalls
<1>11. \A t \in DOMAIN ets' : t[1] = "case" => ets'[t] \in Seq(Bodies(Latest))
  BY <1>1, <1>3 DEF WalkCalls
<1>. QED BY <1>1, <1>2, <1>4, <1>5, <1>8, <1>9, <1>10, <1>11 DEF WalkCalls

LEMMA WalkCallsStep ==
  WalkInv /\ Levelled /\ Levelled' /\ Tracked /\ SourceOrder /\ WalkCalls /\ [Steps]_vars => WalkCalls'
<1>. SUFFICES ASSUME WalkInv, Levelled, Levelled', Tracked, SourceOrder, WalkCalls, [Steps]_vars,
                     Single'
              PROVE  WalkCalls'
  BY DEF WalkCalls
<1>1. phase' = "walk" /\ ~rescued'
  BY DEF Single
<1>2. ASSUME NEW prompt \in Inputs, StartTransform(prompt) PROVE WalkCalls'
  <2>1. ~rescued
    BY <1>1, <1>2 DEF StartTransform
  <2>. QED BY <1>2, <2>1, StartCalls
<1>3. CASE UNCHANGED vars
  <2>1. Single /\ UNCHANGED <<ets, frames>> /\ Mods' = Mods /\ List' = List /\ Cases' = Cases
        /\ Latest' = Latest /\ UNCHANGED emitted
    BY <1>3, SameLatest DEF vars, history, Single, Mods, List, Cases
  <2>. QED BY <2>1 DEF WalkCalls, Known, EmittedNames
<1>. QED BY <1>1, <1>2, <1>3, CallWalkCalls, CaseWalkCalls, OpenModuleCalls, OpenDefCalls,
            CloseDefCalls, CloseModuleWalkCalls, WalkSteps



-----------------------------------------------------------------------------
\* When the walk is over the functions of the prompt's modules are made.
LEMMA FunctionsMade ==
  ASSUME Single, Tracked, SourceOrder, Homely, todo = <<>>, Len(frames) = 1, List = <<>>
  PROVE  \A m \in ModulesOf(Latest) : FunctionsIn(m) \subseteq ManagersOf(Mods)
<1>. SUFFICES ASSUME NEW m \in ModulesOf(Latest), NEW d \in Range(m.body), d.op = "def"
              PROVE  FunctionTable(m.name, d.fn) \in ManagersOf(Mods)
  BY DEF FunctionsIn
<1>1. m \in Walked(Latest) /\ Of(d, m)
  BY DEF ModulesOf, Of
<1>2. Ahead(todo) = {}
  BY DEF Ahead
<1>3. PICK c \in Range(drawn) : FunctionOf(c) = FunctionTable(m.name, d.fn)
  BY <1>1, <1>2 DEF Homely, Met, Drawn
<1>4. c \in ClausesOf(Mods)
  BY EmptyClauses DEF Tracked, Placed, Building
<1>5. \E k \in Mods : \E g \in k.managers : g.function = FunctionOf(c)
  BY <1>4 DEF ClausesOf, SourceOrder, Tabled, Tried
<1>. QED BY <1>3, <1>5 DEF ManagersOf

-----------------------------------------------------------------------------
(* After the walk every clause is in a module, and the modules go into the *)
(* program as they are.                                                    *)
Settled(mods) ==
  /\ drawn \in Seq(Range(drawn)) /\ ClausesOf(mods) = Range(drawn)
  /\ \A c \in ClausesOf(mods) : c[1] = "clause"
  /\ \A m \in mods : Tried(m) /\ \A g \in m.managers : Range(g.clauses) \subseteq Range(m.clauses)
  /\ \A m \in ModulesOf(Latest) : FunctionsIn(m) \subseteq ManagersOf(mods)
  /\ NamesOnce(Latest) =>
       /\ NoRepeats(mods) <=> Distinct(drawn)
       /\ \A m, n \in mods :
            m # n => \A c \in Range(m.clauses), d \in Range(n.clauses) : FunctionOf(c) # FunctionOf(d)
       /\ \A m \in mods : \A g \in m.managers : Picks(g.clauses, drawn, Len(drawn), g.function)

\* What compiled code calls: what was emitted, and functions of cases;
\* of those that are made, if no case is inside a case.
Fit(names, known, prompt, cases) ==
  \A c \in names :
    \/ c \in known
    \/ c[1] = "case" /\ (~HasNestedCase(prompt) => c \in Range(cases))

Done ==
  phase = "cases" /\ ~rescued =>
    /\ Settled(Mods)
    /\ program.declared = Range(program.cases) \cup ManagersOf(Mods) \cup ClausesOf(Mods)
    /\ \A c \in Range(program.cases) : c[1] = "case"
    /\ \A j \in 1..Len(todo) : todo[j].op = "case" => todo[j] \in Bodies(Latest)
    /\ \A i \in 1..Len(frames) : Fit(frames[i].calls, EmittedNames, Latest, program.cases)
    /\ \A m \in Mods : Fit(m.calls, EmittedNames, Latest, program.cases)

IsProgram == DOMAIN program = {"declared", "called", "cases", "modules"}

WalkFacts == WalkInv /\ Tracked /\ SourceOrder /\ Declared /\ WalkCalls /\ Homely

LEMMA CasesSteps ==
  ASSUME [Steps]_vars, phase' = "cases"
  PROVE  \/ FinishWalk
         \/ phase = "cases" /\ (Emits \/ ExpandMacro \/ \E id \in Ids : CompileCase(id))
         \/ UNCHANGED vars
<1>1. RequireRaises \/ HostRaises => phase' = "crashed"
  BY HostSteps DEF HostSays
<1>2. Emits \/ ExpandMacro \/ (\E id : CompileCase(id)) => UNCHANGED phase
  BY DropSteps
<1>3. \A id : OpenDef(id) => phase' = "walk"
  BY EnterSteps
<1>4. OpenModule => phase' = "walk"
  BY EnterSteps
<1>5. CloseDef \/ CloseModule => phase' = "crashed" \/ phase' = "walk"
  BY Zenon DEF CloseDef, CloseModule, Raise
<1>6. \A prompt : StartTransform(prompt) => phase' = "walk"
  BY DEF StartTransform
<1>7. FinishTransform \/ Restart \/ Rescue => phase' = "crashed" \/ phase' = "idle"
  BY Zenon DEF FinishTransform, Restart, Rescue, Raise
<1>. QED BY <1>1, <1>2, <1>3, <1>4, <1>5, <1>6, <1>7 DEF Steps, Over

\* What is still compiled when the walk is over adds to no module.
LEMMA ModsKept ==
  ASSUME WalkInv, phase \in {"walk", "cases"}, Emits \/ ExpandMacro \/ \E id : CompileCase(id)
  PROVE  Mods' = Mods
<1>1. CASE Emits \/ ExpandMacro
  BY <1>1, DropSteps DEF Mods
<1>2. ASSUME NEW id, CompileCase(id) PROVE Mods' = Mods
  <2>1. ModulesTable \in DOMAIN ets /\ ModulesTable[1] # "case"
        /\ ModulesTable \notin {CasesTable, Predefines}
    BY SetupThere, TableNames DEF WalkInv, CrashInv
  <2>. QED BY <1>2, <2>1, CaseTablesKept DEF WalkInv, CrashInv, Mods
<1>. QED BY <1>1, <1>2

LEMMA WalkSettled ==
  ASSUME WalkFacts, Levelled, Single, todo = <<>>, Len(frames) = 1
  PROVE  Settled(Mods)
<1>1. List = <<>> /\ Building = {} /\ Complete = Len(drawn)
  BY DEF Levelled, List, Building, Complete
<1>2. /\ Placed /\ Once /\ Tabled /\ (NamesOnce(Latest) => Followed)
      /\ \A m \in Mods : \A g \in m.managers : Range(g.clauses) \subseteq Range(m.clauses)
      /\ \A c \in ClausesOf(Mods) : c[1] = "clause"
  BY DEF WalkFacts, Tracked, SourceOrder, Declared, WalkCalls
<1>3. drawn \in Seq(Range(drawn)) /\ ClausesOf(Mods) = Range(drawn)
  BY <1>1, <1>2, EmptyClauses DEF Placed
<1>4. \A m \in Mods : Tried(m)
  BY <1>2 DEF Tabled
<1>5. \A m \in ModulesOf(Latest) : FunctionsIn(m) \subseteq ManagersOf(Mods)
  BY <1>1, FunctionsMade DEF WalkFacts
<1>6. ASSUME NamesOnce(Latest)
      PROVE  /\ NoRepeats(Mods) <=> Distinct(drawn)
             /\ \A m, n \in Mods :
                  m # n => \A c \in Range(m.clauses), d \in Range(n.clauses) :
                             FunctionOf(c) # FunctionOf(d)
             /\ \A m \in Mods : \A g \in m.managers :
                  Picks(g.clauses, drawn, Len(drawn), g.function)
  <2>1. ClosedOnce /\ Repeats /\ Followed
    BY <1>2, <1>6 DEF Once
  <2>2. NoRepeats(Mods) <=> Distinct(drawn)
    BY <1>1, <2>1, EmptyClauses DEF Repeats
  <2>. QED BY <1>1, <2>1, <2>2 DEF ClosedOnce, Followed
<1>. QED BY <1>2, <1>3, <1>4, <1>5, <1>6 DEF Settled

\* The walk is over.
LEMMA FinishWalkDone ==
  ASSUME WalkFacts, Levelled, IsProgram, FinishWalk, phase' = "cases", ~rescued'
  PROVE  Done'
<1>1. /\ phase = "walk" /\ todo = <<>> /\ Len(frames) = 1
      /\ UNCHANGED <<ets, session, rescued, drawn, emitted>>
      /\ program' = [program EXCEPT !.declared = ets[Predefines], !.cases = Cases]
      /\ IF Cases = <<>> THEN UNCHANGED <<todo, frames>>
         ELSE /\ todo' = ets[Cases[1]]
              /\ frames' = Append(frames, Frame("case", Cases[1]))
  <2>1. "crashed" # "cases"
    OBVIOUS
  <2>. QED BY <2>1, Zenon DEF FinishWalk, Raise, history, Cases
<1>2. Single /\ Latest' = Latest /\ Mods' = Mods
  <2>1. ~HasNestedModule(Latest)
    BY <1>1, WalkedAll DEF WalkFacts, WalkInv, CrashInv
  <2>. QED BY <1>1, <2>1, SameLatest DEF Single, Mods
<1>3. Settled(Mods)
  BY <1>1, <1>2, WalkSettled
<1>4. Settled(Mods)'
  BY <1>1, <1>2, <1>3 DEF Settled
<1>5. program'.declared = ets[Predefines] /\ program'.cases = Cases
  BY <1>1 DEF IsProgram
<1>6. List = <<>> /\ Range(List) = {}
  BY <1>1, <1>2, EmptyClauses DEF Levelled, List
<1>7. ets[Predefines] = Range(Cases) \cup ManagersOf(Mods) \cup ClausesOf(Mods)
  BY <1>2, <1>6 DEF WalkFacts, Declared
<1>8. \A c \in Range(Cases) : c \in DOMAIN ets /\ c[1] = "case"
  BY <1>2 DEF WalkFacts, WalkInv, CrashInv, Counted, Count, Single
<1>9. \A names : names \subseteq Known => Fit(names, EmittedNames, Latest, Cases)
  BY <1>8 DEF Known, Fit
<1>10. \A m \in Mods : Fit(m.calls, EmittedNames, Latest, Cases)
  BY <1>2, <1>9 DEF WalkFacts, WalkCalls
<1>11. \A i \in 1..Len(frames') : Fit(frames'[i].calls, EmittedNames, Latest, Cases)
  <2>1. \A i \in 1..Len(frames) : frames[i].calls \subseteq Known
    BY <1>2 DEF WalkFacts, WalkCalls
  <2>2. \A i \in 1..Len(frames') : frames'[i].calls \subseteq Known
    <3>1. CASE Cases = <<>>
      BY <1>1, <2>1, <3>1
    <3>2. CASE Cases # <<>>
      <4>. PICK k, n : k = "case" /\ n = Cases[1]
        OBVIOUS
      <4>1. frames' = Append(frames, Frame(k, n))
        BY <1>1, <3>2
      <4>. QED BY <2>1, <4>1, PushedKnown DEF WalkFacts, WalkInv, CrashInv, RowInv
    <3>. QED BY <3>1, <3>2
  <2>. QED BY <1>9, <2>2
<1>12. todo' \in Seq(Bodies(Latest))
  <2>1. CASE Cases = <<>>
    BY <1>1, <2>1
  <2>2. CASE Cases # <<>>
    <3>1. CasesTable \in DOMAIN ets
      BY <1>1, SetupThere, OtherTables DEF WalkFacts, WalkInv, CrashInv
    <3>2. Cases \in Seq(Range(Cases)) /\ Len(Cases) > 0
      BY <2>2, <3>1, RowIsSeq DEF WalkFacts, WalkInv, CrashInv
    <3>3. Cases[1] \in Range(Cases)
      BY <3>2
    <3>. QED BY <1>1, <1>2, <1>8, <2>2, <3>3 DEF WalkFacts, WalkCalls
  <2>. QED BY <2>1, <2>2
<1>13. program'.declared = Range(program'.cases) \cup ManagersOf(Mods') \cup ClausesOf(Mods')
  BY <1>2, <1>5, <1>7
<1>14. \A c \in Range(program'.cases) : c[1] = "case"
  BY <1>5, <1>8
<1>18. EmittedNames' = EmittedNames
  BY <1>1 DEF EmittedNames
<1>15. \A i \in 1..Len(frames') : Fit(frames'[i].calls, EmittedNames', Latest', program'.cases)
  BY <1>2, <1>5, <1>11, <1>18
<1>16. \A m \in Mods' : Fit(m.calls, EmittedNames', Latest', program'.cases)
  BY <1>2, <1>5, <1>10, <1>18
<1>17. \A j \in 1..Len(todo') : todo'[j].op = "case" => todo'[j] \in Bodies(Latest')
  BY <1>2, <1>12
<1>. QED BY <1>4, <1>13, <1>14, <1>15, <1>16, <1>17, Zenon DEF Done


\* What stands behind what was visited in a case: no new cases.
LEMMA CasesAhead ==
  ASSUME WalkInv, Done, phase = "cases", ~rescued, Emits \/ ExpandMacro \/ \E id : CompileCase(id)
  PROVE  \A j \in 1..Len(todo') : todo'[j].op = "case" => todo'[j] \in Bodies(Latest)
<1>1. todo \in Seq(Visited(Latest)) /\ Parsed(Latest)
  BY LatestParsed DEF WalkInv, CrashInv, Visiting
<1>2. \A j \in 1..Len(todo) : todo[j].op = "case" => todo[j] \in Bodies(Latest)
  BY DEF Done
<1>3. CASE Dropped
  <2>1. todo # <<>> /\ todo' = Tail(todo)
    BY <1>3 DEF Dropped
  <2>2. /\ Len(todo') = Len(todo) - 1 /\ Len(todo) \in Nat
        /\ \A j \in 1..Len(todo) - 1 : todo'[j] = todo[j + 1]
    BY <1>1, <2>1, TailItems
  <2>. QED BY <1>2, <2>2
<1>4. CASE ExpandMacro
  <2>. PICK i : i = todo[1]
    OBVIOUS
  <2>. PICK body : body = i.body
    OBVIOUS
  <2>1. todo # <<>> /\ i.op = "call" /\ todo' = body \o Tail(todo)
    BY <1>4, DropSteps DEF ExpandedItem
  <2>2. i \in Visited(Latest)
    BY <1>1, <2>1, TailItems
  <2>3. body \in Seq(Visited(Latest)) /\ body \in Seq(Range(body))
    BY <1>1, <2>1, <2>2, VisitedBody DEF Parsed
  <2>4. \A d \in Range(body) : d.op # "case"
    <3>1. \A d \in Inside(i) : d.op \in {"call", "text"}
      BY <1>1, <2>1, <2>2 DEF Parsed
    <3>2. Opened({i}) \subseteq Inside(i)
      BY <1>1, <2>2, InsideItself, OpenedMonotone DEF Parsed
    <3>3. Range(body) \subseteq Opened({i})
      BY <2>1 DEF Opened
    <3>. QED BY <3>1, <3>2, <3>3
  <2>5. \A j \in 1..Len(body) : body[j].op # "case"
    BY <2>3, <2>4
  <2>6. Spliced(todo, body, todo')
    BY <1>1, <2>1, <2>3, SplicedItems
  <2>7. Len(todo) \in Nat /\ \A k \in 2..Len(todo) : k \in 1..Len(todo)
    BY <1>1
  <2>8. ASSUME NEW j \in 1..Len(todo'), todo'[j].op = "case" PROVE todo'[j] \in Bodies(Latest)
    <3>1. PICK k \in 2..Len(todo) : todo'[j] = todo[k]
      BY <2>5, <2>6, <2>8, Zenon DEF Spliced
    <3>. QED BY <1>2, <2>7, <2>8, <3>1
  <2>. QED BY <2>8
<1>. QED BY <1>3, <1>4, DropSteps

\* What the body of a case adds: calls, text, and cases inside the case.
LEMMA CallDone ==
  ASSUME WalkInv, Done, phase = "cases", ~rescued, Emits \/ ExpandMacro \/ \E id : CompileCase(id)
  PROVE  Done'
<1>1. UNCHANGED <<phase, program, session, rescued, drawn>>
  <2>1. Emits \/ ExpandMacro => UNCHANGED <<phase, session, rescued>>
    BY EmitSteps DEF EmitStep
  <2>2. ASSUME NEW id, CompileCase(id) PROVE UNCHANGED <<phase, program, session, rescued, drawn>>
    BY <2>2, Zenon DEF CompileCase, history
  <2>. QED BY <2>1, <2>2, EmitsItems
<1>2. Mods' = Mods /\ Latest' = Latest
  BY <1>1, ModsKept, SameLatest
<1>3. /\ Settled(Mods)
      /\ program.declared = Range(program.cases) \cup ManagersOf(Mods) \cup ClausesOf(Mods)
      /\ \A c \in Range(program.cases) : c[1] = "case"
      /\ \A i \in 1..Len(frames) : Fit(frames[i].calls, EmittedNames, Latest, program.cases)
      /\ \A m \in Mods : Fit(m.calls, EmittedNames, Latest, program.cases)
  BY DEF Done
<1>4. TransformInv
  BY DEF WalkInv, CrashInv, RowInv
<1>5. \E names : /\ frames' = Calling(names)
                 /\ EmittedNames \subseteq EmittedNames'
                 /\ Fit(names, EmittedNames', Latest, program.cases)
  <2>1. CASE Emits \/ ExpandMacro
    <3>. PICK items : /\ frames' = Calling({NameOf(i) : i \in items})
                      /\ emitted' = emitted \cup items
      BY <2>1, EmitsItems
    <3>1. EmittedNames' = EmittedNames \cup {NameOf(i) : i \in items}
      BY EmittedNamesAdded
    <3>. QED BY <3>1 DEF Fit
  <2>2. ASSUME NEW id, CompileCase(id)
        PROVE  /\ frames' = Calling({CaseTable(id)})
               /\ EmittedNames \subseteq EmittedNames'
               /\ Fit({CaseTable(id)}, EmittedNames', Latest, program.cases)
    <3>1. todo # <<>> /\ todo[1].op = "case" /\ frames' = Calling({CaseTable(id)})
      BY <2>2, Zenon DEF CompileCase, At, Next_item
    <3>2. todo[1] \in Bodies(Latest)
      <4>1. todo \in Seq(Visited(Latest))
        BY DEF WalkInv, CrashInv, Visiting
      <4>. QED BY <3>1, <4>1, TailItems DEF Done
    <3>3. HasNestedCase(Latest)
      BY <3>1, <3>2 DEF Bodies, HasNestedCase
    <3>4. EmittedNames' = EmittedNames
      BY <2>2, SameEmitted
    <3>. QED BY <3>1, <3>3, <3>4 DEF Fit, CaseTable
  <2>. QED BY <2>1, <2>2
<1>. PICK names : /\ frames' = Calling(names)
                  /\ EmittedNames \subseteq EmittedNames'
                  /\ Fit(names, EmittedNames', Latest, program.cases)
  BY <1>5
<1>6. \A calls : Fit(calls, EmittedNames, Latest, program.cases)
                   => Fit(calls, EmittedNames', Latest, program.cases)
  BY DEF Fit
<1>7. \A i \in 1..Len(frames') : Fit(frames'[i].calls, EmittedNames', Latest, program.cases)
  <2>1. /\ Len(frames') = Len(frames)
        /\ \A i \in 1..Len(frames) : frames'[i].calls \subseteq frames[i].calls \cup names
    BY <1>4, CallingCalls
  <2>. TAKE i \in 1..Len(frames')
  <2>2. Fit(frames[i].calls, EmittedNames', Latest, program.cases)
        /\ frames'[i].calls \subseteq frames[i].calls \cup names
    BY <1>3, <1>6, <2>1
  <2>. QED BY <2>2 DEF Fit
<1>8. Settled(Mods)'
  BY <1>1, <1>2, <1>3 DEF Settled
<1>9. program'.declared = Range(program'.cases) \cup ManagersOf(Mods') \cup ClausesOf(Mods')
  BY <1>1, <1>2, <1>3
<1>10. \A c \in Range(program'.cases) : c[1] = "case"
  BY <1>1, <1>3
<1>11. \A i \in 1..Len(frames') : Fit(frames'[i].calls, EmittedNames', Latest', program'.cases)
  BY <1>1, <1>2, <1>7
<1>12. \A m \in Mods' : Fit(m.calls, EmittedNames', Latest', program'.cases)
  BY <1>1, <1>2, <1>3, <1>6
<1>13. \A j \in 1..Len(todo') : todo'[j].op = "case" => todo'[j] \in Bodies(Latest')
  BY <1>2, CasesAhead
<1>. QED BY <1>8, <1>9, <1>10, <1>11, <1>12, <1>13, Zenon DEF Done

LEMMA SameDone == ASSUME Done, UNCHANGED vars PROVE Done'
<1>1. /\ UNCHANGED <<phase, program, rescued, drawn, todo, frames>>
      /\ Latest' = Latest /\ Mods' = Mods /\ EmittedNames' = EmittedNames
  BY SameLatest DEF vars, history, Mods, EmittedNames
<1>2. Settled(Mods) => Settled(Mods)'
  BY <1>1 DEF Settled
<1>. QED BY <1>1, <1>2 DEF Done

LEMMA DoneStep == WalkFacts /\ Levelled /\ IsProgram /\ Done /\ [Steps]_vars => Done'
<1>. SUFFICES ASSUME WalkFacts, Levelled, IsProgram, Done, [Steps]_vars, phase' = "cases", ~rescued'
              PROVE  Done'
  BY DEF Done
<1>1. CASE FinishWalk
  BY <1>1, FinishWalkDone
<1>2. CASE phase = "cases" /\ (Emits \/ ExpandMacro \/ \E id \in Ids : CompileCase(id))
  <2>1. ~rescued
    <3>1. Emits \/ ExpandMacro => UNCHANGED rescued
      BY EmitSteps DEF EmitStep
    <3>2. \A id : CompileCase(id) => UNCHANGED rescued
      BY Zenon DEF CompileCase, history
    <3>. QED BY <1>2, <3>1, <3>2
  <2>. QED BY <1>2, <2>1, CallDone DEF WalkFacts
<1>3. CASE UNCHANGED vars
  BY <1>3, SameDone
<1>. QED BY <1>1, <1>2, <1>3, CasesSteps

LEMMA IsProgramStep == IsProgram /\ [Steps]_vars => IsProgram'
<1>. SUFFICES ASSUME IsProgram, [Steps]_vars PROVE IsProgram'
  OBVIOUS
<1>1. CASE UNCHANGED program
  BY <1>1 DEF IsProgram
<1>2. CASE program' = NoProgram
  BY <1>2 DEF IsProgram, NoProgram
<1>3. ASSUME NEW declared, NEW cases,
             program' = [program EXCEPT !.declared = declared, !.cases = cases]
      PROVE  IsProgram'
  BY <1>3 DEF IsProgram
<1>4. ASSUME NEW called, NEW modules,
             program' = [program EXCEPT !.called = called, !.modules = modules]
      PROVE  IsProgram'
  BY <1>4 DEF IsProgram
<1>5. FinishWalk => \/ UNCHANGED program
                    \/ \E declared, cases :
                         program' = [program EXCEPT !.declared = declared, !.cases = cases]
  BY Zenon DEF FinishWalk, Raise
<1>6. FinishTransform => \/ UNCHANGED program
                         \/ \E called, modules :
                              program' = [program EXCEPT !.called = called, !.modules = modules]
  BY Zenon DEF FinishTransform, Raise
<1>8. Emits \/ ExpandMacro => UNCHANGED program
  BY EmitsItems
<1>7. \/ UNCHANGED program \/ program' = NoProgram \/ FinishWalk \/ FinishTransform
  BY <1>8, Zenon DEF Steps, StartTransform, CompileCase, OpenDef, OpenModule, CloseDef, RequireRaises,
               HostRaises, CloseModule, Restart, Rescue, Over, Raise, vars
<1>. QED BY <1>1, <1>2, <1>3, <1>4, <1>5, <1>6, <1>7


-----------------------------------------------------------------------------
(* What the compiled prompt has become.                                    *)
Outcome ==
  Compiled =>
    /\ Settled(program.modules)
    /\ program.declared = Range(program.cases) \cup ManagersOf(program.modules)
                            \cup ClausesOf(program.modules)
    /\ \A c \in Range(program.cases) : c[1] = "case"
    /\ Fit(program.called, EmittedNames, Latest, program.cases)

LEMMA FinishOutcome ==
  ASSUME WalkInv, IsProgram, Done, FinishTransform, registry \subseteq DOMAIN ets, ~rescued'
  PROVE  Outcome'
<1>1. /\ phase = "cases" /\ UNCHANGED <<session, rescued, drawn, emitted>>
      /\ program' = [program EXCEPT
                       !.called = UNION ({frames[i].calls : i \in DOMAIN frames}
                                         \cup {m.calls : m \in Mods}),
                       !.modules = Mods]
  BY Zenon DEF FinishTransform, Raise, history, Mods
<1>2. /\ program'.modules = Mods /\ program'.declared = program.declared
      /\ program'.cases = program.cases
      /\ program'.called = UNION ({frames[i].calls : i \in DOMAIN frames} \cup {m.calls : m \in Mods})
  BY <1>1 DEF IsProgram
<1>3. /\ Settled(Mods)
      /\ program.declared = Range(program.cases) \cup ManagersOf(Mods) \cup ClausesOf(Mods)
      /\ \A c \in Range(program.cases) : c[1] = "case"
      /\ \A i \in 1..Len(frames) : Fit(frames[i].calls, EmittedNames, Latest, program.cases)
      /\ \A m \in Mods : Fit(m.calls, EmittedNames, Latest, program.cases)
      /\ Latest' = Latest /\ EmittedNames' = EmittedNames
  BY <1>1, SameLatest DEF Done, EmittedNames
<1>4. Fit(program'.called, EmittedNames, Latest, program.cases)
  <2>1. DOMAIN frames = 1..Len(frames)
    BY ShapeLen DEF WalkInv, CrashInv, RowInv, TransformInv, Stack
  <2>. SUFFICES ASSUME NEW c \in program'.called
                PROVE  \/ c \in EmittedNames
                       \/ c[1] = "case" /\ (~HasNestedCase(Latest) => c \in Range(program.cases))
    BY DEF Fit
  <2>2. (\E i \in 1..Len(frames) : c \in frames[i].calls) \/ (\E m \in Mods : c \in m.calls)
    BY <1>2, <2>1
  <2>. QED BY <1>3, <2>2 DEF Fit
<1>5. UNCHANGED drawn /\ program'.modules = Mods
  BY <1>1, <1>2
<1>6. Settled(program.modules)'
  BY <1>3, <1>5 DEF Settled
<1>7. program'.declared = Range(program'.cases) \cup ManagersOf(program'.modules)
                            \cup ClausesOf(program'.modules)
  BY <1>2, <1>3
<1>8. \A c \in Range(program'.cases) : c[1] = "case"
  BY <1>2, <1>3
<1>9. Fit(program'.called, EmittedNames', Latest', program'.cases)
  BY <1>2, <1>3, <1>4
<1>. QED BY <1>6, <1>7, <1>8, <1>9, Zenon DEF Outcome

LEMMA OutcomeStep == WalkInv /\ IsProgram /\ Done /\ Outcome /\ [Steps]_vars => Outcome'
<1>. SUFFICES ASSUME WalkInv, IsProgram, Done, Outcome, [Steps]_vars, Compiled'
              PROVE  Outcome'
  BY DEF Outcome
<1>1. phase' = "idle" /\ ~rescued' /\ Len(session') >= since'
  BY DEF Compiled
<1>2. CASE FinishTransform /\ registry \subseteq DOMAIN ets
  BY <1>1, <1>2, FinishOutcome
<1>3. CASE Restart
  BY <1>1, <1>3 DEF Restart, WalkInv, CrashInv, RowInv, Prompted
<1>4. CASE UNCHANGED vars
  <2>1. UNCHANGED <<phase, session, since, program, rescued, drawn>> /\ Latest' = Latest
        /\ EmittedNames' = EmittedNames
    BY <1>4, SameLatest DEF vars, history, EmittedNames
  <2>2. Compiled
    BY <1>1, <2>1 DEF Compiled
  <2>3. Settled(program.modules) => Settled(program.modules)'
    BY <2>1 DEF Settled
  <2>. QED BY <2>1, <2>2, <2>3 DEF Outcome
<1>. QED BY <1>1, <1>2, <1>3, <1>4, IdleSteps

LEMMA OutcomeOneDefinition == Outcome => OneDefinition
<1>1. ASSUME NEW M, NEW N, \A c \in M, d \in N : FunctionOf(c) # FunctionOf(d)
      PROVE  M \cap N = {}
  BY <1>1
<1>. QED BY <1>1 DEF Outcome, OneDefinition, Settled, ClausesOf, NoRepeats

LEMMA OutcomeManagers == Outcome => ManagersFollowSource
<1>. SUFFICES ASSUME Outcome, Compiled, NamesOnce(Latest), NEW c \in Range(drawn)
              PROVE  /\ Cardinality({g \in Managers : g.function = FunctionOf(c)}) = 1
                     /\ \A g \in Managers :
                          g.function = FunctionOf(c) => Selects(g.clauses, drawn, FunctionOf(c))
  BY DEF ManagersFollowSource
<1>1. /\ drawn \in Seq(Range(drawn)) /\ ClausesOf(program.modules) = Range(drawn)
      /\ \A m \in program.modules : Tried(m)
      /\ \A m, n \in program.modules :
           m # n => \A a \in Range(m.clauses), b \in Range(n.clauses) : FunctionOf(a) # FunctionOf(b)
      /\ \A m \in program.modules : \A g \in m.managers :
           Picks(g.clauses, drawn, Len(drawn), g.function)
  BY DEF Outcome, Settled
<1>2. PICK m \in program.modules : c \in Range(m.clauses)
  BY <1>1 DEF ClausesOf
<1>3. PICK g \in m.managers : g.function = FunctionOf(c)
  BY <1>1, <1>2 DEF Tried
<1>4. ASSUME NEW h \in Managers, h.function = FunctionOf(c) PROVE h = g
  <2>1. PICK n \in program.modules : h \in n.managers
    BY DEF Managers
  <2>2. PICK d \in Range(n.clauses) : h.function = FunctionOf(d)
    BY <1>1, <2>1 DEF Tried
  <2>4. n = m
    BY <1>1, <1>2, <1>4, <2>2
  <2>. QED BY <1>1, <1>3, <1>4, <2>1, <2>4 DEF Tried
<1>5. {h \in Managers : h.function = FunctionOf(c)} = {g}
  BY <1>3, <1>4 DEF Managers
<1>6. Cardinality({h \in Managers : h.function = FunctionOf(c)}) = 1
  BY <1>5, FS_Singleton
<1>7. Selects(g.clauses, drawn, FunctionOf(c))
  BY <1>1, <1>3, PicksSelect
<1>. QED BY <1>4, <1>6, <1>7

LEMMA OutcomeLinks == Outcome => Links
<1>. SUFFICES ASSUME Outcome, Compiled
              PROVE  /\ program.declared = Defined
                     /\ \A g \in Managers : Range(g.clauses) \subseteq program.declared
                     /\ Resolved =>
                          (program.called \subseteq program.declared
                             <=> \/ ~HasNestedCase(Latest)
                                 \/ {c \in program.called : c[1] = "case"}
                                      \subseteq Range(program.cases))
  BY DEF Links
<1>1. /\ program.declared = Range(program.cases) \cup ManagersOf(program.modules)
                              \cup ClausesOf(program.modules)
      /\ \A c \in ClausesOf(program.modules) : c[1] = "clause"
      /\ \A m \in program.modules :
           Tried(m) /\ \A g \in m.managers : Range(g.clauses) \subseteq Range(m.clauses)
      /\ Fit(program.called, EmittedNames, Latest, program.cases)
      /\ \A m \in ModulesOf(Latest) : FunctionsIn(m) \subseteq ManagersOf(program.modules)
  BY DEF Outcome, Settled
<1>2. program.declared = Defined
  BY <1>1 DEF Defined, ManagersOf, ClausesOf, Managers
<1>3. \A g \in Managers : Range(g.clauses) \subseteq program.declared
  BY <1>1 DEF Managers, ClausesOf
<1>4. Resolved => EmittedNames \subseteq ManagersOf(program.modules)
  BY <1>1 DEF Resolved, EmittedNames
<1>5. \A c \in ManagersOf(program.modules) : c[1] = "function"
  BY <1>1 DEF ManagersOf, Tried, FunctionOf, FunctionTable
<1>6. \A c \in program.declared : c[1] = "case" => c \in Range(program.cases)
  BY <1>1, <1>5
<1>7. ASSUME Resolved
      PROVE  program.called \subseteq program.declared
               <=> \/ ~HasNestedCase(Latest)
                   \/ {c \in program.called : c[1] = "case"} \subseteq Range(program.cases)
  <2>1. EmittedNames \subseteq ManagersOf(program.modules)
    BY <1>4, <1>7
  <2>2. \A c \in program.called :
          \/ c \in ManagersOf(program.modules)
          \/ c[1] = "case" /\ (~HasNestedCase(Latest) => c \in Range(program.cases))
    BY <1>1, <2>1 DEF Fit
  <2>3. ManagersOf(program.modules) \subseteq program.declared
        /\ Range(program.cases) \subseteq program.declared
    BY <1>1
  <2>4. ASSUME ~HasNestedCase(Latest) PROVE program.called \subseteq program.declared
    BY <2>2, <2>3, <2>4
  <2>5. ASSUME {c \in program.called : c[1] = "case"} \subseteq Range(program.cases)
        PROVE  program.called \subseteq program.declared
    BY <2>2, <2>3, <2>5
  <2>6. ASSUME program.called \subseteq program.declared
        PROVE  {c \in program.called : c[1] = "case"} \subseteq Range(program.cases)
    BY <1>6, <2>6
  <2>. QED BY <2>4, <2>5, <2>6
<1>. QED BY <1>2, <1>3, <1>7

-----------------------------------------------------------------------------
ProgramInv == WalkFacts /\ IsProgram /\ Done /\ Outcome

LEMMA WalkHolds == Runs => []WalkInv
<1>1. Init => Layered
  BY DEF Init, Layered
<1>2. CrashInv /\ Layered /\ [Steps]_vars => Layered'
  BY LayeredStep DEF CrashInv
<1>. QED BY <1>1, <1>2, CrashInvHolds, PTL DEF Runs, WalkInv

LEMMA ProgramInvHolds == Runs => []ProgramInv
<1>1. Init => /\ Tracked /\ SourceOrder /\ Declared /\ WalkCalls /\ Homely
              /\ IsProgram /\ Done /\ Outcome
  BY DEF Init, NoProgram, Tracked, SourceOrder, Declared, WalkCalls, Homely, Single, Done,
         IsProgram, Outcome, Compiled
<1>. QED BY <1>1, WalkHolds, WalkLevelled, TrackedStep, SourceOrderStep, DeclaredStep, WalkCallsStep,
            HomelyStep, DoneStep, IsProgramStep, OutcomeStep, PTL
         DEF Runs, ProgramInv, WalkFacts

(* OneDefinition, for any prompts: add_function_in_function_list and       *)
(* create_module_functions bring every clause drawn for a def into the     *)
(* program, in its own module, as often as it was drawn.                   *)
THEOREM OneDefinitionHolds == Spec => []OneDefinition
<1>. QED BY ProgramInvHolds, SpecRuns, OutcomeOneDefinition, PTL DEF ProgramInv

(* ManagersFollowSource, for any prompts: create_managers makes one        *)
(* ExRemote_ function for each function, and it tries the clauses in the   *)
(* order in which def appended them to the function's table.               *)
THEOREM ManagersFollowSourceHolds == Spec => []ManagersFollowSource
<1>. QED BY ProgramInvHolds, SpecRuns, OutcomeManagers, PTL DEF ProgramInv

(* Links, for any prompts: what add_predefine has collected is what        *)
(* transform puts together, and of what it calls only the function of a    *)
(* case inside a case can be missing.                                      *)
THEOREM LinksHolds == Spec => []Links
<1>. QED BY ProgramInvHolds, SpecRuns, OutcomeLinks, PTL DEF ProgramInv
=============================================================================
