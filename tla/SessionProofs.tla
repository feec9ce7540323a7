----------------------------- MODULE SessionProofs -----------------------------
(* Proofs about Session, for any programs, any names and any faults.       *)
EXTENDS Session, ProgramProofs

FilesOK ==
  /\ session \in Seq(Prompts \cup {<<>>})
  /\ job \in Stems
  /\ cpp \in [Stems -> [n : Nat, whole : BOOLEAN]]
  /\ exe \in [Stems -> Nat]

InOrder == FilesOK /\ ExecutableInOrder

LEMMA InitOrder == SessionInit => InOrder
BY SessionAssumption, EmptySeq
DEF SessionInit, Init, InOrder, FilesOK, ExecutableInOrder, None, Current

\* The steps of transform behind its first.
LEMMA WalkIsSteps ==
  ASSUME Walk
  PROVE  /\ [Steps]_vars
         /\ UNCHANGED <<session, since, rescued>>
<1>1. CompileCall \/ CompileLocal \/ LeaveText \/ SkipMacro => Emits
  BY DEF CompileCall, CompileLocal, LeaveText, SkipMacro, Emits
<1>2. CASE Emits \/ ExpandMacro
  BY <1>2, EmitSteps DEF EmitStep, Steps
<1>3. CASE ExpandAgain
  BY <1>3 DEF ExpandAgain, vars, history
<1>4. CASE RequireRaises \/ HostRaises
  BY <1>4, HostSteps DEF HostSays, Steps
<1>5. ASSUME NEW id \in Ids, CompileCase(id) \/ OpenDef(id)
      PROVE  [Steps]_vars /\ UNCHANGED <<session, since, rescued>>
  <2>1. Steps
    BY <1>5 DEF Steps
  <2>. QED BY <1>5, <2>1, Zenon DEF CompileCase, OpenDef, history
<1>6. CASE OpenModule \/ CloseDef \/ CloseModule \/ FinishWalk \/ FinishTransform
  <2>1. Steps
    BY <1>6 DEF Steps
  <2>. QED BY <1>6, <2>1, Zenon DEF OpenModule, CloseDef, CloseModule, FinishWalk, FinishTransform,
                                   Raise, history
<1>. QED BY <1>1, <1>2, <1>3, <1>4, <1>5, <1>6 DEF Walk

(* Programs are only ever added to a session, ...                          *)
LEMMA SessionGrows ==
  ASSUME InOrder, [SessionNext]_svars
  PROVE  session' \in Seq(Prompts \cup {<<>>}) /\ Len(session) \in Nat /\ Len(session') \in Nat
         /\ Len(session) <= Len(session')
<1>1. session \in Seq(Prompts \cup {<<>>}) /\ Len(session) \in Nat
  BY DEF InOrder, FilesOK
<1>2. ASSUME NEW prompt \in Prompts \cup {<<>>}, StartTransform(prompt)
      PROVE  session' \in Seq(Prompts \cup {<<>>}) /\ Len(session') = Len(session) + 1
  BY <1>1, <1>2, AppendProperties DEF StartTransform
<1>3. UNCHANGED session \/ \E prompt \in Prompts \cup {<<>>} : StartTransform(prompt)
  <2>1. Transforming => UNCHANGED session
    BY WalkIsSteps DEF Transforming
  <2>. QED BY <2>1
    DEF SessionNext, Input, Machine, Quiet, RunCLI, ExecuteFile, ExecuteError, Compile, TypeProgram,
        TypeEof, TypeNonsense, TypeExit, NextShell, WriteFile, BuildProgram, BuildFails, Restart,
        Rescue, history, vars, svars
<1>. QED BY <1>1, <1>2, <1>3

(* ... and the steps before a program is written touch no file.            *)
LEMMA OtherSteps ==
  ASSUME InOrder, [SessionNext]_svars, UNCHANGED <<cpp, exe>>, job' \in Stems,
         built \subseteq built'
  PROVE  InOrder'
BY SessionGrows DEF InOrder, FilesOK, ExecutableInOrder, Current

(* Writing one file makes files again, whose numbers are old or the new.   *)
LEMMA OneFile ==
  ASSUME NEW c \in [Stems -> [n : Nat, whole : BOOLEAN]], NEW j \in Stems, NEW k \in Nat,
         NEW b \in BOOLEAN, NEW d, d = [c EXCEPT ![j] = [n |-> k, whole |-> b]]
  PROVE  d \in [Stems -> [n : Nat, whole : BOOLEAN]] /\ \A f \in Stems : d[f].n \in {c[f].n, k}
<1>1. PICK r \in [n : Nat, whole : BOOLEAN] : r = [n |-> k, whole |-> b] /\ r.n = k
  OBVIOUS
<1>2. d = [f \in Stems |-> IF f = j THEN r ELSE c[f]]
  BY <1>1
<1>3. d \in [Stems -> [n : Nat, whole : BOOLEAN]]
  <2>1. \A f \in Stems : c[f] \in [n : Nat, whole : BOOLEAN]
    OBVIOUS
  <2>2. \A f \in Stems : (IF f = j THEN r ELSE c[f]) \in [n : Nat, whole : BOOLEAN]
    BY <2>1
  <2>. QED BY <1>2, <2>2, Zenon
<1>4. \A f \in Stems : d[f] = IF f = j THEN r ELSE c[f]
  BY <1>2, Zenon
<1>5. ASSUME NEW f \in Stems PROVE d[f].n \in {c[f].n, k}
  <2>1. CASE f = j
    <3>1. d[f] = r
      BY <1>4, <2>1, Zenon
    <3>. QED BY <3>1, <1>1, Zenon
  <2>2. CASE f # j
    <3>1. d[f] = c[f]
      BY <1>4, <2>2, Zenon
    <3>. QED BY <3>1, Zenon
  <2>. QED BY <2>1, <2>2
<1>. QED BY <1>3, <1>5

LEMMA OneExecutable ==
  ASSUME NEW e \in [Stems -> Nat], NEW j \in Stems, NEW k \in Nat,
         NEW d, d = [e EXCEPT ![j] = k]
  PROVE  d \in [Stems -> Nat] /\ \A f \in Stems : d[f] = IF f = j THEN k ELSE e[f]
OBVIOUS

LEMMA WriteOrder == ASSUME InOrder, WriteFile PROVE InOrder'
<1>1. /\ \/ cpp' = [cpp EXCEPT ![job] = [n |-> Len(session), whole |-> TRUE]]
         \/ UNCHANGED cpp
         \/ cpp' = [cpp EXCEPT ![job] = [n |-> Len(session), whole |-> FALSE]]
      /\ UNCHANGED <<session, job, exe, built>>
  BY DEF WriteFile, Write, Current, vars, history
<1>2. Len(session) \in Nat
  BY DEF InOrder, FilesOK
<1>3. job \in Stems /\ cpp \in [Stems -> [n : Nat, whole : BOOLEAN]]
  BY DEF InOrder, FilesOK
<1>4. /\ cpp' \in [Stems -> [n : Nat, whole : BOOLEAN]]
      /\ \A f \in Stems : cpp'[f].n \in {cpp[f].n, Len(session)}
  <2>1. CASE UNCHANGED cpp
    BY <1>3, <2>1, Zenon
  <2>2. ASSUME NEW b \in BOOLEAN, cpp' = [cpp EXCEPT ![job] = [n |-> Len(session), whole |-> b]]
        PROVE  /\ cpp' \in [Stems -> [n : Nat, whole : BOOLEAN]]
               /\ \A f \in Stems : cpp'[f].n \in {cpp[f].n, Len(session)}
    BY <1>2, <1>3, <2>2, OneFile
  <2>. QED BY <1>1, <2>1, <2>2
<1>5. FilesOK'
  BY <1>1, <1>4 DEF InOrder, FilesOK
<1>6. ASSUME NEW f \in Stems
      PROVE  /\ exe'[f] <= cpp'[f].n /\ cpp'[f].n <= Len(session')
             /\ exe'[f] # 0 => exe'[f] \in built'
  <2>1. exe[f] \in Nat /\ cpp[f].n \in Nat
    BY DEF InOrder, FilesOK
  <2>2. exe[f] <= cpp[f].n /\ cpp[f].n <= Len(session) /\ (exe[f] # 0 => exe[f] \in built)
    BY DEF InOrder, ExecutableInOrder, Current
  <2>. QED BY <1>1, <1>2, <1>4, <2>1, <2>2
<1>. QED BY <1>5, <1>6 DEF InOrder, ExecutableInOrder, Current

(* An executable is made of the source that is there, or is gone.          *)
LEMMA BuildOrder == ASSUME InOrder, BuildProgram \/ BuildFails PROVE InOrder'
<1>1. /\ UNCHANGED <<session, job, cpp, built>>
      /\ \/ cpp[job].n \in built /\ exe' = [exe EXCEPT ![job] = cpp[job].n]
         \/ UNCHANGED exe
         \/ exe' = [exe EXCEPT ![job] = 0]
  BY DEF BuildProgram, BuildFails, Builds, vars, history
<1>2. job \in Stems /\ cpp[job].n \in Nat
  BY DEF InOrder, FilesOK
<1>3. /\ exe' \in [Stems -> Nat]
      /\ \A f \in Stems : exe'[f] \in {exe[f], 0} \/ (exe'[f] = cpp[f].n /\ cpp[f].n \in built)
  <2>1. exe \in [Stems -> Nat]
    BY DEF InOrder, FilesOK
  <2>2. CASE UNCHANGED exe
    BY <2>1, <2>2, Zenon
  <2>3. CASE exe' = [exe EXCEPT ![job] = 0]
    BY <1>2, <2>1, <2>3, OneExecutable
  <2>4. CASE cpp[job].n \in built /\ exe' = [exe EXCEPT ![job] = cpp[job].n]
    BY <1>2, <2>1, <2>4, OneExecutable
  <2>. QED BY <1>1, <2>2, <2>3, <2>4
<1>4. FilesOK'
  BY <1>1, <1>3 DEF InOrder, FilesOK
<1>5. ASSUME NEW f \in Stems
      PROVE  /\ exe'[f] <= cpp'[f].n /\ cpp'[f].n <= Len(session')
             /\ exe'[f] # 0 => exe'[f] \in built'
  <2>1. exe[f] \in Nat /\ cpp[f].n \in Nat
    BY DEF InOrder, FilesOK
  <2>2. exe[f] <= cpp[f].n /\ cpp[f].n <= Len(session) /\ (exe[f] # 0 => exe[f] \in built)
    BY DEF InOrder, ExecutableInOrder, Current
  <2>3. exe'[f] \in {exe[f], 0} \/ (exe'[f] = cpp[f].n /\ cpp[f].n \in built)
    BY <1>3
  <2>. QED BY <1>1, <2>1, <2>2, <2>3
<1>. QED BY <1>4, <1>5 DEF InOrder, ExecutableInOrder, Current

LEMMA OrderStep == InOrder /\ [SessionNext]_svars => InOrder'
<1>. SUFFICES ASSUME InOrder, [SessionNext]_svars PROVE InOrder'
  OBVIOUS
<1>1. job \in Stems
  BY DEF InOrder, FilesOK
<1>2. CASE Input
  <2>1. UNCHANGED <<cpp, exe, built>> /\ job' \in Stems
    <3>1. ASSUME NEW prompt, NEW name \in Stems, Compile(prompt, name)
          PROVE  UNCHANGED <<cpp, exe, built>> /\ job' \in Stems
      BY <3>1 DEF Compile, files
    <3>2. CASE RunCLI \/ TypeNonsense \/ TypeExit \/ NextShell
      BY <1>1, <3>2 DEF RunCLI, TypeNonsense, TypeExit, NextShell, svars, files
    <3>3. CASE ExecuteFile \/ TypeProgram \/ TypeEof
      BY <3>1, <3>3, SessionAssumption DEF ExecuteFile, ExecuteError, TypeProgram, TypeEof
    <3>. QED BY <1>2, <3>2, <3>3 DEF Input
  <2>. QED BY <2>1, OtherSteps
<1>3. CASE Transforming
  <2>1. UNCHANGED <<cpp, exe, job>> /\ built \subseteq built'
    BY <1>3 DEF Transforming
  <2>. QED BY <1>1, <2>1, OtherSteps
<1>4. CASE Quiet \/ UNCHANGED svars
  <2>1. UNCHANGED <<cpp, exe, job, built>>
    BY <1>4 DEF Quiet, svars, files
  <2>. QED BY <1>1, <2>1, OtherSteps
<1>. QED BY <1>2, <1>3, <1>4, WriteOrder, BuildOrder DEF SessionNext, Machine

(* ExecutableInOrder, for any session: whatever fails in compile_from_cpp, *)
(* an executable is never ahead of its .cpp file, nor that of a program    *)
(* g++ does not accept.                                                    *)
THEOREM ExecutableInOrderHolds == SessionSpec => []ExecutableInOrder
<1>1. InOrder => ExecutableInOrder
  BY DEF InOrder
<1>. QED BY <1>1, InitOrder, OrderStep, PTL DEF SessionSpec


-----------------------------------------------------------------------------
(* The steps of a session are steps of transform, or leave it alone: what  *)
(* is proved of transform holds between its steps and those around it.     *)
LEMMA SessionSteps == [SessionNext]_svars => [Steps]_vars
<1>. SUFFICES ASSUME [SessionNext]_svars PROVE [Steps]_vars
  OBVIOUS
<1>1. ASSUME NEW prompt \in Inputs, NEW name, Compile(prompt, name) PROVE Steps
  BY <1>1 DEF Compile, Steps
<1>2. ExecuteFile \/ TypeProgram \/ TypeEof => Steps
  BY <1>1 DEF ExecuteFile, ExecuteError, TypeProgram, TypeEof, Inputs
<1>3. Transforming => [Steps]_vars
  BY WalkIsSteps DEF Transforming
<1>4. NextShell => Steps
  BY DEF NextShell, Steps
<1>5. RunCLI \/ TypeNonsense \/ TypeExit \/ WriteFile \/ BuildProgram \/ BuildFails \/ Quiet
        => UNCHANGED vars
  BY DEF RunCLI, TypeNonsense, TypeExit, WriteFile, BuildProgram, BuildFails, Quiet, svars
<1>6. UNCHANGED svars => UNCHANGED vars
  BY DEF svars
<1>. QED BY <1>2, <1>3, <1>4, <1>5, <1>6 DEF SessionNext, Input, Machine

LEMMA SessionRuns == SessionSpec => Runs
<1>1. SessionInit => Init
  BY DEF SessionInit
<1>. QED BY <1>1, SessionSteps, PTL DEF SessionSpec, Runs

-----------------------------------------------------------------------------
(* A program without any of the reasons gets to its executable.            *)
Buildable ==
  /\ Resolved /\ ~HasNestedCase(Latest)
  /\ Distinct(drawn) /\ NamesOnce(Latest)

LEMMA BuildableAccepted == ASSUME Outcome, Compiled, Buildable PROVE Accepted
<1>1. program.called \subseteq program.declared
  BY OutcomeLinks DEF Links, Buildable
<1>2. \A m \in program.modules : Distinct(m.clauses)
  BY DEF Outcome, Settled, NoRepeats, Buildable
<1>3. \A m, n \in program.modules : m # n => Functions(m) \cap Functions(n) = {}
  <2>. SUFFICES ASSUME NEW m \in program.modules, NEW n \in program.modules, m # n,
                       NEW g \in m.managers, NEW h \in n.managers, g.function = h.function
                PROVE  FALSE
    BY DEF Functions
  <2>1. PICK c \in Range(m.clauses) : g.function = FunctionOf(c)
    BY DEF Outcome, Settled, Tried
  <2>2. PICK d \in Range(n.clauses) : h.function = FunctionOf(d)
    BY DEF Outcome, Settled, Tried
  <2>3. FunctionOf(c) # FunctionOf(d)
    BY DEF Outcome, Settled, Buildable
  <2>. QED BY <2>1, <2>2, <2>3
<1>. QED BY <1>1, <1>2, <1>3 DEF Accepted

\* Where the shell, the prompt and compile_from_cpp are in transform.
Placing ==
  /\ at \in {"shell", "prompt", "transform", "write", "build"}
  /\ at \in {"prompt", "write", "build"} => phase = "idle"
  /\ at = "shell" => phase \in {"idle", "crashed"}
  /\ at = "transform" => phase \in {"walk", "cases"}

Way ==
  ~fault /\ ~rescued /\ Len(session) >= since /\ Buildable =>
    /\ at \in {"write", "build"} => Len(session) \in built
    /\ at = "build" => cpp[job].n = Len(session) /\ cpp[job].whole
    /\ Delivered => exe[job] = Len(session)

LEMMA PlacingStep == TransformInv' /\ Placing /\ [SessionNext]_svars => Placing'
<1>. SUFFICES ASSUME TransformInv', Placing, [SessionNext]_svars PROVE Placing'
  OBVIOUS
<1>1. ASSUME NEW prompt, NEW name, Compile(prompt, name) PROVE Placing'
  BY <1>1 DEF Compile, StartTransform, Placing
<1>2. CASE ExecuteFile \/ TypeProgram \/ TypeEof
  BY <1>1, <1>2 DEF ExecuteFile, ExecuteError, TypeProgram, TypeEof
<1>3. CASE RunCLI \/ TypeNonsense \/ TypeExit \/ NextShell
  BY <1>3 DEF RunCLI, TypeNonsense, TypeExit, NextShell, Restart, Rescue, Placing, vars, svars
<1>4. CASE Transforming
  BY <1>4 DEF Transforming, Placing, TransformInv, TypeOK
<1>5. CASE WriteFile \/ BuildProgram \/ BuildFails
  BY <1>5 DEF WriteFile, BuildProgram, BuildFails, Return, Placing, vars
<1>6. CASE Quiet \/ UNCHANGED svars
  BY <1>6 DEF Quiet, Placing, vars, svars
<1>. QED BY <1>2, <1>3, <1>4, <1>5, <1>6 DEF SessionNext, Input, Machine

LEMMA SameBuildable == UNCHANGED <<session, drawn, emitted>> => UNCHANGED Buildable
BY SameLatest DEF Buildable, Resolved

LEMMA WayStep == /\ InOrder /\ ProgramInv /\ ProgramInv' /\ Placing /\ Placing' /\ Way
                 /\ [SessionNext]_svars
                 => Way'
<1>. SUFFICES ASSUME InOrder, ProgramInv, ProgramInv', Placing, Placing', Way, [SessionNext]_svars,
                     ~fault', ~rescued', Len(session') >= since', Buildable'
              PROVE  /\ at' \in {"write", "build"} => Len(session') \in built'
                     /\ at' = "build" => cpp'[job'].n = Len(session') /\ cpp'[job'].whole
                     /\ Delivered' => exe'[job'] = Len(session')
  BY DEF Way
<1>1. CASE ExecuteFile \/ TypeProgram \/ TypeEof
  <2>1. ASSUME NEW prompt, NEW name, Compile(prompt, name) PROVE at' = "transform"
    BY <2>1 DEF Compile
  <2>2. at' = "transform"
    BY <1>1, <2>1 DEF ExecuteFile, ExecuteError, TypeProgram, TypeEof
  <2>. QED BY <2>2 DEF Delivered
<1>2. CASE NextShell
  <2>1. since \in Nat /\ Len(session) \in Nat
    BY DEF ProgramInv, WalkFacts, WalkInv, CrashInv, RowInv, Prompted
  <2>2. CASE Restart
    BY <2>1, <2>2 DEF Restart
  <2>3. CASE Rescue
    BY <2>3 DEF Rescue
  <2>. QED BY <1>2, <2>2, <2>3 DEF NextShell
<1>3. CASE RunCLI \/ TypeNonsense \/ TypeExit \/ Quiet \/ UNCHANGED svars
  <2>1. /\ UNCHANGED <<phase, session, since, rescued, drawn, emitted, job, cpp, exe, built, fault>>
        /\ UNCHANGED at \/ (at \in {"shell", "prompt"} /\ phase = "idle" /\ at' \in {"shell", "prompt"})
    BY <1>3 DEF RunCLI, TypeNonsense, TypeExit, Quiet, svars, vars, history, files, Placing
  <2>. QED BY <2>1, SameBuildable DEF Way, Delivered
<1>4. CASE Transforming
  <2>1. /\ UNCHANGED <<session, since>> /\ at \in {"transform"}
        /\ at' = CASE phase' = "idle" -> "write"
                   [] phase' = "crashed" -> "shell"
                   [] OTHER -> "transform"
        /\ built' = IF phase' = "idle" /\ Accepted' THEN built \cup {Len(session)} ELSE built
    BY <1>4, WalkIsSteps DEF Transforming, Current
  <2>2. ~Delivered' /\ at' # "build"
    BY <2>1 DEF Delivered
  <2>3. ASSUME at' = "write" PROVE Len(session') \in built'
    <3>1. phase' = "idle"
      BY <2>1, <2>3
    <3>2. Compiled'
      BY <3>1 DEF Compiled
    <3>3. Outcome' /\ Compiled' /\ Buildable' => Accepted'
      BY BuildableAccepted, PTL
    <3>4. Accepted'
      BY <3>2, <3>3 DEF ProgramInv
    <3>. QED BY <2>1, <3>1, <3>4
  <2>. QED BY <2>2, <2>3
<1>5. CASE WriteFile
  <2>1. /\ UNCHANGED <<phase, session, since, rescued, drawn, emitted, job, built>>
        /\ at = "write" /\ at' = "build" /\ ~fault
        /\ cpp' = Write(job, Len(session))
    BY <1>5 DEF WriteFile, Current, vars, history
  <2>2. Len(session) \in built
    BY <2>1, SameBuildable DEF Way
  <2>3. job \in Stems /\ cpp \in [Stems -> [n : Nat, whole : BOOLEAN]]
    BY DEF InOrder, FilesOK
  <2>4. cpp'[job] = [n |-> Len(session), whole |-> TRUE]
    BY <2>1, <2>3, Zenon DEF Write
  <2>. QED BY <2>1, <2>2, <2>4 DEF Delivered
<1>6. CASE BuildProgram
  <2>1. /\ UNCHANGED <<phase, session, since, rescued, drawn, emitted, job, cpp, built, fault>>
        /\ at = "build" /\ at' \in {"prompt", "shell"}
        /\ Builds(job) => exe' = [exe EXCEPT ![job] = cpp[job].n]
    BY <1>6 DEF BuildProgram, Return, vars, history
  <2>2. Len(session) \in built /\ cpp[job].n = Len(session) /\ cpp[job].whole
    BY <2>1, SameBuildable DEF Way
  <2>3. job \in Stems /\ exe \in [Stems -> Nat]
    BY DEF InOrder, FilesOK
  <2>4. exe' = [exe EXCEPT ![job] = Len(session)]
    BY <2>1, <2>2 DEF Builds
  <2>5. exe'[job] = Len(session)
    BY <2>3, <2>4
  <2>. QED BY <2>1, <2>5
<1>7. CASE BuildFails
  BY <1>7 DEF BuildFails
<1>. QED BY <1>1, <1>2, <1>3, <1>4, <1>5, <1>6, <1>7 DEF SessionNext, Input, Machine

(* StaleExplained, for any session: between the line that is typed and the *)
(* executable of compile_from_cpp nothing is lost but by a failure, an     *)
(* exception or what StaleExplained names in the program itself.           *)
THEOREM StaleExplainedHolds == SessionSpec => []StaleExplained
<1>1. SessionInit => Placing /\ Way
  BY DEF SessionInit, Init, Placing, Way
<1>2. Way => StaleExplained
  BY DEF Way, StaleExplained, Buildable, Current
<1>. QED BY <1>1, <1>2, SessionRuns, TransformInvHolds, ProgramInvHolds, InitOrder, OrderStep,
            PlacingStep, WayStep, PTL
         DEF SessionSpec
=============================================================================
