------------------------------- MODULE Session -------------------------------
(***************************************************************************)
(* What surrounds transform: ElixirAOT.execute_file, the prompt loop of    *)
(* ElixirAOT.CLI, and ElixirAOT.Compiler, which writes the program to a    *)
(* file and runs g++ without looking at how either went.  The variables    *)
(* and steps of Transform are those of the program being compiled; both    *)
(* ways in are called from one shell.                                      *)
(*                                                                         *)
(* A file is the number of the program in it (the length of the session    *)
(* when it was made), 0 when there is none; names are what is left of a    *)
(* path before its first dot, and the prompt's is "aot_cli".               *)
(***************************************************************************)
EXTENDS Transform

CONSTANT Stems   \* the names of the programs built

ASSUME SessionAssumption == "aot_cli" \in Stems

VARIABLES
  at,      \* "shell", "prompt", "transform", "write" or "build"
  cli,     \* the prompt loop is running
  job,     \* the name the program being compiled is built under
  cpp,     \* the programs in the .cpp files, and whether they are whole
  exe,     \* the programs in the executables
  built,   \* the numbers of the programs g++ accepts (history)
  fault    \* a write or g++ failed for reasons of its own (history)

files == <<cpp, exe, built>>

svars == <<vars, at, cli, job, files, fault>>

None == [n |-> 0, whole |-> FALSE]

Current == Len(session)

\* The functions a module's code defines.
Functions(m) == {g.function : g \in m.managers}

(* What g++ makes of the program: it calls what it defines, text being     *)
(* called what nobody defines, and defines nothing twice.  Two modules     *)
(* with functions of one joined name do.  The functions of the library are *)
(* not among the calls.                                                    *)
Accepted ==
  /\ program.called \subseteq program.declared
  /\ \A m \in program.modules : Distinct(m.clauses)
  /\ \A m, n \in program.modules : m # n => Functions(m) \cap Functions(n) = {}

-----------------------------------------------------------------------------
SessionInit ==
  /\ Init
  /\ at = "shell"
  /\ cli = FALSE
  /\ job = "aot_cli"
  /\ cpp = [f \in Stems |-> None]
  /\ exe = [f \in Stems |-> 0]
  /\ built = {}
  /\ fault = FALSE

\* main(0)
RunCLI ==
  /\ at = "shell" /\ phase = "idle"
  /\ at' = "prompt"
  /\ cli' = TRUE
  /\ UNCHANGED <<vars, job, files, fault>>

Compile(prompt, name) ==
  /\ StartTransform(prompt)
  /\ at' = "transform"
  /\ job' = name
  /\ UNCHANGED <<cli, files, fault>>

(* code_to_ast returns :error, and execute_file compiles that: an atom,    *)
(* which calls nothing.                                                    *)
ExecuteError(name) == Compile(<<>>, name)

ExecuteFile ==
  /\ at = "shell"
  /\ \E name \in Stems :
       \/ \E prompt \in Prompts : Compile(prompt, name)
       \/ ExecuteError(name)

TypeProgram ==
  /\ at = "prompt"
  /\ \E prompt \in Prompts : Compile(prompt, "aot_cli")

(* After the last line IO.gets returns :eof, whose text is a variable.     *)
TypeEof == at = "prompt" /\ Compile(<<>>, "aot_cli")

\* A line that is no program: the error is logged, the prompt comes again.
TypeNonsense ==
  /\ at = "prompt"
  /\ UNCHANGED svars

(* The line "$exit" comes with its line feed and is no program; a last     *)
(* line without one ends the loop.                                         *)
TypeExit ==
  /\ at = "prompt"
  /\ \/ UNCHANGED <<at, cli>>
     \/ at' = "shell" /\ cli' = FALSE
  /\ UNCHANGED <<vars, job, files, fault>>

-----------------------------------------------------------------------------
\* An exception ends execute_file and the loop.
Transforming ==
  /\ at = "transform"
  /\ Walk
  /\ at' = CASE phase' = "idle" -> "write"
             [] phase' = "crashed" -> "shell"
             [] OTHER -> "transform"
  /\ cli' = (cli /\ phase' # "crashed")
  /\ built' = IF phase' = "idle" /\ Accepted' THEN built \cup {Current} ELSE built
  /\ UNCHANGED <<job, cpp, exe, fault>>

\* A new shell, or the old one with its tables.
NextShell ==
  /\ at = "shell"
  /\ Restart \/ Rescue
  /\ UNCHANGED <<at, cli, job, files, fault>>

\* Mutant: what is left of a failed write is the earlier program's.
WriteBehind(name, n) == [cpp EXCEPT ![name] = [n |-> n - 1, whole |-> TRUE]]

Write(name, n) == [cpp EXCEPT ![name] = [n |-> n, whole |-> TRUE]]

(* File.write: all of it, nothing, or a part; compile_from_cpp goes on.    *)
WriteFile ==
  /\ at = "write"
  /\ at' = "build"
  /\ \/ cpp' = Write(job, Current) /\ UNCHANGED fault
     \/ UNCHANGED cpp /\ fault' = TRUE
     \/ cpp' = [cpp EXCEPT ![job] = [n |-> Current, whole |-> FALSE]] /\ fault' = TRUE
  /\ UNCHANGED <<vars, cli, job, exe, built>>

\* Where compile_from_cpp returns to.
Return == at' = IF cli THEN "prompt" ELSE "shell"

\* Mutant: a program that does not link leaves an executable.
BuildsAnything(name) == cpp[name].n # 0

\* Whether g++ accepts the .cpp file of a name.
Builds(name) == cpp[name].whole /\ cpp[name].n \in built

(* g++ on the file as it is.  When it refuses it, the executable is the    *)
(* old one (an error of the compiler) or gone (an error of the linker).    *)
BuildProgram ==
  /\ at = "build"
  /\ IF Builds(job)
     THEN exe' = [exe EXCEPT ![job] = cpp[job].n]
     ELSE exe' \in {exe, [exe EXCEPT ![job] = 0]}
  /\ Return
  /\ UNCHANGED <<vars, cli, job, cpp, built, fault>>

(* g++ fails on a good file (no library, no room), or there is no g++ and  *)
(* System.cmd raises.                                                      *)
BuildFails ==
  /\ at = "build"
  /\ fault' = TRUE
  /\ \/ exe' \in {exe, [exe EXCEPT ![job] = 0]} /\ Return /\ UNCHANGED cli
     \/ UNCHANGED exe /\ at' = "shell" /\ cli' = FALSE
  /\ UNCHANGED <<vars, job, cpp, built>>

Quiet ==
  /\ at \in {"shell", "prompt"} /\ phase = "idle" /\ Current = MaxPrompts
  /\ UNCHANGED svars

Input == RunCLI \/ ExecuteFile \/ TypeProgram \/ TypeEof \/ TypeNonsense \/ TypeExit \/ NextShell

\* The steps nobody has to be waited for.
Machine == Transforming \/ WriteFile \/ BuildProgram \/ BuildFails

SessionNext == Input \/ Machine \/ Quiet

SessionSpec == SessionInit /\ [][SessionNext]_svars /\ WF_svars(Machine)

-----------------------------------------------------------------------------
\* The latest program has been through compile_from_cpp.
Delivered == at = "prompt" \/ (at = "shell" /\ phase = "idle")

(* The executable of a name is behind its source or level with it, never   *)
(* ahead, and the program in it is one g++ accepts: through failed writes, *)
(* refused programs, exceptions and restarts, and names used by the prompt *)
(* and by files.                                                           *)
ExecutableInOrder ==
  \A f \in Stems :
    /\ exe[f] <= cpp[f].n /\ cpp[f].n <= Current
    /\ exe[f] # 0 => exe[f] \in built

(* An executable that is not that of the latest program has a reason: a    *)
(* write or g++ failed by itself, an exception ended the compilation, or   *)
(* in the program's code there was text that is no C++ or a call of a      *)
(* function it lacks, a case in a case, two clauses with one identifier,   *)
(* or functions of two modules with one joined name.                       *)
StaleExplained ==
  Delivered /\ ~fault /\ ~rescued /\ Current >= since /\ exe[job] # Current =>
    \/ ~Resolved \/ HasNestedCase(Latest)
    \/ ~Distinct(drawn) \/ ~NamesOnce(Latest)

(* Whatever is typed or run, the shell or the prompt is back in the end,   *)
(* unless a call is taken for a macro's that its module does not have with *)
(* so many arguments: this is expanded for ever.                           *)
Answers ==
  at \in {"write", "build"} \/ (at = "transform" /\ ~rescued /\ ~MistakesMacro(Latest))
    ~> at \in {"shell", "prompt"}

=============================================================================
