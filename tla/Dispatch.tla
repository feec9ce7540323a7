------------------------------ MODULE Dispatch ------------------------------
(***************************************************************************)
(* A generated program running: the code emitted for functions             *)
(* (create_managers and create_matching of lib/elixir_aot_modules.ex), for *)
(* cases (construct_cases of lib/elixir_aot_cases.ex) and for main         *)
(* (transform of lib/elixir_aot_transformator.ex) on the scope stack of    *)
(* aotlib.cpp.                                                             *)
(*                                                                         *)
(* calls is the C++ stack of emitted functions; each entry knows its       *)
(* argument, the clause it is at and the next statement of that clause's   *)
(* block:  push  match  guard  body  pop.  Bodies are left open: a body    *)
(* may bind, call, throw, exit or return in any order, so a behaviour of   *)
(* any program is a behaviour of this module.                              *)
(***************************************************************************)
EXTENDS Clauses

CONSTANTS
  NoCall,
  MaxCalls   \* bound on nested calls

ASSUME DispatchAssumption ==
  /\ MaxCalls \in Nat
  /\ NoCall \notin [callee : Callee, arg : Value]

VARIABLES
  scope,   \* EX_ENVIRONMENT.scope, the main program's binding first
  calls,   \* the running emitted functions, the innermost last
  status   \* "running", or how the process ended

vars == <<scope, calls, status>>

Points == {"push", "match", "guard", "body", "pop"}

Activation == [callee : Callee, arg : Value, clause : Nat \ {0}, at : Points]

Current == calls[Len(calls)]
CurrentClause == ClausesOf[Current.callee][Current.clause]

At(point) == status = "running" /\ calls # <<>> /\ Current.at = point

InBody == status = "running" /\ (calls # <<>> => Current.at = "body")

Goto(point) == calls' = [calls EXCEPT ![Len(calls)].at = point]

(* The process ends, or an ExObject unwinds to the handler in main, which  *)
(* ends it: no activation is left, and scopes stay pushed.                 *)
Unwind(how) == status' = how /\ calls' = <<>>

-----------------------------------------------------------------------------
(* The dispatch code of a function or case.                                *)

PushScope ==
  /\ At("push")
  /\ Current.clause <= Len(ClausesOf[Current.callee])
  /\ scope' = IF Current.callee \in Fun THEN Push(scope) ELSE PushCopy(scope)
  /\ Goto("match")
  /\ UNCHANGED status

(* Past the last clause: ExException_FunctionClauseError or                *)
(* ExException_CaseClauseError.                                            *)
NoClauseLeft ==
  /\ At("push")
  /\ Current.clause > Len(ClausesOf[Current.callee])
  /\ Unwind("abort")
  /\ UNCHANGED scope

(* ExMatch_tryMatch: what was written before a mismatch stays in the       *)
(* scope; only ExObject exceptions are caught.                             *)
TryMatch ==
  LET how == Outcome(CurrentClause, Current.arg) IN
  /\ At("match")
  /\ scope' = Write(scope, Writes(CurrentClause, Current.arg))
  /\ \/ /\ how \in {"match", "nomatch"}
        /\ Goto(IF how = "match" THEN "guard" ELSE "pop")
        /\ UNCHANGED status
     \/ /\ how \in {"foreign", "undefined"}
        /\ Unwind(how)

\* Mutant: the guard is computed and not asked.
EvalGuardIgnored ==
  LET result == Guard(CurrentClause, Top(scope)) IN
  /\ At("guard")
  /\ \/ result # "throw" /\ Goto("body") /\ UNCHANGED status
     \/ result = "throw" /\ Unwind("abort")
  /\ UNCHANGED scope

\* if (IS_TRUE(guard)): a guard calls library functions only.
EvalGuard ==
  LET result == Guard(CurrentClause, Top(scope)) IN
  /\ At("guard")
  /\ \/ /\ result # "throw"
        /\ Goto(IF result = "true" THEN "body" ELSE "pop")
        /\ UNCHANGED status
     \/ result = "throw" /\ Unwind("abort")
  /\ UNCHANGED scope

\* The activation a at the start of its next clause.
NextClause(a) == [a EXCEPT !.clause = @ + 1, !.at = "push"]

\* Mutant: the code of a clause jumps back to itself.
PopScopeAgain ==
  /\ At("pop")
  /\ scope' = Pop(scope)
  /\ Goto("push")
  /\ UNCHANGED status

\* Mutant: after a clause that did not apply the next one is passed over.
PopScopeSkipping ==
  /\ At("pop")
  /\ scope' = Pop(scope)
  /\ calls' = [calls EXCEPT ![Len(calls)] = NextClause(NextClause(@))]
  /\ UNCHANGED status

\* The clause did not apply: pop its scope and go to the next one.
PopScope ==
  /\ At("pop")
  /\ scope' = Pop(scope)
  /\ calls' = [calls EXCEPT ![Len(calls)] = NextClause(@)]
  /\ UNCHANGED status

-----------------------------------------------------------------------------
(* Bodies.                                                                 *)

Call(g, v) ==
  /\ InBody
  /\ Len(calls) < MaxCalls
  /\ calls' = Append(calls, [callee |-> g, arg |-> v, clause |-> 1, at |-> "push"])
  /\ UNCHANGED <<scope, status>>

\* pattern = value (ExMatch_pattern), the pattern being the one of clause c.
MatchInBody(c, v) ==
  LET how == Outcome(c, v) IN
  /\ InBody
  /\ scope' = Write(scope, Writes(c, v))
  /\ IF how = "match" THEN UNCHANGED <<calls, status>>
     ELSE Unwind(IF how = "nomatch" THEN "abort" ELSE how)

\* EX_ENVIRONMENT.get of a name that is not bound throws.
GetUnbound(x) ==
  InBody /\ GetFails(scope, x) /\ Unwind("abort") /\ UNCHANGED scope

\* raise, or a library function that throws.
Raise == InBody /\ Unwind("abort") /\ UNCHANGED scope

\* Kernel.exit.
KernelExit == InBody /\ Unwind("exited") /\ UNCHANGED scope

\* result = ...Clause(); EX_ENVIRONMENT.pop(); return result;
Return ==
  /\ At("body")
  /\ scope' = Pop(scope)
  /\ calls' = SubSeq(calls, 1, Len(calls) - 1)
  /\ UNCHANGED status

\* main returns 0.
MainReturns == InBody /\ calls = <<>> /\ Unwind("returned") /\ UNCHANGED scope

Ended == status # "running" /\ UNCHANGED vars

-----------------------------------------------------------------------------
\* main up to its try block: one scope is pushed.
Init ==
  /\ scope = <<Empty>>
  /\ calls = <<>>
  /\ status = "running"

Next ==
  \/ PushScope \/ NoClauseLeft \/ TryMatch \/ EvalGuard \/ PopScope
  \/ \E g \in Callee, v \in Value : Call(g, v)
  \/ \E c \in Clause, v \in Value : MatchInBody(c, v)
  \/ \E x \in Var : GetUnbound(x)
  \/ Raise \/ KernelExit \/ Return \/ MainReturns \/ Ended

Spec == Init /\ [][Next]_vars

(* The program is one thread that the operating system runs: it does not   *)
(* stop between two statements.                                            *)
FairSpec == Spec /\ WF_vars(Next)

-----------------------------------------------------------------------------
\* The binding activation i's clauses are matched in: its caller's is scope[i].
BaseOf(i) == Base(calls[i].callee, scope[i])

Ends == {"returned", "exited", "abort", "foreign", "undefined"}

(* The shape of the state (ExEnvironment::scope, the C++ call stack), and  *)
(* no activation is past the throw that ends its clause list.              *)
TypeOK ==
  /\ scope \in Seq(Binding)
  /\ calls \in Seq(Activation)
  /\ \A i \in DOMAIN calls : calls[i].clause <= Len(ClausesOf[calls[i].callee]) + 1
  /\ status \in {"running"} \cup Ends

(* Pushes and pops balance on every path through the emitted code,         *)
(* rejected patterns and guards included: the stack holds one scope for    *)
(* main and one for every running clause, and only the innermost call is   *)
(* being dispatched.  A missing or a second pop shows calls later, when    *)
(* get looks in someone else's binding.                                    *)
ScopeDepth ==
  status = "running" =>
    /\ Len(scope) = Len(calls) + (IF At("push") THEN 0 ELSE 1)
    /\ \A i \in 1..Len(calls) - 1 : calls[i].at = "body"

(* A running body is the first clause that accepts the argument: every     *)
(* clause before it rejected it, judged in the binding the call started    *)
(* from, not in what earlier clauses left behind.                          *)
FirstMatch ==
  \A i \in DOMAIN calls :
    LET a == calls[i] IN
    /\ FirstUpTo(a.callee, a.clause, a.arg, BaseOf(i))
    /\ a.at = "body" => /\ a.clause \in DOMAIN ClausesOf[a.callee]
                        /\ Accepts(ClausesOf[a.callee][a.clause], a.arg, BaseOf(i))

(* A clause starts from its base binding alone, its guard sees what its    *)
(* own pattern bound, and what the head bound keeps its value as long as   *)
(* the body runs, whatever it calls or binds.                              *)
HeadBindingsKept ==
  \A i \in DOMAIN calls :
    LET a == calls[i]
        head == Bound(ClausesOf[a.callee][a.clause], a.arg, BaseOf(i))
    IN  /\ a.at = "match" => scope[i + 1] = BaseOf(i)
        /\ a.at = "guard" => scope[i + 1] = head
        /\ a.at = "body"  => \A x \in Var :
                               head[x] # Unbound => scope[i + 1][x] = head[x]

(* No step touches a binding below the top or drops more than one scope,   *)
(* so a caller gets its variables back as it left them.                    *)
LowerScopesKept ==
  /\ Len(scope') >= Len(scope) - 1
  /\ \A i \in 1..Len(scope) - 1 : scope'[i] = scope[i]

CallerIsolated == [][LowerScopesKept]_scope

(* The dispatch loop ends: a call reaches a body or the process ends.      *)
DispatchEnds == (status = "running" /\ ~InBody) ~> (InBody \/ status # "running")

(* The one global stack implements private bindings: while a call is       *)
(* dispatched the innermost scope is scratch, and after an exception the   *)
(* scopes left on the stack belong to nobody.                              *)
Running == status = "running"
Dispatching == Running /\ ~InBody

OwnBindings ==
  IF ~Running THEN <<>>
  ELSE IF InBody THEN scope ELSE SubSeq(scope, 1, Len(calls))

BeingDispatched ==
  IF Dispatching THEN [callee |-> Current.callee, arg |-> Current.arg] ELSE NoCall

Lexical == INSTANCE LexicalCalls WITH envs <- OwnBindings, pending <- BeingDispatched

ImplementsLexicalCalls == Lexical!Spec
=============================================================================
