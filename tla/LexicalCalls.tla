---------------------------- MODULE LexicalCalls ----------------------------
(***************************************************************************)
(* What calling a function or evaluating a case promises a program,        *)
(* whatever stack it is implemented with: every activation has a binding   *)
(* of its own; a call runs the first clause that accepts the argument, on  *)
(* exactly what that clause binds; nothing an activation does reaches the  *)
(* binding of another; returning gives the caller its own binding back.    *)
(***************************************************************************)
EXTENDS Clauses

CONSTANT NoCall   \* no call is being dispatched

VARIABLES
  envs,     \* the bindings of the running activations, the main program first
  pending,  \* the call that is being dispatched
  status    \* "running", or how the process ended

vars == <<envs, pending, status>>

Ends == {"returned", "exited", "abort", "foreign", "undefined"}

Init ==
  /\ envs = <<Empty>>
  /\ pending = NoCall
  /\ status = "running"

\* The process ends; no activation is left.
End(how) ==
  /\ status = "running"
  /\ status' = how
  /\ envs' = <<>>
  /\ pending' = NoCall

Idle == status = "running" /\ pending = NoCall

Call(g, v) ==
  /\ Idle
  /\ pending' = [callee |-> g, arg |-> v]
  /\ UNCHANGED <<envs, status>>

\* The call is answered by its first clause that accepts the argument.
Enter ==
  /\ status = "running" /\ pending # NoCall
  /\ LET g == pending.callee
         v == pending.arg
         b == Base(g, Top(envs))
     IN  \E k \in DOMAIN ClausesOf[g] :
           /\ FirstUpTo(g, k, v, b)
           /\ Accepts(ClausesOf[g][k], v, b)
           /\ envs' = Append(envs, Bound(ClausesOf[g][k], v, b))
  /\ pending' = NoCall
  /\ UNCHANGED status

\* No clause accepts it: CaseClauseError or FunctionClauseError.
NoClause ==
  /\ status = "running" /\ pending # NoCall
  /\ FirstUpTo(pending.callee, Len(ClausesOf[pending.callee]) + 1, pending.arg,
               Base(pending.callee, Top(envs)))
  /\ End("abort")

\* The first clause that does not reject it throws or faults.
Fault ==
  /\ status = "running" /\ pending # NoCall
  /\ LET g == pending.callee
         v == pending.arg
         b == Base(g, Top(envs))
     IN  \E k \in DOMAIN ClausesOf[g] :
           LET c == ClausesOf[g][k] IN
           /\ FirstUpTo(g, k, v, b)
           /\ \/ Outcome(c, v) \in {"foreign", "undefined"} /\ End(Outcome(c, v))
              \/ /\ Outcome(c, v) = "match"
                 /\ Guard(c, Bound(c, v, b)) = "throw"
                 /\ End("abort")

\* The running activation binds names of its own.
Bind(w) == Idle /\ envs' = Write(envs, w) /\ UNCHANGED <<pending, status>>

Return == Idle /\ Len(envs) > 1 /\ envs' = Pop(envs) /\ UNCHANGED <<pending, status>>

\* The main program reaches its end only with every call returned.
Finish == Idle /\ Len(envs) = 1 /\ End("returned")

\* A body throws, faults or exits the process.
Break == Idle /\ \E how \in Ends \ {"returned"} : End(how)

Next ==
  \/ \E g \in Callee, v \in Value : Call(g, v)
  \/ Enter \/ NoClause \/ Fault
  \/ \E w \in Binding : Bind(w)
  \/ Return \/ Finish \/ Break

Spec == Init /\ [][Next]_vars
=============================================================================
