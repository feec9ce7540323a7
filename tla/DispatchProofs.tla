--------------------------- MODULE DispatchProofs ---------------------------
(***************************************************************************)
(* What module Dispatch states of a generated program, for every program:  *)
(* any functions, cases, clauses, patterns, guards and values, and calls   *)
(* nested up to any bound.                                                 *)
(***************************************************************************)
EXTENDS Dispatch, SequenceTheorems, TLAPS

LEMMA DropLast ==
  ASSUME NEW S, NEW s \in Seq(S), s # <<>>
  PROVE  /\ SubSeq(s, 1, Len(s) - 1) \in Seq(S)
         /\ Len(SubSeq(s, 1, Len(s) - 1)) = Len(s) - 1
         /\ \A i \in 1..Len(s) - 1 : SubSeq(s, 1, Len(s) - 1)[i] = s[i]
<1>. DEFINE n == Len(s) - 1
<1>1. n \in Nat
  BY EmptySeq
<1>2. \A i \in 1..n : s[i] \in S
  BY <1>1, ElementOfSeq
<1>. HIDE DEF n
<1>3. /\ SubSeq(s, 1, n) \in Seq(S)
      /\ Len(SubSeq(s, 1, n)) = IF 1 <= n THEN n - 1 + 1 ELSE 0
      /\ \A i \in 1..n - 1 + 1 : SubSeq(s, 1, n)[i] = s[1 + i - 1]
  BY <1>1, <1>2, SubSeqProperties
<1>4. /\ Len(SubSeq(s, 1, n)) = n
      /\ \A i \in 1..n : SubSeq(s, 1, n)[i] = s[i]
  BY <1>1, <1>3
<1>. QED  BY <1>3, <1>4 DEF n

-----------------------------------------------------------------------------
(* The scope stack (module Environment).                                   *)

LEMMA InsertType ==
  ASSUME NEW b \in Binding, NEW w \in Binding
  PROVE  Insert(b, w) \in Binding
BY DEF Insert, Binding

LEMMA EmptyType == Empty \in Binding
BY DEF Empty, Binding

LEMMA PushFacts ==
  ASSUME NEW s \in Seq(Binding)
  PROVE  /\ Push(s) \in Seq(Binding)
         /\ Len(Push(s)) = Len(s) + 1
         /\ \A i \in 1..Len(s) : Push(s)[i] = s[i]
         /\ Push(s)[Len(s) + 1] = Empty
BY EmptyType DEF Push

LEMMA PushCopyFacts ==
  ASSUME NEW s \in Seq(Binding), s # <<>>
  PROVE  /\ PushCopy(s) \in Seq(Binding)
         /\ Len(PushCopy(s)) = Len(s) + 1
         /\ \A i \in 1..Len(s) : PushCopy(s)[i] = s[i]
         /\ PushCopy(s)[Len(s) + 1] = s[Len(s)]
<1>1. Top(s) \in Binding
  BY DEF Top
<1>. QED  BY <1>1 DEF PushCopy, Top

LEMMA PopFacts ==
  ASSUME NEW s \in Seq(Binding), s # <<>>
  PROVE  /\ Pop(s) \in Seq(Binding)
         /\ Len(Pop(s)) = Len(s) - 1
         /\ \A i \in 1..Len(s) - 1 : Pop(s)[i] = s[i]
BY DropLast DEF Pop

LEMMA WriteFacts ==
  ASSUME NEW s \in Seq(Binding), s # <<>>, NEW w \in Binding
  PROVE  /\ Write(s, w) \in Seq(Binding)
         /\ Len(Write(s, w)) = Len(s)
         /\ \A i \in 1..Len(s) - 1 : Write(s, w)[i] = s[i]
         /\ Write(s, w)[Len(s)] = Insert(s[Len(s)], w)
<1>1. Len(s) \in 1..Len(s)
  BY EmptySeq
<1>2. Insert(s[Len(s)], w) \in Binding
  BY <1>1, InsertType, ElementOfSeq
<1>3. Write(s, w) = [s EXCEPT ![Len(s)] = Insert(s[Len(s)], w)]
  BY DEF Write
<1>. QED  BY <1>1, <1>2, <1>3, ExceptSeq

-----------------------------------------------------------------------------
(* The stack of activations.                                               *)

LEMMA CurrentType ==
  ASSUME calls \in Seq(Activation), calls # <<>>
  PROVE  /\ Len(calls) \in Nat \ {0}
         /\ Current \in Activation
         /\ \A i \in 1..Len(calls) : calls[i] \in Activation
BY EmptySeq, ElementOfSeq DEF Current

LEMMA GotoFacts ==
  ASSUME calls \in Seq(Activation), calls # <<>>, NEW p \in Points, Goto(p)
  PROVE  /\ calls' \in Seq(Activation)
         /\ Len(calls') = Len(calls)
         /\ \A i \in 1..Len(calls) - 1 : calls'[i] = calls[i]
         /\ calls'[Len(calls)] = [Current EXCEPT !.at = p]
<1>1. [Current EXCEPT !.at = p] \in Activation
  BY CurrentType DEF Activation
<1>2. calls' = [calls EXCEPT ![Len(calls)] = [Current EXCEPT !.at = p]]
  BY DEF Goto, Current
<1>. QED  BY <1>1, <1>2, CurrentType, ExceptSeq

LEMMA NextClauseType ==
  ASSUME NEW a \in Activation
  PROVE  /\ NextClause(a) \in Activation
         /\ NextClause(a) = [callee |-> a.callee, arg |-> a.arg,
                             clause |-> a.clause + 1, at |-> "push"]
<1>1. NextClause(a) = [callee |-> a.callee, arg |-> a.arg,
                       clause |-> a.clause + 1, at |-> "push"]
  <2>1. a = [callee |-> a.callee, arg |-> a.arg, clause |-> a.clause, at |-> a.at]
    BY DEF Activation
  <2>2. [a EXCEPT !.clause = a.clause + 1] =
          [callee |-> a.callee, arg |-> a.arg, clause |-> a.clause + 1, at |-> a.at]
    BY <2>1
  <2>3. NextClause(a) = [[a EXCEPT !.clause = a.clause + 1] EXCEPT !.at = "push"]
    BY DEF NextClause
  <2>. QED  BY <2>2, <2>3
<1>2. a.clause + 1 \in Nat \ {0}
  BY DEF Activation
<1>. QED  BY <1>1, <1>2 DEF Activation, Points

LEMMA NextClauseFacts ==
  ASSUME calls \in Seq(Activation), calls # <<>>,
         calls' = [calls EXCEPT ![Len(calls)] = NextClause(@)]
  PROVE  /\ calls' \in Seq(Activation)
         /\ Len(calls') = Len(calls)
         /\ \A i \in 1..Len(calls) - 1 : calls'[i] = calls[i]
         /\ calls'[Len(calls)] = NextClause(Current)
<1>1. NextClause(Current) \in Activation
  BY CurrentType, NextClauseType
<1>2. calls' = [calls EXCEPT ![Len(calls)] = NextClause(Current)]
  BY DEF Current
<1>. QED  BY <1>1, <1>2, CurrentType, ExceptSeq

LEMMA CallFacts ==
  ASSUME calls \in Seq(Activation), NEW g \in Callee, NEW v \in Value, Call(g, v)
  PROVE  /\ calls' \in Seq(Activation)
         /\ Len(calls') = Len(calls) + 1
         /\ \A i \in 1..Len(calls) : calls'[i] = calls[i]
         /\ calls'[Len(calls) + 1] =
              [callee |-> g, arg |-> v, clause |-> 1, at |-> "push"]
<1>1. [callee |-> g, arg |-> v, clause |-> 1, at |-> "push"] \in Activation
  BY DEF Activation, Points
<1>. QED  BY <1>1 DEF Call

LEMMA ReturnFacts ==
  ASSUME calls \in Seq(Activation), Return
  PROVE  /\ calls # <<>>
         /\ calls' \in Seq(Activation)
         /\ Len(calls') = Len(calls) - 1
         /\ \A i \in 1..Len(calls) - 1 : calls'[i] = calls[i]
<1>1. calls # <<>>
  BY DEF Return, At
<1>. QED  BY <1>1, DropLast DEF Return

-----------------------------------------------------------------------------
(* The invariant.  FirstMatch and HeadBindingsKept speak of the clause an  *)
(* activation is at and of scopes[i] and scope[i + 1], so they need that   *)
(* both exist: that is ClauseInRange and ScopeDepth.                       *)

\* Only at the start of a clause can the list of clauses be exhausted.
ClauseInRange ==
  \A i \in DOMAIN calls :
    calls[i].at # "push" => calls[i].clause \in DOMAIN ClausesOf[calls[i].callee]

Balanced == TypeOK /\ ScopeDepth /\ ClauseInRange

LEMMA ClausesType ==
  ASSUME NEW g \in Callee
  PROVE  /\ ClausesOf[g] \in Seq(Clause)
         /\ Len(ClausesOf[g]) \in Nat
         /\ DOMAIN ClausesOf[g] = 1..Len(ClausesOf[g])
         /\ \A k \in 1..Len(ClausesOf[g]) : ClausesOf[g][k] \in Clause
<1>1. ClausesOf[g] \in Seq(Clause)
  BY ClausesAssumption
<1>. QED  BY <1>1, LenProperties, ElementOfSeq

LEMMA CurrentClauseType ==
  ASSUME Balanced, calls # <<>>, Current.at # "push"
  PROVE  /\ Current \in Activation
         /\ Current.clause \in 1..Len(ClausesOf[Current.callee])
         /\ CurrentClause \in Clause
<1>1. /\ Current \in Activation
      /\ Current.callee \in Callee
  BY CurrentType DEF Balanced, TypeOK, Activation
<1>2. Len(calls) \in DOMAIN calls
  BY CurrentType, LenProperties DEF Balanced, TypeOK
<1>3. Current.clause \in DOMAIN ClausesOf[Current.callee]
  BY <1>2 DEF Balanced, ClauseInRange, Current
<1>. QED  BY <1>1, <1>3, ClausesType DEF CurrentClause

LEMMA OutcomeType ==
  ASSUME NEW c \in Clause, NEW v \in Value
  PROVE  Outcome(c, v) \in Outcomes /\ Writes(c, v) \in Binding
BY ClausesAssumption

LEMMA ScopeNotEmpty ==
  ASSUME Balanced, status = "running"
  PROVE  /\ scope # <<>>
         /\ Len(scope) \in Nat \ {0}
         /\ Len(calls) \in Nat
<1>1. Len(scope) \in Nat /\ Len(calls) \in Nat
  BY LenProperties DEF Balanced, TypeOK
<1>2. CASE calls = <<>>
  BY <1>1, <1>2 DEF Balanced, ScopeDepth, At
<1>3. CASE calls # <<>>
  <2>1. Len(calls) > 0
    BY <1>3, EmptySeq DEF Balanced, TypeOK
  <2>2. Len(scope) > 0
    BY <1>1, <2>1 DEF Balanced, ScopeDepth
  <2>. QED  BY <1>1, <2>2
<1>. QED  BY <1>2, <1>3

\* Once no activation is left there is nothing to balance.
LEMMA UnwindBalanced ==
  ASSUME NEW how \in Ends, Unwind(how), scope' \in Seq(Binding)
  PROVE  Balanced'
BY DEF Unwind, Balanced, TypeOK, ScopeDepth, ClauseInRange, Ends, At

LEMMA InitBalanced == Init => Balanced
<1>1. <<Empty>> \in Seq(Binding)
  BY EmptyType
<1>. QED  BY <1>1 DEF Init, Balanced, TypeOK, ScopeDepth, ClauseInRange, At

(* A step that moves the innermost activation to another point of its      *)
(* clause keeps the balance if the depth of the scope is right there.      *)
LEMMA GotoBalanced ==
  ASSUME Balanced, status = "running", calls # <<>>,
         NEW p \in Points \ {"push"}, Goto(p),
         UNCHANGED status, scope' \in Seq(Binding),
         Len(scope') = Len(calls) + 1,
         Current.clause \in 1..Len(ClausesOf[Current.callee])
  PROVE  Balanced'
<1>. USE DEF Balanced
<1>1. /\ calls' \in Seq(Activation)
      /\ Len(calls') = Len(calls)
      /\ \A i \in 1..Len(calls) - 1 : calls'[i] = calls[i]
      /\ calls'[Len(calls)] = [Current EXCEPT !.at = p]
  BY GotoFacts DEF TypeOK
<1>2. /\ Len(calls) \in Nat \ {0}
      /\ Current \in Activation
      /\ DOMAIN calls = 1..Len(calls)
      /\ DOMAIN calls' = 1..Len(calls)
  BY <1>1, CurrentType, LenProperties DEF TypeOK
<1>3. /\ calls'[Len(calls)].at = p
      /\ calls'[Len(calls)].clause = Current.clause
      /\ calls'[Len(calls)].callee = Current.callee
      /\ Current.callee \in Callee
  BY <1>1, <1>2 DEF Activation
<1>4. Len(ClausesOf[Current.callee]) \in Nat
  BY <1>3, ClausesType
<1>5. TypeOK'
  <2>1. ASSUME NEW i \in DOMAIN calls'
        PROVE  calls'[i].clause <= Len(ClausesOf[calls'[i].callee]) + 1
    <3>1. CASE i = Len(calls)
      BY <1>3, <1>4, <3>1
    <3>2. CASE i # Len(calls)
      <4>1. i \in DOMAIN calls /\ calls'[i] = calls[i]
        BY <1>1, <1>2, <3>2
      <4>. QED  BY <1>1, <4>1 DEF TypeOK
    <3>. QED  BY <3>1, <3>2
  <2>. QED  BY <1>1, <2>1 DEF TypeOK
<1>6. ScopeDepth'
  <2>1. ~At("push")'
    BY <1>1, <1>3 DEF At, Current
  <2>. QED  BY <1>1, <1>2, <2>1 DEF ScopeDepth
<1>7. ClauseInRange'
  <2>1. ASSUME NEW i \in DOMAIN calls', calls'[i].at # "push"
        PROVE  calls'[i].clause \in DOMAIN ClausesOf[calls'[i].callee]
    <3>1. CASE i = Len(calls)
      BY <1>3, <3>1, ClausesType
    <3>2. CASE i # Len(calls)
      BY <1>1, <1>2, <2>1, <3>2 DEF ClauseInRange
    <3>. QED  BY <3>1, <3>2
  <2>. QED  BY <2>1 DEF ClauseInRange
<1>. QED  BY <1>5, <1>6, <1>7

LEMMA PushScopeBalanced == Balanced /\ PushScope => Balanced'
<1>. SUFFICES ASSUME Balanced, PushScope  PROVE Balanced'
  OBVIOUS
<1>1. /\ status = "running" /\ calls # <<>> /\ Current.at = "push"
      /\ UNCHANGED status /\ Goto("match")
  BY DEF PushScope, At
<1>2. /\ scope \in Seq(Binding) /\ scope # <<>>
      /\ Len(scope) = Len(calls)
      /\ Len(calls) \in Nat
  BY <1>1, ScopeNotEmpty DEF Balanced, TypeOK, ScopeDepth, At
<1>3. scope' \in Seq(Binding) /\ Len(scope') = Len(calls) + 1
  BY <1>2, PushFacts, PushCopyFacts DEF PushScope
<1>4. Current \in Activation
  BY <1>1, CurrentType DEF Balanced, TypeOK
<1>5. Current.clause \in 1..Len(ClausesOf[Current.callee])
  BY <1>4, ClausesType DEF PushScope, Activation
<1>. QED  BY <1>1, <1>3, <1>5, GotoBalanced DEF Points

LEMMA TryMatchBalanced == Balanced /\ TryMatch => Balanced'
<1>. SUFFICES ASSUME Balanced, TryMatch  PROVE Balanced'
  OBVIOUS
<1>. DEFINE how == Outcome(CurrentClause, Current.arg)
            w == Writes(CurrentClause, Current.arg)
<1>1. status = "running" /\ calls # <<>> /\ Current.at = "match"
  BY DEF TryMatch, At
<1>2. /\ Current.clause \in 1..Len(ClausesOf[Current.callee])
      /\ how \in Outcomes
      /\ w \in Binding
  BY <1>1, CurrentClauseType, OutcomeType DEF Activation
<1>3. /\ scope \in Seq(Binding) /\ scope # <<>>
      /\ Len(scope) = Len(calls) + 1
  BY <1>1, ScopeNotEmpty DEF Balanced, TypeOK, ScopeDepth, At
<1>4. scope' \in Seq(Binding) /\ Len(scope') = Len(calls) + 1
  BY <1>2, <1>3, WriteFacts DEF TryMatch
<1>5. CASE how \in {"match", "nomatch"}
  <2>1. UNCHANGED status /\ Goto(IF how = "match" THEN "guard" ELSE "pop")
    BY <1>5 DEF TryMatch
  <2>. QED  BY <1>1, <1>2, <1>4, <2>1, GotoBalanced DEF Points
<1>6. CASE how \in {"foreign", "undefined"}
  <2>1. Unwind(how) /\ how \in Ends
    BY <1>6 DEF TryMatch, Ends
  <2>. QED  BY <1>4, <2>1, UnwindBalanced
<1>. QED  BY <1>2, <1>5, <1>6 DEF Outcomes

LEMMA EvalGuardBalanced == Balanced /\ EvalGuard => Balanced'
<1>. SUFFICES ASSUME Balanced, EvalGuard  PROVE Balanced'
  OBVIOUS
<1>1. status = "running" /\ calls # <<>> /\ Current.at = "guard"
  BY DEF EvalGuard, At
<1>2. Current.clause \in 1..Len(ClausesOf[Current.callee])
  BY <1>1, CurrentClauseType
<1>3. scope' \in Seq(Binding) /\ Len(scope') = Len(calls) + 1
  BY <1>1 DEF EvalGuard, Balanced, TypeOK, ScopeDepth, At
<1>4. CASE Guard(CurrentClause, Top(scope)) # "throw"
  <2>1. UNCHANGED status /\ \E p \in {"body", "pop"} : Goto(p)
    BY <1>4 DEF EvalGuard
  <2>. QED  BY <1>1, <1>2, <1>3, <2>1, GotoBalanced DEF Points
<1>5. CASE Guard(CurrentClause, Top(scope)) = "throw"
  BY <1>3, <1>5, UnwindBalanced DEF EvalGuard, Ends
<1>. QED  BY <1>4, <1>5

LEMMA PopScopeBalanced == Balanced /\ PopScope => Balanced'
<1>. SUFFICES ASSUME Balanced, PopScope  PROVE Balanced'
  OBVIOUS
<1>. DEFINE n == Len(calls)
<1>1. status = "running" /\ calls # <<>> /\ Current.at = "pop" /\ status' = status
  BY DEF PopScope, At
<1>2. /\ Current \in Activation
      /\ Current.clause \in 1..Len(ClausesOf[Current.callee])
      /\ Current.callee \in Callee
  BY <1>1, CurrentClauseType DEF Activation
<1>3. /\ calls' \in Seq(Activation)
      /\ Len(calls') = n
      /\ \A i \in 1..n - 1 : calls'[i] = calls[i]
      /\ calls'[n] = NextClause(Current)
      /\ n \in Nat \ {0}
      /\ DOMAIN calls = 1..n
      /\ DOMAIN calls' = 1..n
  BY <1>1, NextClauseFacts, CurrentType, LenProperties DEF PopScope, Balanced, TypeOK
<1>4. /\ calls'[n].at = "push"
      /\ calls'[n].clause = Current.clause + 1
      /\ calls'[n].callee = Current.callee
  BY <1>2, <1>3, NextClauseType
<1>5. scope' \in Seq(Binding) /\ Len(scope') = n
  <2>1. scope \in Seq(Binding) /\ scope # <<>> /\ Len(scope) = n + 1
    BY <1>1, ScopeNotEmpty DEF Balanced, TypeOK, ScopeDepth, At
  <2>2. scope' = Pop(scope)
    BY DEF PopScope
  <2>. QED  BY <1>3, <2>1, <2>2, PopFacts
<1>6. TypeOK'
  <2>1. ASSUME NEW i \in DOMAIN calls'
        PROVE  calls'[i].clause <= Len(ClausesOf[calls'[i].callee]) + 1
    <3>1. CASE i = n
      BY <1>2, <1>4, <3>1, ClausesType
    <3>2. CASE i # n
      BY <1>3, <3>2 DEF Balanced, TypeOK
    <3>. QED  BY <3>1, <3>2
  <2>. QED  BY <1>1, <1>3, <1>5, <2>1 DEF TypeOK, Balanced
<1>7. ScopeDepth'
  <2>1. At("push")'
    BY <1>1, <1>3, <1>4 DEF At, Current
  <2>. QED  BY <1>1, <1>3, <1>5, <2>1 DEF ScopeDepth, Balanced
<1>8. ClauseInRange'
  <2>1. ASSUME NEW i \in DOMAIN calls', calls'[i].at # "push"
        PROVE  calls'[i].clause \in DOMAIN ClausesOf[calls'[i].callee]
    <3>1. i # n
      BY <1>4, <2>1
    <3>. QED  BY <1>3, <2>1, <3>1 DEF ClauseInRange, Balanced
  <2>. QED  BY <2>1 DEF ClauseInRange
<1>. QED  BY <1>6, <1>7, <1>8 DEF Balanced

LEMMA CallBalanced ==
  ASSUME NEW g \in Callee, NEW v \in Value, Balanced, Call(g, v)
  PROVE  Balanced'
<1>. DEFINE n == Len(calls)
<1>1. /\ status = "running" /\ status' = status /\ scope' = scope
      /\ calls # <<>> => Current.at = "body"
  BY DEF Call, InBody
<1>2. /\ calls' \in Seq(Activation)
      /\ n \in Nat
      /\ Len(calls') = n + 1
      /\ \A i \in 1..n : calls'[i] = calls[i]
      /\ calls'[n + 1] = [callee |-> g, arg |-> v, clause |-> 1, at |-> "push"]
      /\ DOMAIN calls = 1..n
      /\ DOMAIN calls' = 1..n + 1
  BY CallFacts, LenProperties DEF Balanced, TypeOK
<1>3. TypeOK'
  <2>1. ASSUME NEW i \in DOMAIN calls'
        PROVE  calls'[i].clause <= Len(ClausesOf[calls'[i].callee]) + 1
    <3>1. CASE i = n + 1
      BY <1>2, <3>1, ClausesType
    <3>2. CASE i # n + 1
      <4>1. i \in DOMAIN calls /\ calls'[i] = calls[i]
        BY <1>2, <3>2
      <4>. QED  BY <4>1 DEF Balanced, TypeOK
    <3>. QED  BY <3>1, <3>2
  <2>. QED  BY <1>1, <1>2, <2>1 DEF TypeOK, Balanced
<1>4. ScopeDepth'
  <2>1. At("push")'
    BY <1>1, <1>2 DEF At, Current
  <2>2. Len(scope) = n + 1
    BY <1>1 DEF Balanced, ScopeDepth, At
  <2>3. \A i \in 1..n : calls[i].at = "body"
    <3>1. \A i \in 1..n - 1 : calls[i].at = "body"
      BY <1>1 DEF Balanced, ScopeDepth
    <3>2. calls # <<>> => calls[n].at = "body"
      BY <1>1 DEF Current
    <3>3. n > 0 => calls # <<>>
      BY EmptySeq
    <3>. QED  BY <1>2, <3>1, <3>2, <3>3
  <2>. QED  BY <1>1, <1>2, <2>1, <2>2, <2>3 DEF ScopeDepth
<1>5. ClauseInRange'
  <2>1. ASSUME NEW i \in DOMAIN calls', calls'[i].at # "push"
        PROVE  calls'[i].clause \in DOMAIN ClausesOf[calls'[i].callee]
    <3>1. i # n + 1
      BY <1>2, <2>1
    <3>. QED  BY <1>2, <2>1, <3>1 DEF ClauseInRange, Balanced
  <2>. QED  BY <2>1 DEF ClauseInRange
<1>. QED  BY <1>3, <1>4, <1>5 DEF Balanced

LEMMA MatchInBodyBalanced ==
  ASSUME NEW c \in Clause, NEW v \in Value, Balanced, MatchInBody(c, v)
  PROVE  Balanced'
<1>1. status = "running"
  BY DEF MatchInBody, InBody
<1>2. /\ scope' \in Seq(Binding)
      /\ Len(scope') = Len(scope)
  BY <1>1, ScopeNotEmpty, OutcomeType, WriteFacts DEF MatchInBody, Balanced, TypeOK
<1>3. CASE Outcome(c, v) = "match"
  <2>1. UNCHANGED <<calls, status>>
    BY <1>3 DEF MatchInBody
  <2>. QED  BY <1>2, <2>1
            DEF Balanced, TypeOK, ScopeDepth, ClauseInRange, At, Current
<1>4. CASE Outcome(c, v) # "match"
  <2>1. \E how \in Ends : Unwind(how)
    BY <1>4, OutcomeType DEF MatchInBody, Outcomes, Ends
  <2>. QED  BY <1>2, <2>1, UnwindBalanced
<1>. QED  BY <1>3, <1>4

LEMMA ReturnBalanced == Balanced /\ Return => Balanced'
<1>. SUFFICES ASSUME Balanced, Return  PROVE Balanced'
  OBVIOUS
<1>. DEFINE n == Len(calls)
<1>1. status = "running" /\ calls # <<>> /\ Current.at = "body" /\ status' = status
  BY DEF Return, At
<1>2. /\ calls' \in Seq(Activation)
      /\ n \in Nat \ {0}
      /\ Len(calls') = n - 1
      /\ \A i \in 1..n - 1 : calls'[i] = calls[i]
      /\ DOMAIN calls = 1..n
      /\ DOMAIN calls' = 1..n - 1
  BY <1>1, CurrentType, ReturnFacts, LenProperties DEF Balanced, TypeOK
<1>3. scope' \in Seq(Binding) /\ Len(scope') = n
  <2>1. scope \in Seq(Binding) /\ scope # <<>> /\ Len(scope) = n + 1
    BY <1>1, ScopeNotEmpty DEF Balanced, TypeOK, ScopeDepth, At
  <2>2. scope' = Pop(scope)
    BY DEF Return
  <2>. QED  BY <1>2, <2>1, <2>2, PopFacts
<1>4. TypeOK' /\ ClauseInRange'
  <2>1. \A i \in DOMAIN calls' : i \in DOMAIN calls /\ calls'[i] = calls[i]
    BY <1>2
  <2>2. TypeOK'
    BY <1>1, <1>2, <1>3, <2>1 DEF Balanced, TypeOK
  <2>3. ClauseInRange'
    BY <2>1 DEF Balanced, ClauseInRange
  <2>. QED  BY <2>2, <2>3
<1>5. ScopeDepth'
  <2>1. \A i \in 1..n - 1 : calls'[i].at = "body"
    BY <1>1, <1>2 DEF Balanced, ScopeDepth
  <2>2. ~At("push")'
    <3>1. calls' # <<>> => n - 1 \in 1..n - 1
      BY <1>2, EmptySeq
    <3>. QED  BY <1>2, <2>1, <3>1 DEF At, Current
  <2>. QED  BY <1>2, <1>3, <2>1, <2>2 DEF ScopeDepth
<1>. QED  BY <1>4, <1>5 DEF Balanced

LEMMA NextBalanced == Balanced /\ [Next]_vars => Balanced'
<1>. SUFFICES ASSUME Balanced, [Next]_vars  PROVE Balanced'
  OBVIOUS
<1>. USE PushScopeBalanced, TryMatchBalanced, EvalGuardBalanced, PopScopeBalanced,
         CallBalanced, MatchInBodyBalanced, ReturnBalanced
<1>1. ASSUME scope' = scope, NEW how \in Ends, Unwind(how)  PROVE Balanced'
  BY <1>1, UnwindBalanced DEF Balanced, TypeOK
<1>2. CASE NoClauseLeft
  BY <1>1, <1>2 DEF NoClauseLeft, Ends
<1>3. CASE \E x \in Var : GetUnbound(x)
  BY <1>1, <1>3 DEF GetUnbound, Ends
<1>4. CASE Raise \/ KernelExit \/ MainReturns
  BY <1>1, <1>4 DEF Raise, KernelExit, MainReturns, Ends
<1>5. CASE Ended \/ UNCHANGED vars
  BY <1>5 DEF Ended, vars, Balanced, TypeOK, ScopeDepth, ClauseInRange, At, Current
<1>. QED  BY <1>2, <1>3, <1>4, <1>5 DEF Next

(* Type correctness of the running program.                                *)
THEOREM TypeCorrect == Spec => []TypeOK
<1>. USE InitBalanced, NextBalanced
<1>1. Spec => []Balanced
  BY PTL DEF Spec
<1>. QED  BY <1>1, PTL DEF Balanced

(* The emitted pushes and pops balance: while the program runs there is    *)
(* one scope for main and one for every activation past its push           *)
(* (create_matching, construct_case_condition).                            *)
THEOREM ScopeDepthHolds == Spec => []ScopeDepth
<1>. USE InitBalanced, NextBalanced
<1>1. Spec => []Balanced
  BY PTL DEF Spec
<1>. QED  BY <1>1, PTL DEF Balanced

-----------------------------------------------------------------------------
(* The clause an activation runs.  FirstMatch and HeadBindingsKept are not *)
(* inductive: that a guard is asked only after a match, and that a clause  *)
(* is left only when it rejects, has to be remembered between the steps.   *)

\* An activation between its caller's binding and its own.
CorrectAt(a, below, own) ==
  LET base == Base(a.callee, below)
      c    == ClausesOf[a.callee][a.clause]
  IN  /\ FirstUpTo(a.callee, a.clause, a.arg, base)
      /\ a.at = "match" => own = base
      /\ a.at = "guard" => Outcome(c, a.arg) = "match" /\ own = Bound(c, a.arg, base)
      /\ a.at = "pop"   => Rejects(c, a.arg, base)
      /\ a.at = "body"  =>
           /\ Accepts(c, a.arg, base)
           /\ \A x \in Var : Bound(c, a.arg, base)[x] # Unbound
                               => own[x] = Bound(c, a.arg, base)[x]

Correct == \A i \in DOMAIN calls : CorrectAt(calls[i], scope[i], scope[i + 1])

LEMMA CorrectImplies == Balanced /\ Correct => FirstMatch /\ HeadBindingsKept
<1>. SUFFICES ASSUME Balanced, Correct, NEW i \in DOMAIN calls
              PROVE  LET a == calls[i]
                         head == Bound(ClausesOf[a.callee][a.clause], a.arg, BaseOf(i))
                     IN  /\ FirstUpTo(a.callee, a.clause, a.arg, BaseOf(i))
                         /\ a.at = "body" =>
                              /\ a.clause \in DOMAIN ClausesOf[a.callee]
                              /\ Accepts(ClausesOf[a.callee][a.clause], a.arg, BaseOf(i))
                         /\ a.at = "match" => scope[i + 1] = BaseOf(i)
                         /\ a.at = "guard" => scope[i + 1] = head
                         /\ a.at = "body"  => \A x \in Var :
                              head[x] # Unbound => scope[i + 1][x] = head[x]
  BY Zenon DEF FirstMatch, HeadBindingsKept
<1>1. CorrectAt(calls[i], scope[i], scope[i + 1])
  BY DEF Correct
<1>2. calls[i].at = "body" => calls[i].clause \in DOMAIN ClausesOf[calls[i].callee]
  BY DEF Balanced, ClauseInRange
<1>. QED  BY <1>1, <1>2 DEF CorrectAt, BaseOf

LEMMA InitCorrect == Init => Correct
BY DEF Init, Correct

LEMMA UnwindCorrect ==
  ASSUME NEW how, Unwind(how)
  PROVE  Correct'
BY DEF Unwind, Correct

(* The activations below the innermost one are not disturbed by a step     *)
(* that leaves them and their scopes alone.                                *)
LEMMA InnermostCorrect ==
  ASSUME Correct, NEW n \in Nat, DOMAIN calls' = 1..n,
         \A i \in 1..n - 1 : i \in DOMAIN calls /\ calls'[i] = calls[i],
         \A i \in 1..n : scope'[i] = scope[i],
         n > 0 => CorrectAt(calls'[n], scope'[n], scope'[n + 1])
  PROVE  Correct'
<1>1. ASSUME NEW i \in DOMAIN calls'
      PROVE  CorrectAt(calls'[i], scope'[i], scope'[i + 1])
  <2>1. CASE i = n
    BY <2>1
  <2>2. CASE i # n
    <3>1. i \in 1..n - 1 /\ i \in 1..n /\ i + 1 \in 1..n
      BY <2>2
    <3>. QED  BY <3>1 DEF Correct
  <2>. QED  BY <2>1, <2>2
<1>. QED  BY <1>1 DEF Correct

\* What is known before a step of the innermost activation.
LEMMA InnermostState ==
  ASSUME Balanced, Correct, status = "running", calls # <<>>
  PROVE  /\ Len(calls) \in Nat \ {0}
         /\ DOMAIN calls = 1..Len(calls)
         /\ Current \in Activation
         /\ CorrectAt(Current, scope[Len(calls)], scope[Len(calls) + 1])
         /\ scope \in Seq(Binding) /\ scope # <<>>
         /\ Current.at = "push" => Len(scope) = Len(calls)
         /\ Current.at # "push" => Len(scope) = Len(calls) + 1
<1>1. /\ Len(calls) \in Nat \ {0}
      /\ DOMAIN calls = 1..Len(calls)
      /\ Current \in Activation
  BY CurrentType, LenProperties DEF Balanced, TypeOK
<1>2. CorrectAt(Current, scope[Len(calls)], scope[Len(calls) + 1])
  BY <1>1 DEF Correct, Current
<1>3. scope \in Seq(Binding) /\ scope # <<>>
  BY ScopeNotEmpty DEF Balanced, TypeOK
<1>4. /\ Current.at = "push" => Len(scope) = Len(calls)
      /\ Current.at # "push" => Len(scope) = Len(calls) + 1
  BY <1>1 DEF Balanced, ScopeDepth, At
<1>. QED  BY <1>1, <1>2, <1>3, <1>4

LEMMA GotoPoint ==
  ASSUME NEW a \in Activation, NEW p \in Points
  PROVE  [a EXCEPT !.at = p] = [callee |-> a.callee, arg |-> a.arg,
                                clause |-> a.clause, at |-> p]
<1>1. a = [callee |-> a.callee, arg |-> a.arg, clause |-> a.clause, at |-> a.at]
  BY DEF Activation
<1>. QED  BY <1>1

LEMMA PushScopeCorrect == Balanced /\ Correct /\ PushScope => Correct'
<1>. SUFFICES ASSUME Balanced, Correct, PushScope  PROVE Correct'
  OBVIOUS
<1>. DEFINE n == Len(calls)
            base == Base(Current.callee, scope[n])
            moved == [callee |-> Current.callee, arg |-> Current.arg,
                      clause |-> Current.clause, at |-> "match"]
<1>1. status = "running" /\ calls # <<>> /\ Current.at = "push"
  BY DEF PushScope, At
<1>2. /\ n \in Nat \ {0} /\ DOMAIN calls = 1..n
      /\ Current \in Activation
      /\ CorrectAt(Current, scope[n], scope[n + 1])
      /\ scope \in Seq(Binding) /\ scope # <<>> /\ Len(scope) = n
  BY <1>1, InnermostState
<1>3. /\ DOMAIN calls' = 1..n
      /\ \A i \in 1..n - 1 : calls'[i] = calls[i]
      /\ calls'[n] = moved
  <2>1. Goto("match") /\ "match" \in Points
    BY DEF PushScope, Points
  <2>. QED  BY <1>1, <1>2, <2>1, GotoFacts, GotoPoint, LenProperties
            DEF Balanced, TypeOK
<1>4. /\ \A i \in 1..n : scope'[i] = scope[i]
      /\ scope'[n + 1] = base
  <2>1. CASE Current.callee \in Fun
    <3>1. scope' = Push(scope) /\ base = Empty
      BY <2>1 DEF PushScope, Base
    <3>. QED  BY <1>2, <3>1, PushFacts
  <2>2. CASE Current.callee \notin Fun
    <3>1. scope' = PushCopy(scope) /\ base = scope[n]
      BY <2>2 DEF PushScope, Base
    <3>. QED  BY <1>2, <3>1, PushCopyFacts
  <2>. QED  BY <2>1, <2>2
<1>5. CorrectAt(moved, scope[n], base)
  BY <1>2 DEF CorrectAt
<1>6. CorrectAt(calls'[n], scope'[n], scope'[n + 1])
  BY <1>2, <1>3, <1>4, <1>5
<1>7. \A i \in 1..n - 1 : i \in DOMAIN calls /\ calls'[i] = calls[i]
  BY <1>2, <1>3
<1>. HIDE DEF n
<1>. QED  BY <1>2, <1>3, <1>4, <1>6, <1>7, InnermostCorrect

\* What a step to another point of the same clause has to show.
LEMMA GotoCorrect ==
  ASSUME Balanced, Correct, status = "running", calls # <<>>,
         NEW p \in Points, Goto(p),
         \A i \in 1..Len(calls) : scope'[i] = scope[i],
         CorrectAt([callee |-> Current.callee, arg |-> Current.arg,
                    clause |-> Current.clause, at |-> p],
                   scope[Len(calls)], scope'[Len(calls) + 1])
  PROVE  Correct'
<1>. DEFINE n == Len(calls)
<1>1. /\ n \in Nat \ {0} /\ DOMAIN calls = 1..n
      /\ Current \in Activation
  BY InnermostState
<1>2. /\ DOMAIN calls' = 1..n
      /\ \A i \in 1..n - 1 : calls'[i] = calls[i]
      /\ calls'[n] = [callee |-> Current.callee, arg |-> Current.arg,
                      clause |-> Current.clause, at |-> p]
  BY <1>1, GotoFacts, GotoPoint, LenProperties DEF Balanced, TypeOK
<1>3. CorrectAt(calls'[n], scope'[n], scope'[n + 1])
  BY <1>1, <1>2
<1>4. \A i \in 1..n - 1 : i \in DOMAIN calls /\ calls'[i] = calls[i]
  BY <1>1, <1>2
<1>5. \A i \in 1..n : scope'[i] = scope[i]
  OBVIOUS
<1>. HIDE DEF n
<1>. QED  BY <1>1, <1>2, <1>3, <1>4, <1>5, InnermostCorrect

LEMMA TryMatchCorrect == Balanced /\ Correct /\ TryMatch => Correct'
<1>. SUFFICES ASSUME Balanced, Correct, TryMatch  PROVE Correct'
  OBVIOUS
<1>. DEFINE n == Len(calls)
            c == CurrentClause
            v == Current.arg
            base == Base(Current.callee, scope[n])
            how == Outcome(c, v)
<1>1. status = "running" /\ calls # <<>> /\ Current.at = "match"
  BY DEF TryMatch, At
<1>2. /\ n \in Nat \ {0}
      /\ Current \in Activation
      /\ CorrectAt(Current, scope[n], scope[n + 1])
      /\ scope \in Seq(Binding) /\ scope # <<>> /\ Len(scope) = n + 1
  BY <1>1, InnermostState
<1>3. how \in Outcomes /\ Writes(c, v) \in Binding
  BY <1>1, CurrentClauseType, OutcomeType DEF Activation
<1>4. /\ \A i \in 1..n : scope'[i] = scope[i]
      /\ scope'[n + 1] = Insert(scope[n + 1], Writes(c, v))
  <2>1. scope' = Write(scope, Writes(c, v))
    BY DEF TryMatch
  <2>. HIDE DEF c, v
  <2>2. /\ \A i \in 1..Len(scope) - 1 : scope'[i] = scope[i]
        /\ scope'[Len(scope)] = Insert(scope[Len(scope)], Writes(c, v))
    BY <1>2, <1>3, <2>1, WriteFacts
  <2>. QED  BY <1>2, <2>2
<1>5. /\ scope[n + 1] = base
      /\ FirstUpTo(Current.callee, Current.clause, v, base)
      /\ c = ClausesOf[Current.callee][Current.clause]
  BY <1>1, <1>2 DEF CorrectAt, CurrentClause
<1>6. CASE how = "match"
  <2>1. Goto("guard")
    BY <1>6 DEF TryMatch
  <2>2. CorrectAt([callee |-> Current.callee, arg |-> v, clause |-> Current.clause,
                   at |-> "guard"], scope[n], scope'[n + 1])
    BY <1>4, <1>5, <1>6 DEF CorrectAt, Bound
  <2>. QED  BY <1>1, <1>4, <2>1, <2>2, GotoCorrect DEF Points
<1>7. CASE how = "nomatch"
  <2>1. Goto("pop")
    BY <1>7 DEF TryMatch
  <2>2. CorrectAt([callee |-> Current.callee, arg |-> v, clause |-> Current.clause,
                   at |-> "pop"], scope[n], scope'[n + 1])
    BY <1>5, <1>7 DEF CorrectAt, Rejects
  <2>. QED  BY <1>1, <1>4, <2>1, <2>2, GotoCorrect DEF Points
<1>8. CASE how \in {"foreign", "undefined"}
  BY <1>8, UnwindCorrect DEF TryMatch
<1>. QED  BY <1>3, <1>6, <1>7, <1>8 DEF Outcomes

LEMMA EvalGuardCorrect == Balanced /\ Correct /\ EvalGuard => Correct'
<1>. SUFFICES ASSUME Balanced, Correct, EvalGuard  PROVE Correct'
  OBVIOUS
<1>. DEFINE n == Len(calls)
            c == CurrentClause
            v == Current.arg
            base == Base(Current.callee, scope[n])
            result == Guard(c, Top(scope))
<1>1. status = "running" /\ calls # <<>> /\ Current.at = "guard" /\ scope' = scope
  BY DEF EvalGuard, At
<1>2. /\ n \in Nat \ {0}
      /\ Current \in Activation
      /\ CorrectAt(Current, scope[n], scope[n + 1])
      /\ scope \in Seq(Binding) /\ scope # <<>> /\ Len(scope) = n + 1
  BY <1>1, InnermostState
<1>3. /\ scope[n + 1] = Bound(c, v, base)
      /\ Outcome(c, v) = "match"
      /\ FirstUpTo(Current.callee, Current.clause, v, base)
      /\ c = ClausesOf[Current.callee][Current.clause]
  BY <1>1, <1>2 DEF CorrectAt, CurrentClause
<1>4. result = Guard(c, Bound(c, v, base))
  BY <1>2, <1>3 DEF Top
<1>5. result \in {"true", "false", "throw"}
  <2>1. c \in Clause
    BY <1>1, CurrentClauseType
  <2>2. Top(scope) \in Binding
    BY <1>2, ElementOfSeq DEF Top
  <2>. QED  BY <2>1, <2>2, ClausesAssumption
<1>6. CASE result = "true"
  <2>1. Goto("body")
    BY <1>6 DEF EvalGuard
  <2>2. CorrectAt([callee |-> Current.callee, arg |-> v, clause |-> Current.clause,
                   at |-> "body"], scope[n], scope'[n + 1])
    BY <1>1, <1>3, <1>4, <1>6 DEF CorrectAt, Accepts
  <2>. QED  BY <1>1, <2>1, <2>2, GotoCorrect DEF Points
<1>7. CASE result = "false"
  <2>1. Goto("pop")
    BY <1>7 DEF EvalGuard
  <2>2. CorrectAt([callee |-> Current.callee, arg |-> v, clause |-> Current.clause,
                   at |-> "pop"], scope[n], scope'[n + 1])
    BY <1>3, <1>4, <1>7 DEF CorrectAt, Rejects
  <2>. QED  BY <1>1, <2>1, <2>2, GotoCorrect DEF Points
<1>8. CASE result = "throw"
  BY <1>8, UnwindCorrect DEF EvalGuard
<1>. QED  BY <1>5, <1>6, <1>7, <1>8

LEMMA FirstUpToNext ==
  ASSUME NEW g, NEW k \in Nat, NEW v, NEW b,
         FirstUpTo(g, k, v, b), Rejects(ClausesOf[g][k], v, b)
  PROVE  FirstUpTo(g, k + 1, v, b)
<1>1. ASSUME NEW j \in 1..(k + 1) - 1
      PROVE  Rejects(ClausesOf[g][j], v, b)
  <2>1. CASE j = k
    BY <2>1
  <2>2. CASE j # k
    <3>1. j \in 1..k - 1
      BY <2>2
    <3>. QED  BY <3>1 DEF FirstUpTo
  <2>. QED  BY <2>1, <2>2
<1>. QED  BY <1>1 DEF FirstUpTo

LEMMA PopScopeCorrect == Balanced /\ Correct /\ PopScope => Correct'
<1>. SUFFICES ASSUME Balanced, Correct, PopScope  PROVE Correct'
  OBVIOUS
<1>. DEFINE n == Len(calls)
            k == Current.clause
            base == Base(Current.callee, scope[n])
<1>1. status = "running" /\ calls # <<>> /\ Current.at = "pop"
  BY DEF PopScope, At
<1>2. /\ n \in Nat \ {0} /\ DOMAIN calls = 1..n
      /\ Current \in Activation
      /\ CorrectAt(Current, scope[n], scope[n + 1])
      /\ scope \in Seq(Binding) /\ scope # <<>> /\ Len(scope) = n + 1
  BY <1>1, InnermostState
<1>3. /\ DOMAIN calls' = 1..n
      /\ \A i \in 1..n - 1 : i \in DOMAIN calls /\ calls'[i] = calls[i]
      /\ calls'[n] = [callee |-> Current.callee, arg |-> Current.arg,
                      clause |-> k + 1, at |-> "push"]
  <2>1. /\ calls' \in Seq(Activation)
        /\ Len(calls') = n
        /\ \A i \in 1..n - 1 : calls'[i] = calls[i]
        /\ calls'[n] = NextClause(Current)
    BY <1>1, NextClauseFacts DEF PopScope, Balanced, TypeOK
  <2>. QED  BY <1>2, <2>1, NextClauseType, LenProperties
<1>4. \A i \in 1..n : scope'[i] = scope[i]
  <2>1. scope' = Pop(scope)
    BY DEF PopScope
  <2>2. \A i \in 1..Len(scope) - 1 : scope'[i] = scope[i]
    BY <1>2, <2>1, PopFacts
  <2>. QED  BY <1>2, <2>2
<1>5. FirstUpTo(Current.callee, k + 1, Current.arg, base)
  <2>1. /\ FirstUpTo(Current.callee, k, Current.arg, base)
        /\ Rejects(ClausesOf[Current.callee][k], Current.arg, base)
    BY <1>1, <1>2 DEF CorrectAt
  <2>2. k \in Nat \ {0}
    BY <1>2 DEF Activation
  <2>. QED  BY <2>1, <2>2, FirstUpToNext
<1>6. CorrectAt(calls'[n], scope'[n], scope'[n + 1])
  BY <1>2, <1>3, <1>4, <1>5 DEF CorrectAt
<1>. HIDE DEF n
<1>. QED  BY <1>2, <1>3, <1>4, <1>6, InnermostCorrect

LEMMA CallCorrect ==
  ASSUME NEW g \in Callee, NEW v \in Value, Balanced, Correct, Call(g, v)
  PROVE  Correct'
<1>. DEFINE n == Len(calls) + 1
<1>1. /\ n \in Nat
      /\ DOMAIN calls = 1..n - 1
      /\ DOMAIN calls' = 1..n
      /\ \A i \in 1..n - 1 : calls'[i] = calls[i]
      /\ calls'[n] = [callee |-> g, arg |-> v, clause |-> 1, at |-> "push"]
  BY CallFacts, LenProperties DEF Balanced, TypeOK
<1>2. scope' = scope
  BY DEF Call
<1>3. CorrectAt(calls'[n], scope'[n], scope'[n + 1])
  BY <1>1 DEF CorrectAt, FirstUpTo
<1>. HIDE DEF n
<1>. QED  BY <1>1, <1>2, <1>3, InnermostCorrect

LEMMA MatchInBodyCorrect ==
  ASSUME NEW c \in Clause, NEW v \in Value, Balanced, Correct, MatchInBody(c, v)
  PROVE  Correct'
<1>. DEFINE n == Len(calls)
<1>1. status = "running" /\ (calls # <<>> => Current.at = "body")
  BY DEF MatchInBody, InBody
<1>2. CASE Outcome(c, v) # "match"
  BY <1>2, UnwindCorrect DEF MatchInBody
<1>3. CASE Outcome(c, v) = "match" /\ calls = <<>>
  BY <1>3 DEF MatchInBody, Correct
<1>4. CASE Outcome(c, v) = "match" /\ calls # <<>>
  <2>1. /\ n \in Nat \ {0} /\ DOMAIN calls = 1..n
        /\ Current \in Activation
        /\ CorrectAt(Current, scope[n], scope[n + 1])
        /\ scope \in Seq(Binding) /\ scope # <<>> /\ Len(scope) = n + 1
    BY <1>1, <1>4, InnermostState
  <2>2. calls' = calls /\ scope' = Write(scope, Writes(c, v))
    BY <1>4 DEF MatchInBody
  <2>3. /\ \A i \in 1..n : scope'[i] = scope[i]
        /\ scope'[n + 1] = Insert(scope[n + 1], Writes(c, v))
    <3>1. Writes(c, v) \in Binding
      BY OutcomeType
    <3>2. /\ \A i \in 1..Len(scope) - 1 : scope'[i] = scope[i]
          /\ scope'[Len(scope)] = Insert(scope[Len(scope)], Writes(c, v))
      BY <2>1, <2>2, <3>1, WriteFacts
    <3>. QED  BY <2>1, <3>2
  <2>4. \A x \in Var : scope[n + 1][x] # Unbound => scope'[n + 1][x] = scope[n + 1][x]
    BY <2>3 DEF Insert
  <2>5. CorrectAt(Current, scope[n], scope'[n + 1])
    BY <1>1, <1>4, <2>1, <2>4 DEF CorrectAt
  <2>6. calls'[n] = Current
    BY <2>2 DEF Current
  <2>7. CorrectAt(calls'[n], scope'[n], scope'[n + 1])
    BY <2>1, <2>3, <2>5, <2>6
  <2>. HIDE DEF n
  <2>. QED  BY <2>1, <2>2, <2>3, <2>7, InnermostCorrect
<1>. QED  BY <1>2, <1>3, <1>4

LEMMA ReturnCorrect == Balanced /\ Correct /\ Return => Correct'
<1>. SUFFICES ASSUME Balanced, Correct, Return  PROVE Correct'
  OBVIOUS
<1>. DEFINE n == Len(calls) - 1
<1>1. status = "running" /\ calls # <<>> /\ Current.at = "body"
  BY DEF Return, At
<1>2. /\ n \in Nat /\ DOMAIN calls = 1..n + 1
      /\ scope \in Seq(Binding) /\ scope # <<>> /\ Len(scope) = n + 2
  BY <1>1, InnermostState
<1>3. /\ DOMAIN calls' = 1..n
      /\ \A i \in 1..n : i \in DOMAIN calls /\ calls'[i] = calls[i]
  BY <1>2, ReturnFacts, LenProperties DEF Balanced, TypeOK
<1>4. \A i \in 1..n + 1 : scope'[i] = scope[i]
  <2>1. scope' = Pop(scope)
    BY DEF Return
  <2>2. \A i \in 1..Len(scope) - 1 : scope'[i] = scope[i]
    BY <1>2, <2>1, PopFacts
  <2>. QED  BY <1>2, <2>2
<1>. HIDE DEF n
<1>5. ASSUME NEW i \in DOMAIN calls'
      PROVE  CorrectAt(calls'[i], scope'[i], scope'[i + 1])
  <2>1. i \in 1..n + 1 /\ i + 1 \in 1..n + 1 /\ i \in 1..n
    BY <1>2, <1>3
  <2>. QED  BY <1>3, <1>4, <2>1 DEF Correct
<1>. QED  BY <1>5 DEF Correct

LEMMA NextCorrect == Balanced /\ Correct /\ [Next]_vars => Correct'
<1>. SUFFICES ASSUME Balanced, Correct, [Next]_vars  PROVE Correct'
  OBVIOUS
<1>. USE PushScopeCorrect, TryMatchCorrect, EvalGuardCorrect, PopScopeCorrect,
         CallCorrect, MatchInBodyCorrect, ReturnCorrect, UnwindCorrect
<1>1. CASE NoClauseLeft \/ \E x \in Var : GetUnbound(x)
  BY <1>1 DEF NoClauseLeft, GetUnbound
<1>2. CASE Raise \/ KernelExit \/ MainReturns
  BY <1>2 DEF Raise, KernelExit, MainReturns
<1>3. CASE Ended \/ UNCHANGED vars
  BY <1>3 DEF Ended, vars, Correct
<1>. QED  BY <1>1, <1>2, <1>3 DEF Next

(* A running body belongs to the first clause that accepts the argument    *)
(* (create_matching, construct_case_condition).                            *)
THEOREM FirstMatchHolds == Spec => []FirstMatch
<1>. USE InitBalanced, NextBalanced, InitCorrect, NextCorrect, CorrectImplies
<1>1. Spec => [](Balanced /\ Correct)
  BY PTL DEF Spec
<1>. QED  BY <1>1, PTL

(* What the head of a clause bound stays bound to that while its body      *)
(* runs (ExEnvironment::write, push, pushCopy).                            *)
THEOREM HeadBindingsHold == Spec => []HeadBindingsKept
<1>. USE InitBalanced, NextBalanced, InitCorrect, NextCorrect, CorrectImplies
<1>1. Spec => [](Balanced /\ Correct)
  BY PTL DEF Spec
<1>. QED  BY <1>1, PTL

-----------------------------------------------------------------------------
(* Callers.                                                                *)

LEMMA NextKeepsLowerScopes == Balanced /\ [Next]_vars => [LowerScopesKept]_scope
<1>. SUFFICES ASSUME Balanced, Next, scope' # scope  PROVE LowerScopesKept
  BY DEF vars
<1>1. status = "running"
  BY DEF Next, PushScope, NoClauseLeft, TryMatch, EvalGuard, PopScope, Call,
         MatchInBody, GetUnbound, Raise, KernelExit, Return, MainReturns, Ended,
         InBody, At, vars
<1>2. scope \in Seq(Binding) /\ scope # <<>> /\ Len(scope) \in Nat \ {0}
  BY <1>1, ScopeNotEmpty DEF Balanced, TypeOK
<1>3. CASE PushScope
  <2>1. scope' = Push(scope) \/ scope' = PushCopy(scope)
    BY <1>3 DEF PushScope
  <2>2. Len(scope') = Len(scope) + 1 /\ \A i \in 1..Len(scope) : scope'[i] = scope[i]
    BY <1>2, <2>1, PushFacts, PushCopyFacts
  <2>. QED  BY <1>2, <2>2 DEF LowerScopesKept
<1>4. CASE PopScope \/ Return
  <2>1. scope' = Pop(scope)
    BY <1>4 DEF PopScope, Return
  <2>2. /\ Len(scope') = Len(scope) - 1
        /\ \A i \in 1..Len(scope) - 1 : scope'[i] = scope[i]
    BY <1>2, <2>1, PopFacts
  <2>. QED  BY <1>2, <2>2 DEF LowerScopesKept
<1>5. ASSUME NEW w \in Binding, scope' = Write(scope, w)
      PROVE  LowerScopesKept
  <2>1. /\ Len(scope') = Len(scope)
        /\ \A i \in 1..Len(scope) - 1 : scope'[i] = scope[i]
    BY <1>2, <1>5, WriteFacts
  <2>. QED  BY <1>2, <2>1 DEF LowerScopesKept
<1>6. CASE TryMatch
  <2>1. calls # <<>> /\ Current.at # "push"
    BY <1>6 DEF TryMatch, At
  <2>2. Writes(CurrentClause, Current.arg) \in Binding
    BY <2>1, CurrentClauseType, OutcomeType DEF Activation
  <2>3. scope' = Write(scope, Writes(CurrentClause, Current.arg))
    BY <1>6 DEF TryMatch
  <2>. QED  BY <1>5, <2>2, <2>3
<1>7. CASE \E c \in Clause, v \in Value : MatchInBody(c, v)
  <2>1. PICK c \in Clause, v \in Value : scope' = Write(scope, Writes(c, v))
    BY <1>7 DEF MatchInBody
  <2>. QED  BY <1>5, <2>1, OutcomeType
<1>. QED
  BY <1>3, <1>4, <1>6, <1>7
  DEF Next, NoClauseLeft, EvalGuard, Call, GetUnbound, Raise, KernelExit,
      MainReturns, Ended, vars

(* A step changes the top binding only: what a callee, or a clause that    *)
(* was tried, did is gone when the caller goes on.                         *)
THEOREM CallerIsolatedHolds == Spec => CallerIsolated
<1>. USE InitBalanced, NextBalanced, NextKeepsLowerScopes
<1>1. Spec => []Balanced
  BY PTL DEF Spec
<1>. QED  BY <1>1, PTL DEF Spec, CallerIsolated

-----------------------------------------------------------------------------
(* The one global scope stack implements private bindings (LexicalCalls),  *)
(* for every program: each step of Dispatch is a step of LexicalCalls or   *)
(* leaves the mapped variables alone.                                      *)

(* The mapped variables.                                                   *)

\* In a body the bindings are the stack.
BodyShape ==
  /\ OwnBindings = scope
  /\ BeingDispatched = NoCall
  /\ scope \in Seq(Binding) /\ scope # <<>>
  /\ Len(calls) \in Nat
  /\ Len(scope) = Len(calls) + 1

\* While a call is dispatched they are the scopes below the scratch one.
DispatchShape ==
  /\ calls # <<>>
  /\ Len(calls) \in Nat \ {0}
  /\ Current \in Activation
  /\ scope \in Seq(Binding) /\ Len(scope) >= Len(calls)
  /\ BeingDispatched = [callee |-> Current.callee, arg |-> Current.arg]
  /\ BeingDispatched # NoCall
  /\ OwnBindings \in Seq(Binding)
  /\ Len(OwnBindings) = Len(calls)
  /\ \A i \in 1..Len(calls) : OwnBindings[i] = scope[i]

LEMMA BodyMap == Balanced /\ InBody => BodyShape
<1>. SUFFICES ASSUME Balanced, InBody  PROVE BodyShape
  OBVIOUS
<1>1. status = "running" /\ ~At("push")
  BY DEF InBody, At
<1>2. scope \in Seq(Binding) /\ scope # <<>> /\ Len(calls) \in Nat
  BY <1>1, ScopeNotEmpty DEF Balanced, TypeOK
<1>3. Len(scope) = Len(calls) + 1
  BY <1>1 DEF Balanced, ScopeDepth
<1>. QED  BY <1>1, <1>2, <1>3
          DEF BodyShape, OwnBindings, BeingDispatched, Running, Dispatching

LEMMA DispatchingMap == Balanced /\ Dispatching => DispatchShape
<1>. SUFFICES ASSUME Balanced, Dispatching  PROVE DispatchShape
  OBVIOUS
<1>. DEFINE n == Len(calls)
<1>1. status = "running" /\ calls # <<>> /\ Current.at # "body"
  BY DEF Dispatching, Running, InBody
<1>2. n \in Nat \ {0} /\ Current \in Activation
  BY <1>1, CurrentType DEF Balanced, TypeOK
<1>3. scope \in Seq(Binding) /\ Len(scope) >= n
  <2>1. scope \in Seq(Binding) /\ Len(scope) \in Nat
    BY <1>1, ScopeNotEmpty DEF Balanced, TypeOK
  <2>. QED  BY <1>1, <1>2, <2>1 DEF Balanced, ScopeDepth
<1>4. BeingDispatched = [callee |-> Current.callee, arg |-> Current.arg]
  BY DEF BeingDispatched
<1>5. BeingDispatched # NoCall
  BY <1>2, <1>4, DispatchAssumption DEF Activation
<1>6. OwnBindings = SubSeq(scope, 1, n)
  BY DEF OwnBindings, Dispatching
<1>7. \A i \in 1..n : scope[i] \in Binding
  BY <1>2, <1>3, ElementOfSeq
<1>. HIDE DEF n
<1>8. /\ OwnBindings \in Seq(Binding)
      /\ Len(OwnBindings) = IF 1 <= n THEN n - 1 + 1 ELSE 0
      /\ \A i \in 1..n - 1 + 1 : OwnBindings[i] = scope[1 + i - 1]
  BY <1>2, <1>6, <1>7, SubSeqProperties
<1>9. Len(OwnBindings) = n /\ \A i \in 1..n : OwnBindings[i] = scope[i]
  BY <1>2, <1>8
<1>. QED  BY <1>1, <1>2, <1>3, <1>4, <1>5, <1>8, <1>9 DEF DispatchShape, n

\* Once the process has ended no activation is left.
LEMMA EndedMap ==
  ASSUME status # "running"
  PROVE  OwnBindings = <<>> /\ BeingDispatched = NoCall
BY DEF OwnBindings, BeingDispatched, Dispatching, Running

\* The binding the clauses of the dispatched call are matched in.
LEMMA CallerTop ==
  ASSUME Balanced, Dispatching
  PROVE  Top(OwnBindings) = scope[Len(calls)]
BY DispatchingMap DEF Top, DispatchShape

LEMMA InitMap == Init => Lexical!Init
<1>. SUFFICES ASSUME Init  PROVE Lexical!Init
  OBVIOUS
<1>1. InBody
  BY DEF Init, InBody
<1>2. OwnBindings = scope /\ BeingDispatched = NoCall
  BY <1>1, InitBalanced, BodyMap DEF BodyShape
<1>. QED  BY <1>2 DEF Init, Lexical!Init, Lexical!Empty, Empty

-----------------------------------------------------------------------------
(* Steps inside the dispatch of one call change nothing outside it.        *)

LEMMA DispatchStutters ==
  ASSUME Balanced, Dispatching, Balanced', Dispatching', UNCHANGED status,
         Len(calls') = Len(calls),
         Current'.callee = Current.callee, Current'.arg = Current.arg,
         \A i \in 1..Len(calls) : scope'[i] = scope[i]
  PROVE  UNCHANGED Lexical!vars
<1>1. BeingDispatched' = BeingDispatched
  BY DEF BeingDispatched
<1>2. /\ Len(calls) \in Nat
      /\ OwnBindings \in Seq(Binding)
      /\ Len(OwnBindings) = Len(calls)
      /\ \A i \in 1..Len(calls) : OwnBindings[i] = scope[i]
  BY DispatchingMap DEF DispatchShape
<1>3. /\ OwnBindings' \in Seq(Binding)
      /\ Len(OwnBindings') = Len(calls)
      /\ \A i \in 1..Len(calls) : OwnBindings'[i] = scope'[i]
  <2>1. DispatchShape'
    BY DispatchingMap, PTL
  <2>. QED  BY <2>1 DEF DispatchShape
<1>4. OwnBindings' = OwnBindings
  BY <1>2, <1>3, SeqEqual
<1>. QED  BY <1>1, <1>4 DEF Lexical!vars

\* A step to another point before the body.
LEMMA GotoStutters ==
  ASSUME Balanced, Dispatching, Balanced', UNCHANGED status,
         NEW p \in Points \ {"body"}, Goto(p),
         \A i \in 1..Len(calls) : scope'[i] = scope[i]
  PROVE  UNCHANGED Lexical!vars
<1>. DEFINE n == Len(calls)
<1>1. status = "running" /\ calls # <<>>
  BY DEF Dispatching, Running, InBody
<1>2. n \in Nat \ {0} /\ Current \in Activation
  BY DispatchingMap DEF DispatchShape
<1>3. Len(calls') = n /\ calls'[n] = [callee |-> Current.callee, arg |-> Current.arg,
                                      clause |-> Current.clause, at |-> p]
  BY <1>1, <1>2, GotoFacts, GotoPoint DEF Balanced, TypeOK
<1>4. Current' = calls'[n]
  BY <1>3 DEF Current
<1>5. /\ Current'.callee = Current.callee /\ Current'.arg = Current.arg
      /\ Current'.at = p
  BY <1>3, <1>4
<1>6. calls' # <<>>
  BY <1>2, <1>3
<1>7. Dispatching'
  BY <1>1, <1>5, <1>6 DEF Dispatching, Running, InBody
<1>. QED  BY <1>3, <1>5, <1>7, DispatchStutters

LEMMA PushScopeStutters ==
  Balanced /\ Balanced' /\ PushScope => UNCHANGED Lexical!vars
<1>. SUFFICES ASSUME Balanced, Balanced', PushScope  PROVE UNCHANGED Lexical!vars
  OBVIOUS
<1>1. /\ Dispatching /\ status = "running" /\ calls # <<>>
      /\ UNCHANGED status /\ Goto("match")
  BY DEF PushScope, At, Dispatching, Running, InBody
<1>2. scope \in Seq(Binding) /\ scope # <<>> /\ Len(scope) = Len(calls)
  BY <1>1, ScopeNotEmpty DEF PushScope, Balanced, TypeOK, ScopeDepth
<1>3. \A i \in 1..Len(calls) : scope'[i] = scope[i]
  BY <1>2, PushFacts, PushCopyFacts DEF PushScope
<1>. QED  BY <1>1, <1>3, GotoStutters DEF Points

LEMMA PopScopeStutters ==
  Balanced /\ Balanced' /\ PopScope => UNCHANGED Lexical!vars
<1>. SUFFICES ASSUME Balanced, Balanced', PopScope  PROVE UNCHANGED Lexical!vars
  OBVIOUS
<1>. DEFINE n == Len(calls)
<1>1. /\ Dispatching /\ status = "running" /\ calls # <<>> /\ Current.at = "pop"
      /\ UNCHANGED status
  BY DEF PopScope, At, Dispatching, Running, InBody
<1>2. n \in Nat \ {0} /\ Current \in Activation
  BY <1>1, DispatchingMap DEF DispatchShape
<1>3. Len(calls') = n /\ calls'[n] = NextClause(Current)
  BY <1>1, NextClauseFacts DEF PopScope, Balanced, TypeOK
<1>4. Current' = calls'[n]
  BY <1>3 DEF Current
<1>5. /\ Current'.callee = Current.callee /\ Current'.arg = Current.arg
      /\ Current'.at = "push"
  BY <1>2, <1>3, <1>4, NextClauseType
<1>6. calls' # <<>>
  BY <1>2, <1>3
<1>7. Dispatching'
  BY <1>1, <1>5, <1>6 DEF Dispatching, Running, InBody
<1>8. scope \in Seq(Binding) /\ scope # <<>> /\ Len(scope) = n + 1
  BY <1>1, ScopeNotEmpty DEF Balanced, TypeOK, ScopeDepth, At
<1>9. \A i \in 1..n : scope'[i] = scope[i]
  <2>1. scope' = Pop(scope)
    BY DEF PopScope
  <2>2. \A i \in 1..Len(scope) - 1 : scope'[i] = scope[i]
    BY <1>8, <2>1, PopFacts
  <2>. QED  BY <1>2, <1>8, <2>2
<1>. QED  BY <1>1, <1>3, <1>5, <1>7, <1>9, DispatchStutters

-----------------------------------------------------------------------------
(* LexicalCalls reads clauses as Dispatch does.                            *)

LEMMA SameInsert ==
  ASSUME NEW b, NEW w
  PROVE  Lexical!Insert(b, w) = Insert(b, w)
BY DEF Lexical!Insert, Insert

LEMMA SameBound ==
  ASSUME NEW c, NEW v, NEW b
  PROVE  Lexical!Bound(c, v, b) = Bound(c, v, b)
BY SameInsert DEF Lexical!Bound, Bound

LEMMA SameBase ==
  ASSUME NEW g, NEW b
  PROVE  Lexical!Base(g, b) = Base(g, b)
BY DEF Lexical!Base, Base, Lexical!Empty, Empty

LEMMA SameAccepts ==
  ASSUME NEW c, NEW v, NEW b
  PROVE  Lexical!Accepts(c, v, b) = Accepts(c, v, b)
BY SameBound DEF Lexical!Accepts, Accepts

LEMMA SameFirstUpTo ==
  ASSUME NEW g, NEW k, NEW v, NEW b
  PROVE  Lexical!FirstUpTo(g, k, v, b) = FirstUpTo(g, k, v, b)
BY SameBound DEF Lexical!FirstUpTo, FirstUpTo, Lexical!Rejects, Rejects

LEMMA SameStack ==
  ASSUME NEW s, NEW w
  PROVE  /\ Lexical!Top(s) = Top(s)
         /\ Lexical!Pop(s) = Pop(s)
         /\ Lexical!Write(s, w) = Write(s, w)
BY SameInsert DEF Lexical!Top, Top, Lexical!Pop, Pop, Lexical!Write, Write

-----------------------------------------------------------------------------
(* Steps that LexicalCalls takes too.                                      *)

\* The end of the process is an end in LexicalCalls.
LEMMA UnwindMap ==
  ASSUME NEW how \in Ends, status = "running", Unwind(how)
  PROVE  Lexical!End(how)
<1>1. status' # "running"
  BY DEF Unwind, Ends
<1>2. OwnBindings' = <<>> /\ BeingDispatched' = NoCall
  BY <1>1 DEF OwnBindings, BeingDispatched, Dispatching, Running
<1>. QED  BY <1>2 DEF Lexical!End, Unwind

LEMMA CallMap ==
  ASSUME NEW g \in Callee, NEW v \in Value, Balanced, Balanced', Call(g, v)
  PROVE  Lexical!Call(g, v)
<1>. DEFINE n == Len(calls)
<1>1. BodyShape /\ status = "running" /\ status' = status /\ scope' = scope
  BY BodyMap DEF Call, InBody
<1>2. /\ n \in Nat
      /\ Len(calls') = n + 1
      /\ calls'[n + 1] = [callee |-> g, arg |-> v, clause |-> 1, at |-> "push"]
  BY <1>1, CallFacts DEF Balanced, TypeOK, BodyShape
<1>3. Current' = [callee |-> g, arg |-> v, clause |-> 1, at |-> "push"]
  BY <1>2 DEF Current
<1>4. calls' # <<>>
  BY <1>2
<1>5. Dispatching'
  BY <1>1, <1>3, <1>4 DEF Dispatching, Running, InBody
<1>6. DispatchShape'
  BY <1>5, DispatchingMap, PTL
<1>7. BeingDispatched' = [callee |-> g, arg |-> v]
  BY <1>3, <1>6 DEF DispatchShape
<1>8. OwnBindings' = OwnBindings
  <2>1. /\ OwnBindings' \in Seq(Binding) /\ Len(OwnBindings') = n + 1
        /\ \A i \in 1..n + 1 : OwnBindings'[i] = scope[i]
    BY <1>1, <1>2, <1>6 DEF DispatchShape
  <2>2. OwnBindings = scope /\ scope \in Seq(Binding) /\ Len(scope) = n + 1
    BY <1>1 DEF BodyShape
  <2>. QED  BY <2>1, <2>2, SeqEqual
<1>9. BeingDispatched = NoCall
  BY <1>1 DEF BodyShape
<1>. QED  BY <1>1, <1>7, <1>8, <1>9 DEF Lexical!Call, Lexical!Idle

LEMMA NoClauseMap == Balanced /\ Correct /\ NoClauseLeft => Lexical!NoClause
<1>. SUFFICES ASSUME Balanced, Correct, NoClauseLeft  PROVE Lexical!NoClause
  OBVIOUS
<1>. DEFINE g == Current.callee
            v == Current.arg
            base == Base(g, scope[Len(calls)])
<1>1. /\ Dispatching /\ status = "running" /\ calls # <<>>
      /\ Current.clause > Len(ClausesOf[g]) /\ Unwind("abort")
  BY DEF NoClauseLeft, At, Dispatching, Running, InBody
<1>2. /\ DispatchShape /\ Top(OwnBindings) = scope[Len(calls)]
      /\ BeingDispatched = [callee |-> g, arg |-> v]
      /\ BeingDispatched # NoCall
      /\ Current \in Activation
  BY <1>1, DispatchingMap, CallerTop DEF DispatchShape
<1>3. Current.clause = Len(ClausesOf[g]) + 1
  <2>1. Current.clause <= Len(ClausesOf[g]) + 1
    <3>1. Len(calls) \in DOMAIN calls
      BY <1>1, InnermostState
    <3>. QED  BY <3>1 DEF Balanced, TypeOK, Current
  <2>2. Current.clause \in Nat /\ Len(ClausesOf[g]) \in Nat
    BY <1>2, ClausesType DEF Activation
  <2>. QED  BY <1>1, <2>1, <2>2
<1>4. FirstUpTo(g, Len(ClausesOf[g]) + 1, v, base)
  <2>1. CorrectAt(Current, scope[Len(calls)], scope[Len(calls) + 1])
    BY <1>1, InnermostState
  <2>. QED  BY <1>3, <2>1 DEF CorrectAt
<1>5. Lexical!End("abort")
  BY <1>1, UnwindMap DEF Ends
<1>. QED
  BY <1>1, <1>2, <1>4, <1>5, SameFirstUpTo, SameBase, SameStack DEF Lexical!NoClause

\* What is known of the dispatched call at a clause past its push.
LEMMA DispatchedCall ==
  ASSUME Balanced, Correct, Dispatching, Current.at # "push"
  PROVE  /\ DispatchShape
         /\ status = "running" /\ calls # <<>>
         /\ Top(OwnBindings) = scope[Len(calls)]
         /\ BeingDispatched = [callee |-> Current.callee, arg |-> Current.arg]
         /\ BeingDispatched # NoCall
         /\ Current.callee \in Callee /\ Current.arg \in Value
         /\ Current.clause \in DOMAIN ClausesOf[Current.callee]
         /\ CurrentClause \in Clause
         /\ CorrectAt(Current, scope[Len(calls)], scope[Len(calls) + 1])
         /\ scope \in Seq(Binding) /\ scope # <<>>
         /\ Len(scope) = Len(calls) + 1
<1>1. status = "running" /\ calls # <<>>
  BY DEF Dispatching, Running, InBody
<1>2. /\ DispatchShape
      /\ Top(OwnBindings) = scope[Len(calls)]
      /\ BeingDispatched = [callee |-> Current.callee, arg |-> Current.arg]
      /\ BeingDispatched # NoCall
      /\ Current.callee \in Callee /\ Current.arg \in Value
  BY DispatchingMap, CallerTop DEF DispatchShape, Activation
<1>3. /\ Current.clause \in DOMAIN ClausesOf[Current.callee]
      /\ CurrentClause \in Clause
  BY <1>1, <1>2, CurrentClauseType, ClausesType
<1>. QED  BY <1>1, <1>2, <1>3, InnermostState

\* The clause that answers the call: its body runs on what the clause bound.
LEMMA EnterMap ==
  ASSUME Balanced, Balanced', Correct, EvalGuard, Goto("body"),
         Guard(CurrentClause, Top(scope)) = "true"
  PROVE  Lexical!Enter
<1>. DEFINE g == Current.callee
            v == Current.arg
            k == Current.clause
            n == Len(calls)
            base == Base(g, scope[n])
<1>1. /\ Dispatching /\ Current.at = "guard"
      /\ UNCHANGED <<scope, status>>
  BY DEF EvalGuard, At, Dispatching, Running, InBody
<1>2. /\ DispatchShape /\ status = "running" /\ calls # <<>>
      /\ Top(OwnBindings) = scope[n]
      /\ BeingDispatched = [callee |-> g, arg |-> v] /\ BeingDispatched # NoCall
      /\ k \in DOMAIN ClausesOf[g]
      /\ CorrectAt(Current, scope[n], scope[n + 1])
      /\ scope \in Seq(Binding) /\ scope # <<>> /\ Len(scope) = n + 1
  BY <1>1, DispatchedCall
<1>3. n \in Nat \ {0}
  BY <1>2 DEF DispatchShape
<1>4. /\ FirstUpTo(g, k, v, base)
      /\ CurrentClause = ClausesOf[g][k]
      /\ Outcome(CurrentClause, v) = "match"
      /\ scope[n + 1] = Bound(CurrentClause, v, base)
  BY <1>1, <1>2 DEF CorrectAt, CurrentClause
<1>5. Accepts(CurrentClause, v, base)
  BY <1>2, <1>4 DEF Accepts, Top
<1>6. InBody'
  <2>1. Len(calls') = n /\ calls'[n].at = "body"
    <3>1. /\ Len(calls') = n
          /\ calls'[n] = [Current EXCEPT !.at = "body"]
      BY <1>2, GotoFacts DEF Balanced, TypeOK, Points
    <3>. QED  BY <1>2, <3>1, GotoPoint DEF DispatchShape, Points
  <2>2. Current'.at = "body"
    BY <2>1 DEF Current
  <2>. QED  BY <1>1, <1>2, <2>2 DEF InBody
<1>7. OwnBindings' = scope /\ BeingDispatched' = NoCall
  <2>1. BodyShape'
    BY <1>6, BodyMap, PTL
  <2>. QED  BY <1>1, <2>1 DEF BodyShape
<1>8. scope = Append(OwnBindings, Bound(CurrentClause, v, base))
  <2>1. /\ OwnBindings \in Seq(Binding) /\ Len(OwnBindings) = n
        /\ \A i \in 1..n : OwnBindings[i] = scope[i]
    BY <1>2 DEF DispatchShape
  <2>2. scope[n + 1] \in Binding
    BY <1>2, <1>3, ElementOfSeq
  <2>. DEFINE t == Append(OwnBindings, scope[n + 1])
  <2>3. /\ t \in Seq(Binding) /\ Len(t) = n + 1
        /\ \A i \in 1..n : t[i] = scope[i]
        /\ t[n + 1] = scope[n + 1]
    BY <2>1, <2>2, AppendProperties
  <2>. HIDE DEF t
  <2>4. \A i \in 1..Len(scope) : scope[i] = t[i]
    BY <1>2, <1>3, <2>3
  <2>5. scope = t
    BY <1>2, <2>3, <2>4, SeqEqual
  <2>. QED  BY <1>4, <2>5 DEF t
<1>. QED
  BY <1>1, <1>2, <1>4, <1>5, <1>7, <1>8,
     SameFirstUpTo, SameAccepts, SameBound, SameBase, SameStack
  DEF Lexical!Enter

LEMMA EvalGuardMap ==
  Balanced /\ Balanced' /\ Correct /\ EvalGuard
    => Lexical!Next \/ UNCHANGED Lexical!vars
<1>. SUFFICES ASSUME Balanced, Balanced', Correct, EvalGuard
              PROVE  Lexical!Next \/ UNCHANGED Lexical!vars
  OBVIOUS
<1>. DEFINE c == CurrentClause
            v == Current.arg
            base == Base(Current.callee, scope[Len(calls)])
            result == Guard(c, Top(scope))
<1>1. /\ Dispatching /\ Current.at = "guard"
      /\ UNCHANGED scope
  BY DEF EvalGuard, At, Dispatching, Running, InBody
<1>2. /\ status = "running" /\ calls # <<>>
      /\ Top(OwnBindings) = scope[Len(calls)]
      /\ BeingDispatched = [callee |-> Current.callee, arg |-> v]
      /\ BeingDispatched # NoCall
      /\ Current.clause \in DOMAIN ClausesOf[Current.callee]
      /\ CorrectAt(Current, scope[Len(calls)], scope[Len(calls) + 1])
      /\ Len(scope) = Len(calls) + 1
  BY <1>1, DispatchedCall
<1>3. /\ FirstUpTo(Current.callee, Current.clause, v, base)
      /\ c = ClausesOf[Current.callee][Current.clause]
      /\ Outcome(c, v) = "match"
      /\ Top(scope) = Bound(c, v, base)
  BY <1>1, <1>2 DEF CorrectAt, CurrentClause, Top
<1>4. CASE result = "true"
  BY <1>4, EnterMap DEF EvalGuard, Lexical!Next
<1>5. CASE result # "true" /\ result # "throw"
  <2>1. Goto("pop") /\ UNCHANGED status
    BY <1>5 DEF EvalGuard
  <2>. QED  BY <1>1, <2>1, GotoStutters DEF Points
<1>6. CASE result = "throw"
  <2>1. Lexical!End("abort")
    BY <1>2, <1>6, UnwindMap DEF EvalGuard, Ends
  <2>. QED
    BY <1>2, <1>3, <1>6, <2>1, SameFirstUpTo, SameBound, SameBase, SameStack
    DEF Lexical!Next, Lexical!Fault
<1>. QED  BY <1>4, <1>5, <1>6

LEMMA TryMatchMap ==
  Balanced /\ Balanced' /\ Correct /\ TryMatch
    => Lexical!Next \/ UNCHANGED Lexical!vars
<1>. SUFFICES ASSUME Balanced, Balanced', Correct, TryMatch
              PROVE  Lexical!Next \/ UNCHANGED Lexical!vars
  OBVIOUS
<1>. DEFINE c == CurrentClause
            v == Current.arg
            n == Len(calls)
            base == Base(Current.callee, scope[n])
            how == Outcome(c, v)
<1>1. /\ Dispatching /\ Current.at = "match"
      /\ scope' = Write(scope, Writes(c, v))
  BY DEF TryMatch, At, Dispatching, Running, InBody
<1>2. /\ DispatchShape
      /\ status = "running" /\ calls # <<>>
      /\ Top(OwnBindings) = scope[n]
      /\ BeingDispatched = [callee |-> Current.callee, arg |-> v]
      /\ BeingDispatched # NoCall
      /\ v \in Value /\ c \in Clause
      /\ Current.clause \in DOMAIN ClausesOf[Current.callee]
      /\ CorrectAt(Current, scope[n], scope[n + 1])
      /\ scope \in Seq(Binding) /\ scope # <<>> /\ Len(scope) = n + 1
  BY <1>1, DispatchedCall
<1>3. /\ FirstUpTo(Current.callee, Current.clause, v, base)
      /\ c = ClausesOf[Current.callee][Current.clause]
  BY <1>2 DEF CorrectAt, CurrentClause
<1>4. how \in Outcomes /\ Writes(c, v) \in Binding
  BY <1>2, OutcomeType
<1>5. CASE how \in {"match", "nomatch"}
  <2>1. \E p \in Points \ {"body"} : Goto(p)
    BY <1>5 DEF TryMatch, Points
  <2>2. UNCHANGED status
    BY <1>5 DEF TryMatch
  <2>3. \A i \in 1..n : scope'[i] = scope[i]
    <3>1. \A i \in 1..Len(scope) - 1 : scope'[i] = scope[i]
      BY <1>1, <1>2, <1>4, WriteFacts
    <3>. QED  BY <1>2, <3>1 DEF DispatchShape
  <2>. QED  BY <1>1, <2>1, <2>2, <2>3, GotoStutters
<1>6. CASE how \in {"foreign", "undefined"}
  <2>1. Lexical!End(how)
    BY <1>2, <1>6, UnwindMap DEF TryMatch, Ends
  <2>. QED
    BY <1>2, <1>3, <1>6, <2>1, SameFirstUpTo, SameBase, SameStack
    DEF Lexical!Next, Lexical!Fault
<1>. QED  BY <1>4, <1>5, <1>6 DEF Outcomes

\* A body that ends the process.
LEMMA BreakMap ==
  ASSUME Balanced, InBody, NEW how \in Ends \ {"returned"}, Unwind(how)
  PROVE  Lexical!Break
<1>1. Lexical!End(how)
  BY UnwindMap DEF InBody
<1>2. Lexical!Idle
  BY BodyMap DEF BodyShape, Lexical!Idle, InBody
<1>. QED  BY <1>1, <1>2 DEF Lexical!Break, Lexical!Ends, Ends

LEMMA MatchInBodyMap ==
  ASSUME NEW c \in Clause, NEW v \in Value, Balanced, Balanced', MatchInBody(c, v)
  PROVE  Lexical!Next
<1>1. InBody /\ scope' = Write(scope, Writes(c, v))
  BY DEF MatchInBody
<1>2. Outcome(c, v) \in Outcomes /\ Writes(c, v) \in Binding
  BY OutcomeType
<1>3. CASE Outcome(c, v) = "match"
  <2>1. UNCHANGED <<calls, status>>
    BY <1>3 DEF MatchInBody
  <2>2. InBody'
    BY <1>1, <2>1 DEF InBody, Current
  <2>3. BodyShape /\ BodyShape'
    BY <1>1, <2>2, BodyMap, PTL
  <2>4. Lexical!Bind(Writes(c, v))
    BY <1>1, <2>1, <2>3, SameStack DEF BodyShape, InBody, Lexical!Bind, Lexical!Idle
  <2>. QED  BY <1>2, <2>4 DEF Lexical!Next, Lexical!Binding, Binding
<1>4. CASE Outcome(c, v) # "match"
  <2>1. \E how \in Ends \ {"returned"} : Unwind(how)
    BY <1>2, <1>4 DEF MatchInBody, Outcomes, Ends
  <2>. QED  BY <1>1, <2>1, BreakMap DEF Lexical!Next
<1>. QED  BY <1>3, <1>4

LEMMA ReturnMap == Balanced /\ Balanced' /\ Return => Lexical!Return
<1>. SUFFICES ASSUME Balanced, Balanced', Return  PROVE Lexical!Return
  OBVIOUS
<1>. DEFINE n == Len(calls)
<1>1. /\ InBody /\ status = "running" /\ calls # <<>>
      /\ scope' = Pop(scope) /\ UNCHANGED status
  BY DEF Return, At, InBody
<1>2. BodyShape
  BY <1>1, BodyMap
<1>3. /\ n \in Nat \ {0}
      /\ Len(calls') = n - 1
      /\ \A i \in 1..n - 1 : calls'[i] = calls[i]
  BY <1>1, CurrentType, ReturnFacts DEF Balanced, TypeOK
<1>4. InBody'
  <2>1. \A i \in 1..n - 1 : calls[i].at = "body"
    BY <1>1 DEF Balanced, ScopeDepth
  <2>2. calls' # <<>> => n - 1 \in 1..n - 1
    <3>1. calls' # <<>> => Len(calls') # 0
      BY EmptySeq DEF Balanced, TypeOK
    <3>. QED  BY <1>3, <3>1
  <2>3. calls' # <<>> => Current'.at = "body"
    BY <1>3, <2>1, <2>2 DEF Current
  <2>. QED  BY <1>1, <2>3 DEF InBody
<1>5. BodyShape'
  BY <1>4, BodyMap, PTL
<1>6. OwnBindings' = Lexical!Pop(OwnBindings) /\ UNCHANGED <<BeingDispatched, status>>
  <2>1. scope' = Lexical!Pop(scope)
    BY <1>1, SameStack
  <2>. QED BY <1>1, <1>2, <1>5, <2>1 DEF BodyShape
<1>7. Len(OwnBindings) > 1 /\ BeingDispatched = NoCall
  BY <1>2, <1>3 DEF BodyShape
<1>. HIDE DEF n
<1>. QED BY <1>1, <1>6, <1>7 DEF Lexical!Return, Lexical!Idle

LEMMA FinishMap == Balanced /\ MainReturns => Lexical!Finish
<1>. SUFFICES ASSUME Balanced, MainReturns  PROVE Lexical!Finish
  OBVIOUS
<1>1. InBody /\ status = "running" /\ calls = <<>> /\ Unwind("returned")
  BY DEF MainReturns, InBody
<1>2. BodyShape /\ Len(scope) = 1
  BY <1>1, BodyMap DEF BodyShape
<1>3. Lexical!End("returned")
  BY <1>1, UnwindMap DEF Ends
<1>. QED  BY <1>1, <1>2, <1>3 DEF BodyShape, Lexical!Finish, Lexical!Idle

LEMMA NextMap ==
  Balanced /\ Balanced' /\ Correct /\ [Next]_vars => [Lexical!Next]_Lexical!vars
<1>. SUFFICES ASSUME Balanced, Balanced', Correct, [Next]_vars
              PROVE  Lexical!Next \/ UNCHANGED Lexical!vars
  OBVIOUS
<1>1. CASE PushScope \/ PopScope
  BY <1>1, PushScopeStutters, PopScopeStutters
<1>2. CASE NoClauseLeft
  BY <1>2, NoClauseMap DEF Lexical!Next
<1>3. CASE TryMatch \/ EvalGuard
  BY <1>3, TryMatchMap, EvalGuardMap
<1>4. CASE \E g \in Callee, v \in Value : Call(g, v)
  BY <1>4, CallMap DEF Lexical!Next, Lexical!Callee, Callee
<1>5. CASE \E c \in Clause, v \in Value : MatchInBody(c, v)
  BY <1>5, MatchInBodyMap
<1>6. CASE (\E x \in Var : GetUnbound(x)) \/ Raise \/ KernelExit
  <2>1. InBody /\ \E how \in Ends \ {"returned"} : Unwind(how)
    BY <1>6 DEF GetUnbound, Raise, KernelExit, Ends
  <2>. QED  BY <2>1, BreakMap DEF Lexical!Next
<1>7. CASE Return \/ MainReturns
  BY <1>7, ReturnMap, FinishMap DEF Lexical!Next
<1>8. CASE Ended \/ UNCHANGED vars
  BY <1>8 DEF Ended, vars, Lexical!vars, OwnBindings, BeingDispatched, Dispatching,
              Running, InBody, Current
<1>. QED
  BY <1>1, <1>2, <1>3, <1>4, <1>5, <1>6, <1>7, <1>8 DEF Next

-----------------------------------------------------------------------------
(* A generated program on its one global scope stack does what             *)
(* LexicalCalls promises: a call is answered by its first accepting clause *)
(* on what that clause binds, and no activation reaches the binding of     *)
(* another (create_matching, construct_case_condition, ExEnvironment).     *)
THEOREM LexicalCallsImplemented == Spec => ImplementsLexicalCalls
<1>1. Spec => [](Balanced /\ Correct)
  BY InitBalanced, NextBalanced, InitCorrect, NextCorrect, PTL DEF Spec
<1>2. Init => Lexical!Init
  BY InitMap
<1>3. Balanced /\ Balanced' /\ Correct /\ [Next]_vars => [Lexical!Next]_Lexical!vars
  BY NextMap
<1>. QED  BY <1>1, <1>2, <1>3, PTL DEF Spec, ImplementsLexicalCalls, Lexical!Spec
=============================================================================
