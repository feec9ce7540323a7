---------------------------- MODULE MatcherProofs ----------------------------
(* What ExMatch_pattern accepts and binds and what ExObject_equals tells   *)
(* apart, for any patterns and any values: proofs of the properties of     *)
(* Matcher.                                                                *)
EXTENDS Matcher, SequenceTheorems, NaturalsInduction, WellFoundedInduction, TLAPS

-----------------------------------------------------------------------------
(* Sequences.                                                              *)
Elems(s) == {s[i] : i \in DOMAIN s}

LEMMA ElemsConcat ==
  ASSUME NEW S, NEW s \in Seq(S), NEW t \in Seq(S)
  PROVE  s \o t \in Seq(S) /\ Elems(s \o t) = Elems(s) \cup Elems(t)
<1>1. s \o t \in Seq(S) /\ Len(s \o t) = Len(s) + Len(t)
  OBVIOUS
<1>2. ASSUME NEW i \in 1..Len(s) PROVE i \in DOMAIN (s \o t) /\ (s \o t)[i] = s[i]
  OBVIOUS
<1>3. ASSUME NEW i \in 1..Len(t)
      PROVE  Len(s) + i \in DOMAIN (s \o t) /\ (s \o t)[Len(s) + i] = t[i]
  OBVIOUS
<1>4. ASSUME NEW i \in 1..Len(s \o t)
      PROVE  (s \o t)[i] \in Elems(s) \cup Elems(t)
  <2>1. CASE i \in 1..Len(s)
    BY <2>1, <1>2 DEF Elems
  <2>2. CASE i \notin 1..Len(s)
    <3>1. i - Len(s) \in 1..Len(t) /\ i = Len(s) + (i - Len(s))
      BY <1>1, <2>2
    <3>. QED  BY <3>1, <1>3 DEF Elems
  <2>. QED  BY <2>1, <2>2
<1>5. DOMAIN (s \o t) = 1..Len(s \o t) /\ DOMAIN s = 1..Len(s) /\ DOMAIN t = 1..Len(t)
  BY <1>1
<1>6. Elems(s \o t) \subseteq Elems(s) \cup Elems(t)
  BY <1>4, <1>5, Zenon DEF Elems
<1>7. Elems(s) \subseteq Elems(s \o t)
  BY <1>2, <1>5, Zenon DEF Elems
<1>8. Elems(t) \subseteq Elems(s \o t)
  BY <1>3, <1>5, Zenon DEF Elems
<1>. QED  BY <1>1, <1>6, <1>7, <1>8

LEMMA ElemsTail ==
  ASSUME NEW S, NEW s \in Seq(S), s # <<>>
  PROVE  /\ Head(s) \in S /\ Tail(s) \in Seq(S) /\ Len(Tail(s)) = Len(s) - 1
         /\ Head(s) = s[1] /\ \A i \in 1..Len(s) - 1 : Tail(s)[i] = s[i + 1]
         /\ Elems(s) = {Head(s)} \cup Elems(Tail(s))
<1>1. /\ Head(s) \in S /\ Tail(s) \in Seq(S) /\ Len(Tail(s)) = Len(s) - 1
      /\ Head(s) = s[1] /\ \A i \in 1..Len(s) - 1 : Tail(s)[i] = s[i + 1]
      /\ Len(s) \in Nat \ {0}
  OBVIOUS
<1>2. DOMAIN s = 1..Len(s) /\ DOMAIN Tail(s) = 1..Len(s) - 1 /\ 1 \in 1..Len(s)
  BY <1>1
<1>3. ASSUME NEW i \in 1..Len(s), i # 1 PROVE s[i] \in Elems(Tail(s))
  <2>1. i - 1 \in 1..Len(s) - 1 /\ Tail(s)[i - 1] = s[i]
    BY <1>1, <1>3
  <2>. QED  BY <1>2, <2>1, Zenon DEF Elems
<1>4. Elems(s) \subseteq {Head(s)} \cup Elems(Tail(s))
  BY <1>1, <1>2, <1>3, Zenon DEF Elems
<1>5. \A i \in 1..Len(s) - 1 : i + 1 \in 1..Len(s)
  BY <1>1
<1>6. ASSUME NEW e \in Elems(Tail(s)) PROVE e \in Elems(s)
  <2>1. PICK i \in 1..Len(s) - 1 : e = Tail(s)[i]
    BY <1>2, Zenon DEF Elems
  <2>2. e = s[i + 1] /\ i + 1 \in 1..Len(s)
    BY <1>1, <1>5, <2>1
  <2>. QED  BY <1>2, <2>2, Zenon DEF Elems
<1>7. Head(s) \in Elems(s)
  BY <1>1, <1>2, Zenon DEF Elems
<1>. QED  BY <1>1, <1>4, <1>6, <1>7

LEMMA ElemsAppend ==
  ASSUME NEW S, NEW s \in Seq(S), NEW e \in S
  PROVE  /\ Append(s, e) \in Seq(S) /\ Append(s, e) # <<>>
         /\ Len(Append(s, e)) = Len(s) + 1 /\ Append(s, e)[Len(s) + 1] = e
         /\ \A i \in DOMAIN s : Append(s, e)[i] = s[i]
         /\ DOMAIN Append(s, e) = DOMAIN s \cup {Len(s) + 1}
         /\ Elems(Append(s, e)) = Elems(s) \cup {e}
BY DEF Elems

(* The loop over two vectors comes to their elements.                      *)
Loop(pairs, s, t, n) ==
  /\ \A i \in 1..n : Pair(s[i], t[i]) \in Elems(pairs)
  /\ \A q \in Elems(pairs) : \E i \in 1..n : q = Pair(s[i], t[i])

LEMMA PairsLoop ==
  ASSUME NEW S, NEW T, NEW s \in Seq(S), NEW t \in Seq(T), Len(s) = Len(t)
  PROVE  Pairs(s, t) \in Seq([left : S, right : T]) /\ Loop(Pairs(s, t), s, t, Len(s))
<1>. DEFINE p == Pairs(s, t)
<1>1. \A i \in 1..Len(s) : s[i] \in S /\ t[i] \in T
  OBVIOUS
<1>2. \A i \in 1..Len(s) : p[i] = Pair(s[i], t[i]) /\ p[i] \in [left : S, right : T]
  BY <1>1 DEF Pairs, Pair
<1>3. Len(s) \in Nat /\ p = [i \in 1..Len(s) |-> p[i]] /\ DOMAIN p = 1..Len(s)
  BY DEF Pairs
<1>4. p \in Seq([left : S, right : T])
  BY <1>2, <1>3
<1>. QED  BY <1>2, <1>3, <1>4 DEF Elems, Loop

LEMMA EmptyElems == ASSUME NEW S PROVE <<>> \in Seq(S) /\ Elems(<<>>) = {}
BY DEF Elems
-----------------------------------------------------------------------------
(* What the state consists of.                                             *)
CallPairs(function) == [left : IF function = "match" THEN Pattern ELSE Value, right : Value]

Typed ==
  /\ call \in {"match", "equals"}
  /\ calls \in Nat
  /\ bind \in Binding /\ start \in Binding
  /\ todo \in Seq(CallPairs(call)) /\ seen \in Seq(CallPairs(call))
  /\ todo # <<>> => how = "match"
  /\ calls = 0 => todo = <<>> /\ seen = <<>>
  /\ calls # 0 /\ seen = <<>> => todo # <<>> /\ Elems(todo) = {Target}

\* All the pairs of the call.
All == Elems(seen) \cup Elems(todo)

LEMMA PairFacts ==
  ASSUME NEW l, NEW r
  PROVE  /\ Pair(l, r).left = l /\ Pair(l, r).right = r
         /\ \A q \in CallPairs("match") \cup CallPairs("equals") : q = Pair(q.left, q.right)
BY DEF Pair, CallPairs

LEMMA ContinueFacts ==
  ASSUME Typed, todo # <<>>, NEW b \in Binding, NEW pairs \in Seq(CallPairs(call)),
         Continue(b, pairs)
  PROVE  /\ Typed'
         /\ Target' = Target
         /\ Head(todo) \in CallPairs(call)
         /\ Elems(seen') = Elems(seen) \cup {Head(todo)}
         /\ Elems(todo') = Elems(pairs) \cup Elems(Tail(todo))
         /\ Elems(todo) = {Head(todo)} \cup Elems(Tail(todo))
         /\ All' = All \cup Elems(pairs)
<1>. DEFINE S == CallPairs(call)
<1>1. todo \in Seq(S) /\ seen \in Seq(S) /\ pairs \in Seq(S)
  BY DEF Typed
<1>2. /\ Head(todo) \in S /\ Tail(todo) \in Seq(S)
      /\ Elems(todo) = {Head(todo)} \cup Elems(Tail(todo))
  BY <1>1, ElemsTail
<1>3. todo' \in Seq(S) /\ Elems(todo') = Elems(pairs) \cup Elems(Tail(todo))
  <2>. DEFINE rest == Tail(todo)
  <2>1. todo' = pairs \o rest
    BY DEF Continue
  <2>2. pairs \in Seq(S) /\ rest \in Seq(S)
    BY <1>1, <1>2
  <2>. HIDE DEF S, rest
  <2>3. pairs \o rest \in Seq(S) /\ Elems(pairs \o rest) = Elems(pairs) \cup Elems(rest)
    BY <2>2, ElemsConcat
  <2>. QED  BY <2>1, <2>3, Zenon DEF rest
<1>4. /\ seen' \in Seq(S) /\ seen' # <<>>
      /\ Elems(seen') = Elems(seen) \cup {Head(todo)}
  BY <1>1, <1>2, ElemsAppend DEF Continue
<1>5. Target' = Target
  BY <1>1, <1>2, <1>4 DEF Target, Continue
<1>6. All' = All \cup Elems(pairs)
  BY <1>2, <1>3, <1>4 DEF All
<1>7. calls # 0
  BY DEF Typed
<1>8. Typed'
  BY <1>3, <1>4, <1>7 DEF Typed, Continue
<1>. QED  BY <1>2, <1>3, <1>4, <1>5, <1>6, <1>8

LEMMA StopFacts ==
  ASSUME Typed, todo # <<>>, NEW end, Stop(end)
  PROVE  /\ Typed'
         /\ Target' = Target
         /\ Head(todo) \in CallPairs(call) /\ Head(todo) \in All
         /\ All' \subseteq All
<1>. DEFINE S == CallPairs(call)
<1>1. todo \in Seq(S) /\ seen \in Seq(S)
  BY DEF Typed
<1>2. Head(todo) \in S /\ Elems(todo) = {Head(todo)} \cup Elems(Tail(todo))
  BY <1>1, ElemsTail
<1>3. /\ seen' \in Seq(S) /\ seen' # <<>>
      /\ Elems(seen') = Elems(seen) \cup {Head(todo)}
  BY <1>1, <1>2, ElemsAppend DEF Stop
<1>4. todo' \in Seq(S) /\ todo' = <<>> /\ Elems(todo') = {}
  BY EmptyElems DEF Stop
<1>5. Target' = Target
  BY <1>1, <1>2, <1>3 DEF Target, Stop
<1>6. All' \subseteq All /\ Head(todo) \in All
  BY <1>2, <1>3, <1>4 DEF All
<1>7. calls # 0
  BY DEF Typed
<1>8. Typed'
  BY <1>3, <1>4, <1>7 DEF Typed, Stop
<1>. QED  BY <1>2, <1>5, <1>6, <1>8

LEMMA BeginFacts ==
  ASSUME Typed, NEW f \in {"match", "equals"}, NEW q \in CallPairs(f),
         Begin(f, q.left, q.right)
  PROVE  /\ Typed'
         /\ Target' = q
         /\ call' = f /\ how' = "match" /\ seen' = <<>> /\ Elems(seen') = {}
         /\ Elems(todo') = {q} /\ All' = {q}
<1>1. q = Pair(q.left, q.right)
  BY DEF CallPairs, Pair
<1>2. todo' = <<q>> /\ seen' = <<>> /\ calls' = calls + 1 /\ call' = f /\ how' = "match"
  BY <1>1 DEF Begin
<1>3. todo' \in Seq(CallPairs(f)) /\ Head(todo') = q /\ Elems(todo') = {q} /\ todo' # <<>>
  BY <1>2 DEF Elems
<1>4. seen' \in Seq(CallPairs(f)) /\ Elems(seen') = {}
  BY <1>2, EmptyElems
<1>5. Target' = q
  BY <1>2, <1>3 DEF Target
<1>6. Typed'
  BY <1>2, <1>3, <1>4, <1>5 DEF Typed, Begin
<1>. QED  BY <1>2, <1>3, <1>4, <1>5, <1>6 DEF All
-----------------------------------------------------------------------------
(* One step of a call, whichever it is: the parts of the two objects are   *)
(* all that is to come, or there is no way to read the one as the other.   *)
Opened(R, l, r) ==
  /\ IsVector(l) =>
       /\ IsVector(r) /\ Len(l.items) = Len(r.items)
       /\ \A i \in 1..Len(l.items) : Pair(l.items[i], r.items[i]) \in R
  /\ l.type = "cons" =>
       /\ IsVector(r) /\ r.items # <<>>
       /\ \A i \in 1..2 : Pair(l.items[i], SplitFirst(r)[i]) \in R
  /\ l.type \in Scalars => SameScalar(l, r)

LEMMA OpenedMonotone ==
  ASSUME NEW R, NEW T, R \subseteq T, NEW l, NEW r, Opened(R, l, r) PROVE Opened(T, l, r)
BY DEF Opened

LEMMA SplitValue ==
  ASSUME NEW v \in Value, v.items # <<>>
  PROVE  SplitFirst(v) \in Seq(Value) /\ Len(SplitFirst(v)) = 2
<1>1. v.items \in Seq(Value) /\ EX_LIST(Tail(v.items)) \in Value
  BY ValueAssumption
<1>2. Head(v.items) \in Value
  BY <1>1
<1>. QED  BY <1>1, <1>2 DEF SplitFirst

LEMMA PatternLoop ==
  ASSUME NEW s \in Seq(Pattern), NEW t \in Seq(Value), Len(s) = Len(t)
  PROVE  Pairs(s, t) \in Seq(CallPairs("match")) /\ Loop(Pairs(s, t), s, t, Len(s))
<1>1. CallPairs("match") = [left : Pattern, right : Value]
  BY DEF CallPairs
<1>2. Pairs(s, t) \in Seq([left : Pattern, right : Value]) /\ Loop(Pairs(s, t), s, t, Len(s))
  BY PairsLoop
<1>. QED  BY <1>1, <1>2

LEMMA ValueLoop ==
  ASSUME NEW s \in Seq(Value), NEW t \in Seq(Value), Len(s) = Len(t)
  PROVE  Pairs(s, t) \in Seq(CallPairs("equals")) /\ Loop(Pairs(s, t), s, t, Len(s))
<1>1. CallPairs("equals") = [left : Value, right : Value]
  BY DEF CallPairs
<1>2. Pairs(s, t) \in Seq([left : Value, right : Value]) /\ Loop(Pairs(s, t), s, t, Len(s))
  BY PairsLoop
<1>. QED  BY <1>1, <1>2

MatchAction == MatchVar \/ MatchVector \/ MatchCons \/ MatchScalar

MatchGoesOn(q, pairs) ==
  /\ Continue(bind, pairs)
  /\ q.left.type # "var"
  /\ Opened(Elems(pairs), q.left, q.right)
  /\ \A R : Reads(R, q.left, q.right) => Elems(pairs) \subseteq R

MatchStops(q, end) ==
  /\ Stop(end)
  /\ end # "match"
  /\ \A R : ~Reads(R, q.left, q.right)

LEMMA MatchCases ==
  ASSUME Typed, MatchAction
  PROVE  /\ todo # <<>> /\ call = "match" /\ Head(todo) \in CallPairs("match")
         /\ \/ /\ Left.type = "var"
               /\ Continue(Written(bind, Left.sym, Right), <<>>)
            \/ \E pairs \in Seq(CallPairs("match")) : MatchGoesOn(Head(todo), pairs)
            \/ \E end : MatchStops(Head(todo), end)
<1>. DEFINE S == CallPairs("match")
<1>1. todo # <<>> /\ call = "match"
  BY DEF MatchAction, MatchVar, MatchVector, MatchCons, MatchScalar, At
<1>2. Head(todo) \in S
  BY <1>1, ElemsTail DEF Typed
<1>3. Left \in Pattern /\ Right \in Value
  BY <1>2 DEF CallPairs, Left, Right
<1>4. Left.items \in Seq(Pattern) /\ Right.items \in Seq(Value)
  BY <1>3, PatternAssumption, ValueAssumption
<1>5. CASE MatchVar
  BY <1>1, <1>2, <1>5 DEF MatchVar
<1>6. CASE MatchVector
  <2>1. IsVector(Left) /\ Left.type # "var" /\ Left.type # "cons" /\ Left.type \notin Scalars
    BY <1>6 DEF MatchVector, IsVector, Scalars
  <2>2. \A R : Reads(R, Left, Right) <=>
                 /\ IsVector(Right) /\ Len(Left.items) = Len(Right.items)
                 /\ \A i \in 1..Len(Left.items) : Pair(Left.items[i], Right.items[i]) \in R
    BY <2>1 DEF Reads
  <2>3. CASE ~IsVector(Right) /\ Stop("undefined")
    BY <1>1, <1>2, <2>2, <2>3 DEF MatchStops, Left, Right
  <2>4. CASE Len(Left.items) # Len(Right.items) /\ Stop("nomatch")
    BY <1>1, <1>2, <2>2, <2>4 DEF MatchStops, Left, Right
  <2>5. CASE /\ IsVector(Right) /\ Len(Left.items) = Len(Right.items)
             /\ Continue(bind, Pairs(Left.items, Right.items))
    <3>. DEFINE pairs == Pairs(Left.items, Right.items)
    <3>2. pairs \in Seq(S) /\ Loop(pairs, Left.items, Right.items, Len(Left.items))
      BY <1>4, <2>5, PatternLoop
    <3>. HIDE DEF pairs
    <3>3. Opened(Elems(pairs), Left, Right)
      BY <2>1, <2>5, <3>2 DEF Opened, Loop
    <3>4. \A R : Reads(R, Left, Right) => Elems(pairs) \subseteq R
      BY <2>2, <3>2 DEF Loop
    <3>5. MatchGoesOn(Head(todo), pairs)
      BY <2>1, <2>5, <3>3, <3>4 DEF MatchGoesOn, Left, Right, pairs
    <3>. QED  BY <1>1, <1>2, <3>2, <3>5
  <2>. QED  BY <1>6, <2>3, <2>4, <2>5 DEF MatchVector
<1>7. CASE MatchCons
  <2>1. ~IsVector(Left) /\ Left.type = "cons" /\ Len(Left.items) = 2
    BY <1>3, <1>7, PatternAssumption DEF MatchCons, IsVector
  <2>2. \A R : Reads(R, Left, Right) <=>
                 /\ IsVector(Right) /\ Right.items # <<>>
                 /\ \A i \in 1..2 : Pair(Left.items[i], SplitFirst(Right)[i]) \in R
    BY <2>1 DEF Reads
  <2>3. CASE ~IsVector(Right) /\ Stop("undefined")
    BY <1>1, <1>2, <2>2, <2>3 DEF MatchStops, Left, Right
  <2>4. CASE Right.items = <<>> /\ Stop("foreign")
    BY <1>1, <1>2, <2>2, <2>4 DEF MatchStops, Left, Right
  <2>5. CASE /\ IsVector(Right) /\ Right.items # <<>>
             /\ Continue(bind, Pairs(Left.items, SplitFirst(Right)))
    <3>. DEFINE pairs == Pairs(Left.items, SplitFirst(Right))
    <3>1. SplitFirst(Right) \in Seq(Value) /\ Len(SplitFirst(Right)) = 2
      BY <1>3, <2>5, SplitValue
    <3>3. pairs \in Seq(S) /\ Loop(pairs, Left.items, SplitFirst(Right), 2)
      BY <1>4, <2>1, <3>1, PatternLoop
    <3>. HIDE DEF pairs
    <3>4. Opened(Elems(pairs), Left, Right)
      BY <2>1, <2>5, <3>3 DEF Opened, Scalars, Loop
    <3>5. \A R : Reads(R, Left, Right) => Elems(pairs) \subseteq R
      BY <2>2, <3>3 DEF Loop
    <3>6. MatchGoesOn(Head(todo), pairs)
      BY <2>1, <2>5, <3>4, <3>5 DEF MatchGoesOn, Left, Right, pairs
    <3>. QED  BY <1>1, <1>2, <3>3, <3>6
  <2>. QED  BY <1>7, <2>3, <2>4, <2>5 DEF MatchCons
<1>8. CASE MatchScalar
  <2>1. /\ Left.type \in Scalars /\ ~IsVector(Left)
        /\ Left.type # "var" /\ Left.type # "cons"
    BY <1>8 DEF MatchScalar, IsVector, Scalars
  <2>2. \A R : Reads(R, Left, Right) <=> SameScalar(Left, Right)
    BY <2>1 DEF Reads
  <2>3. CASE SameScalar(Left, Right) /\ Continue(bind, <<>>)
    <3>1. <<>> \in Seq(S) /\ Elems(<<>>) = {}
      BY EmptyElems
    <3>2. Opened({}, Left, Right)
      BY <2>1, <2>3 DEF Opened
    <3>3. MatchGoesOn(Head(todo), <<>>)
      BY <2>1, <2>3, <3>1, <3>2 DEF MatchGoesOn, Left, Right
    <3>. QED  BY <1>1, <1>2, <3>1, <3>3
  <2>4. CASE ~SameScalar(Left, Right) /\ Stop("nomatch")
    BY <1>1, <1>2, <2>2, <2>4 DEF MatchStops, Left, Right
  <2>. QED  BY <1>8, <2>3, <2>4 DEF MatchScalar
<1>. QED  BY <1>5, <1>6, <1>7, <1>8 DEF MatchAction
(* Two values with equal parts are equal.                                  *)
SameShape(R, l, r) ==
  IF IsVector(l)
  THEN /\ l.type = r.type /\ Len(l.items) = Len(r.items)
       /\ \A i \in 1..Len(l.items) : Pair(l.items[i], r.items[i]) \in R
  ELSE SameScalar(l, r)

LEMMA SameShapeMonotone ==
  ASSUME NEW R, NEW T, R \subseteq T, NEW l, NEW r, SameShape(R, l, r) PROVE SameShape(T, l, r)
BY DEF SameShape

EqualsAction == EqualsVector \/ EqualsScalar

EqualsGoesOn(q, pairs) ==
  /\ Continue(bind, pairs)
  /\ SameShape(Elems(pairs), q.left, q.right)
  /\ q.left = q.right => \A e \in Elems(pairs) : e.left = e.right

LEMMA EqualsCases ==
  ASSUME Typed, EqualsAction
  PROVE  /\ todo # <<>> /\ call = "equals" /\ Head(todo) \in CallPairs("equals")
         /\ \/ \E pairs \in Seq(CallPairs("equals")) : EqualsGoesOn(Head(todo), pairs)
            \/ Stop("nomatch") /\ Left # Right
<1>. DEFINE S == CallPairs("equals")
<1>1. todo # <<>> /\ call = "equals"
  BY DEF EqualsAction, EqualsVector, EqualsScalar, At
<1>2. Head(todo) \in S
  BY <1>1, ElemsTail DEF Typed
<1>3. Left \in Value /\ Right \in Value
  BY <1>2 DEF CallPairs, Left, Right
<1>4. Left.items \in Seq(Value) /\ Right.items \in Seq(Value)
  BY <1>3, ValueAssumption
<1>5. CASE EqualsVector
  <2>1. CASE /\ Left.type = Right.type /\ Len(Left.items) = Len(Right.items)
             /\ Continue(bind, Pairs(Left.items, Right.items))
    <3>. DEFINE pairs == Pairs(Left.items, Right.items)
    <3>1. pairs \in Seq(S) /\ Loop(pairs, Left.items, Right.items, Len(Left.items))
      BY <1>4, <2>1, ValueLoop
    <3>. HIDE DEF pairs
    <3>2. SameShape(Elems(pairs), Left, Right)
      BY <1>5, <2>1, <3>1 DEF EqualsVector, SameShape, Loop
    <3>3. Left = Right => \A e \in Elems(pairs) : e.left = e.right
      BY <3>1, PairFacts DEF Loop
    <3>4. EqualsGoesOn(Head(todo), pairs)
      BY <2>1, <3>2, <3>3 DEF EqualsGoesOn, Left, Right, pairs
    <3>. QED  BY <1>1, <1>2, <3>1, <3>4
  <2>. QED  BY <1>1, <1>2, <1>5, <2>1 DEF EqualsVector
<1>6. CASE EqualsScalar
  <2>1. ~IsVector(Left)
    BY <1>6 DEF EqualsScalar, IsVector, Scalars
  <2>2. CASE SameScalar(Left, Right) /\ Continue(bind, <<>>)
    <3>1. <<>> \in Seq(S) /\ Elems(<<>>) = {}
      BY EmptyElems
    <3>2. EqualsGoesOn(Head(todo), <<>>)
      BY <2>1, <2>2, <3>1 DEF EqualsGoesOn, SameShape, Left, Right
    <3>. QED  BY <1>1, <1>2, <3>1, <3>2
  <2>. QED  BY <1>1, <1>2, <1>6, <2>2 DEF EqualsScalar, SameScalar
<1>. QED  BY <1>5, <1>6 DEF EqualsAction

-----------------------------------------------------------------------------
(* The inductive invariant.                                                *)

\* While it accepts, the match has come to, or will come to, the parts of what it came to.
MatchedInv ==
  call = "match" /\ how = "match" =>
    \A q \in Elems(seen) : Opened(All, q.left, q.right)

\* A reading of the whole reads all its parts.
ReadingInv ==
  Made("match") =>
    \A R \in Readings : Target \in R => how = "match" /\ All \subseteq R

EqualsInv ==
  Made("equals") =>
    /\ how \in {"match", "nomatch"}
    /\ Target.left = Target.right => how = "match" /\ \A q \in Elems(todo) : q.left = q.right
    /\ how = "match" => \A q \in Elems(seen) : SameShape(All, q.left, q.right)

MatcherInv == Typed /\ FirstValueKept /\ MatchedInv /\ ReadingInv /\ EqualsInv

LEMMA InitMatcher == Init => MatcherInv
<1>. SUFFICES ASSUME Init PROVE MatcherInv
  OBVIOUS
<1>1. Elems(seen) = {}
  BY EmptyElems DEF Init
<1>2. Empty \in Binding
  BY DEF Empty, Binding
<1>3. Typed
  BY <1>2, EmptyElems DEF Init, Typed
<1>4. FirstValueKept
  BY DEF Init, FirstValueKept, MetAt
<1>. QED  BY <1>1, <1>3, <1>4 DEF MatcherInv, MatchedInv, ReadingInv, EqualsInv, Made, Init
LEMMA BeginMatcher ==
  ASSUME MatcherInv, NEW f \in {"match", "equals"}, NEW q \in CallPairs(f),
         Begin(f, q.left, q.right)
  PROVE  MatcherInv'
<1>1. /\ Typed' /\ Target' = q
      /\ call' = f /\ how' = "match" /\ seen' = <<>> /\ Elems(seen') = {}
      /\ Elems(todo') = {q} /\ All' = {q}
  BY BeginFacts DEF MatcherInv
<1>2. FirstValueKept'
  BY <1>1 DEF FirstValueKept, MetAt, Begin
<1>3. MatchedInv' /\ EqualsInv'
  BY <1>1 DEF MatchedInv, EqualsInv
<1>4. ReadingInv'
  BY <1>1 DEF ReadingInv
<1>. QED  BY <1>1, <1>2, <1>3, <1>4 DEF MatcherInv

-----------------------------------------------------------------------------
(* The names.                                                              *)
LEMMA VarNames ==
  /\ \A x, z : EX_VAR(x) = EX_VAR(z) => x = z
  /\ \A x : EX_VAR(x).type = "var" /\ EX_VAR(x).sym = x
  /\ \A v \in Value : \A x : v # EX_VAR(x)
<1>1. \A x : EX_VAR(x).type = "var" /\ EX_VAR(x).sym = x
  BY DEF EX_VAR, Scalar
<1>2. \A v \in Value : v.type # "var"
  BY ValueAssumption DEF Scalars
<1>. QED  BY <1>1, <1>2

LEMMA MetAppend ==
  ASSUME Typed, NEW q \in CallPairs(call), seen' = Append(seen, q), NEW x
  PROVE  /\ MetAt(x)' = MetAt(x) \cup (IF q.left = EX_VAR(x) THEN {Len(seen) + 1} ELSE {})
         /\ Len(seen) \in Nat /\ seen'[Len(seen) + 1] = q
         /\ \A i \in MetAt(x) : i \in 1..Len(seen) /\ seen'[i] = seen[i] /\ seen[i].right \in Value
<1>1. /\ seen \in Seq(CallPairs(call)) /\ DOMAIN seen = 1..Len(seen) /\ Len(seen) \in Nat
  BY DEF Typed
<1>2. /\ seen'[Len(seen) + 1] = q /\ \A i \in DOMAIN seen : seen'[i] = seen[i]
      /\ DOMAIN seen' = DOMAIN seen \cup {Len(seen) + 1}
  BY <1>1, ElemsAppend
<1>3. \A i \in DOMAIN seen : seen[i].right \in Value
  <2>1. \A e \in CallPairs(call) : e.right \in Value
    BY DEF CallPairs
  <2>. QED  BY <1>1, <2>1
<1>. QED  BY <1>1, <1>2, <1>3 DEF MetAt

LEMMA OtherKept ==
  ASSUME Typed, FirstValueKept, NEW q \in CallPairs(call), \A x : q.left # EX_VAR(x),
         seen' = Append(seen, q), bind' = bind, start' = start
  PROVE  FirstValueKept'
<1>. SUFFICES ASSUME NEW x \in Var
              PROVE  IF MetAt(x)' = {} \/ start[x] # Unbound THEN bind[x] = start[x]
                     ELSE \E i \in MetAt(x)' :
                            bind[x] = seen'[i].right /\ \A j \in MetAt(x)' : i <= j
  BY DEF FirstValueKept
<1>. QED  BY MetAppend DEF FirstValueKept

LEMMA VarKept ==
  ASSUME Typed, FirstValueKept, NEW y \in Var, NEW q \in CallPairs(call), q.left = EX_VAR(y),
         seen' = Append(seen, q), bind' = Written(bind, y, q.right), start' = start
  PROVE  FirstValueKept' /\ bind' \in Binding
<1>1. bind \in Binding /\ q.right \in Value /\ Unbound \notin Value
  BY UnboundAssumption DEF Typed, CallPairs
<1>2. \A x \in Var : bind'[x] = IF bind[x] = Unbound
                                THEN IF x = y THEN q.right ELSE Unbound
                                ELSE bind[x]
  BY DEF Written, Insert, Empty
<1>3. bind' \in Binding
  BY <1>1 DEF Binding, Written, Insert, Empty
<1>4. ASSUME NEW x \in Var
      PROVE  IF MetAt(x)' = {} \/ start[x] # Unbound THEN bind'[x] = start[x]
             ELSE \E i \in MetAt(x)' :
                    bind'[x] = seen'[i].right /\ \A j \in MetAt(x)' : i <= j
  <2>1. /\ MetAt(x)' = MetAt(x) \cup (IF q.left = EX_VAR(x) THEN {Len(seen) + 1} ELSE {})
        /\ Len(seen) \in Nat /\ seen'[Len(seen) + 1] = q
        /\ \A i \in MetAt(x) : i \in 1..Len(seen) /\ seen'[i] = seen[i] /\ seen[i].right \in Value
    BY MetAppend
  <2>2. IF MetAt(x) = {} \/ start[x] # Unbound THEN bind[x] = start[x]
        ELSE \E i \in MetAt(x) : bind[x] = seen[i].right /\ \A j \in MetAt(x) : i <= j
    BY DEF FirstValueKept
  <2>3. CASE x # y
    <3>1. MetAt(x)' = MetAt(x) /\ bind'[x] = bind[x]
      BY <1>2, <2>1, <2>3, VarNames
    <3>. QED  BY <2>1, <2>2, <3>1
  <2>4. CASE x = y /\ start[x] # Unbound
    BY <1>2, <2>2, <2>4
  <2>5. CASE x = y /\ start[x] = Unbound /\ MetAt(x) = {}
    <3>1. MetAt(x)' = {Len(seen) + 1} /\ bind'[x] = q.right
      BY <1>2, <2>1, <2>2, <2>5
    <3>. QED  BY <2>1, <2>5, <3>1
  <2>6. CASE x = y /\ start[x] = Unbound /\ MetAt(x) # {}
    <3>1. PICK i \in MetAt(x) : bind[x] = seen[i].right /\ \A j \in MetAt(x) : i <= j
      BY <2>2, <2>6
    <3>2. bind'[x] = bind[x]
      BY <1>1, <1>2, <2>1, <3>1
    <3>3. i \in MetAt(x)' /\ \A j \in MetAt(x)' : i <= j
      BY <2>1, <3>1
    <3>. QED  BY <2>1, <2>6, <3>1, <3>2, <3>3
  <2>. QED  BY <2>3, <2>4, <2>5, <2>6
<1>. QED  BY <1>3, <1>4 DEF FirstValueKept

-----------------------------------------------------------------------------
(* The steps of a call.                                                    *)
LEMMA MatchMatcher == ASSUME MatcherInv, MatchAction PROVE MatcherInv'
<1>. DEFINE q == Head(todo)
<1>1. /\ todo # <<>> /\ call = "match" /\ q \in CallPairs("match")
      /\ \/ Left.type = "var" /\ Continue(Written(bind, Left.sym, Right), <<>>)
         \/ \E pairs \in Seq(CallPairs("match")) : MatchGoesOn(q, pairs)
         \/ \E end : MatchStops(q, end)
  BY MatchCases DEF MatcherInv
<1>2. Typed /\ FirstValueKept /\ MatchedInv /\ ReadingInv /\ how = "match" /\ bind \in Binding
  BY <1>1 DEF MatcherInv, Typed
<1>3. q.left \in Pattern /\ q.right \in Value /\ Left = q.left /\ Right = q.right
  BY <1>1 DEF CallPairs, Left, Right
<1>. HIDE DEF q
<1>4. CASE Left.type = "var" /\ Continue(Written(bind, Left.sym, Right), <<>>)
  <2>1. q.left = EX_VAR(Left.sym) /\ Left.sym \in Var
    BY <1>3, <1>4, PatternAssumption
  <2>2. seen' = Append(seen, q) /\ bind' = Written(bind, Left.sym, q.right) /\ start' = start
    BY <1>3, <1>4 DEF Continue, q
  <2>3. FirstValueKept' /\ bind' \in Binding
    BY <1>1, <1>2, <2>1, <2>2, VarKept
  <2>4. <<>> \in Seq(CallPairs(call)) /\ Elems(<<>>) = {}
    BY EmptyElems
  <2>5. /\ Typed' /\ Target' = Target /\ Elems(seen') = Elems(seen) \cup {q}
        /\ All' = All
    <3>1. Written(bind, Left.sym, Right) \in Binding
      BY <1>3, <2>2, <2>3
    <3>2. /\ Typed' /\ Target' = Target /\ Elems(seen') = Elems(seen) \cup {Head(todo)}
          /\ All' = All \cup Elems(<<>>)
      BY <1>1, <1>2, <1>4, <2>4, <3>1, ContinueFacts
    <3>. QED  BY <2>4, <3>2 DEF q
  <2>6. how' = how /\ call' = call /\ calls' = calls
    BY <1>4 DEF Continue
  <2>7. Opened(All, q.left, q.right)
    BY <1>3, <1>4 DEF Opened, IsVector, Scalars
  <2>8. MatchedInv'
    BY <1>1, <1>2, <2>5, <2>7 DEF MatchedInv
  <2>9. ReadingInv'
    BY <1>2, <2>5, <2>6 DEF ReadingInv, Made
  <2>10. EqualsInv'
    BY <1>1, <2>6 DEF EqualsInv, Made
  <2>. QED  BY <2>3, <2>5, <2>8, <2>9, <2>10 DEF MatcherInv
<1>5. ASSUME NEW pairs \in Seq(CallPairs("match")), MatchGoesOn(q, pairs) PROVE MatcherInv'
  <2>1. /\ Continue(bind, pairs) /\ q.left.type # "var"
        /\ Opened(Elems(pairs), q.left, q.right)
        /\ \A R : Reads(R, q.left, q.right) => Elems(pairs) \subseteq R
    BY <1>5 DEF MatchGoesOn
  <2>2. /\ seen' = Append(seen, q) /\ bind' = bind /\ start' = start
        /\ how' = how /\ call' = call /\ calls' = calls
    BY <2>1 DEF Continue, q
  <2>3. FirstValueKept'
    BY <1>1, <1>2, <2>1, <2>2, VarNames, OtherKept
  <2>4. /\ Typed' /\ Target' = Target /\ Elems(seen') = Elems(seen) \cup {q}
        /\ All' = All \cup Elems(pairs) /\ q \in All
    BY <1>1, <1>2, <2>1, ContinueFacts DEF q, All
  <2>5. MatchedInv'
    <3>1. \A e \in Elems(seen) : Opened(All', e.left, e.right)
      BY <1>1, <1>2, <2>4, OpenedMonotone DEF MatchedInv
    <3>2. Opened(All', q.left, q.right)
      BY <2>1, <2>4, OpenedMonotone
    <3>. QED  BY <2>4, <3>1, <3>2 DEF MatchedInv
  <2>6. ReadingInv'
    <3>. SUFFICES ASSUME Made("match"), NEW R \in Readings, Target \in R
                  PROVE  how = "match" /\ All' \subseteq R
      BY <2>2, <2>4 DEF ReadingInv, Made
    <3>1. how = "match" /\ All \subseteq R
      BY <1>2 DEF ReadingInv
    <3>2. Reads(R, q.left, q.right)
      BY <2>4, <3>1, ReadingsAssumption DEF Reading
    <3>. QED  BY <2>1, <2>4, <3>1, <3>2
  <2>7. EqualsInv'
    BY <1>1, <2>2 DEF EqualsInv, Made
  <2>. QED  BY <2>3, <2>4, <2>5, <2>6, <2>7 DEF MatcherInv
<1>6. ASSUME NEW end, MatchStops(q, end) PROVE MatcherInv'
  <2>1. Stop(end) /\ end # "match" /\ \A R : ~Reads(R, q.left, q.right)
    BY <1>6 DEF MatchStops
  <2>2. /\ seen' = Append(seen, q) /\ bind' = bind /\ start' = start
        /\ how' = end /\ call' = call /\ calls' = calls
    BY <2>1 DEF Stop, q
  <2>3. q \in All /\ Target' = Target /\ Typed'
    BY <1>1, <1>2, <2>1, StopFacts DEF q
  <2>4. FirstValueKept'
    <3>1. CASE \A x : q.left # EX_VAR(x)
      BY <1>1, <1>2, <2>2, <3>1, OtherKept
    <3>2. CASE \E x : q.left = EX_VAR(x)
      <4>1. q.left.type = "var"
        BY <3>2, VarNames
      <4>2. Reads({q}, q.left, q.right)
        BY <4>1 DEF Reads, IsVector
      <4>. QED  BY <2>1, <4>2
    <3>. QED  BY <3>1, <3>2
  <2>5. ReadingInv'
    <3>. SUFFICES ASSUME Made("match"), NEW R \in Readings, Target \in R PROVE FALSE
      BY <2>2, <2>3 DEF ReadingInv, Made
    <3>1. All \subseteq R
      BY <1>2 DEF ReadingInv
    <3>. QED  BY <2>1, <2>3, <3>1, ReadingsAssumption DEF Reading
  <2>6. MatchedInv' /\ EqualsInv'
    BY <1>1, <2>1, <2>2 DEF MatchedInv, EqualsInv, Made
  <2>. QED  BY <2>3, <2>4, <2>5, <2>6 DEF MatcherInv
<1>. QED  BY <1>1, <1>4, <1>5, <1>6
LEMMA EqualsMatcher == ASSUME MatcherInv, EqualsAction PROVE MatcherInv'
<1>. DEFINE q == Head(todo)
<1>1. /\ todo # <<>> /\ call = "equals" /\ q \in CallPairs("equals")
      /\ \/ \E pairs \in Seq(CallPairs("equals")) : EqualsGoesOn(q, pairs)
         \/ Stop("nomatch") /\ Left # Right
  BY EqualsCases DEF MatcherInv
<1>2. Typed /\ FirstValueKept /\ EqualsInv /\ how = "match" /\ bind \in Binding /\ Made("equals")
  BY <1>1 DEF MatcherInv, Typed, Made
<1>3. q.left \in Value /\ q.right \in Value /\ Left = q.left /\ Right = q.right
  BY <1>1 DEF CallPairs, Left, Right
<1>4. \A x : q.left # EX_VAR(x)
  BY <1>3, VarNames
<1>. HIDE DEF q
<1>5. ASSUME NEW pairs \in Seq(CallPairs("equals")), EqualsGoesOn(q, pairs) PROVE MatcherInv'
  <2>1. /\ Continue(bind, pairs)
        /\ SameShape(Elems(pairs), q.left, q.right)
        /\ q.left = q.right => \A e \in Elems(pairs) : e.left = e.right
    BY <1>5 DEF EqualsGoesOn
  <2>2. /\ seen' = Append(seen, q) /\ bind' = bind /\ start' = start
        /\ how' = how /\ call' = call /\ calls' = calls
    BY <2>1 DEF Continue, q
  <2>3. FirstValueKept'
    BY <1>1, <1>2, <1>4, <2>2, OtherKept
  <2>4. /\ Typed' /\ Target' = Target /\ Elems(seen') = Elems(seen) \cup {q}
        /\ Elems(todo') = Elems(pairs) \cup Elems(Tail(todo))
        /\ Elems(todo) = {q} \cup Elems(Tail(todo))
        /\ All' = All \cup Elems(pairs)
    BY <1>1, <1>2, <2>1, ContinueFacts DEF q
  <2>5. Target.left = Target.right => \A e \in Elems(todo') : e.left = e.right
    BY <1>2, <2>1, <2>4 DEF EqualsInv
  <2>6. \A e \in Elems(seen') : SameShape(All', e.left, e.right)
    <3>1. \A e \in Elems(seen) : SameShape(All', e.left, e.right)
      BY <1>2, <2>4, SameShapeMonotone DEF EqualsInv
    <3>2. SameShape(All', q.left, q.right)
      BY <2>1, <2>4, SameShapeMonotone
    <3>. QED  BY <2>4, <3>1, <3>2
  <2>7. EqualsInv'
    BY <1>2, <2>2, <2>4, <2>5, <2>6 DEF EqualsInv
  <2>8. MatchedInv' /\ ReadingInv'
    BY <1>1, <2>2 DEF MatchedInv, ReadingInv, Made
  <2>. QED  BY <2>3, <2>4, <2>7, <2>8 DEF MatcherInv
<1>6. CASE Stop("nomatch") /\ Left # Right
  <2>1. /\ seen' = Append(seen, q) /\ bind' = bind /\ start' = start
        /\ how' = "nomatch" /\ call' = call /\ calls' = calls
    BY <1>6 DEF Stop, q
  <2>2. FirstValueKept'
    BY <1>1, <1>2, <1>4, <2>1, OtherKept
  <2>3. Target' = Target /\ Typed'
    BY <1>1, <1>2, <1>6, StopFacts
  <2>4. Target.left # Target.right
    <3>1. q \in Elems(todo)
      BY <1>1, <1>2, ElemsTail DEF q, Typed
    <3>. QED  BY <1>2, <1>3, <1>6, <3>1 DEF EqualsInv
  <2>5. EqualsInv'
    BY <2>1, <2>3, <2>4 DEF EqualsInv
  <2>6. MatchedInv' /\ ReadingInv'
    BY <1>1, <2>1 DEF MatchedInv, ReadingInv, Made
  <2>. QED  BY <2>2, <2>3, <2>5, <2>6 DEF MatcherInv
<1>. QED  BY <1>1, <1>5, <1>6

LEMMA MatcherHolds == Spec => []MatcherInv
<1>1. ASSUME MatcherInv, [Next]_vars PROVE MatcherInv'
  <2>1. ASSUME NEW p \in Pattern, NEW v \in Value, BeginMatch(p, v) PROVE MatcherInv'
    <3>1. Pair(p, v) \in CallPairs("match")
      BY DEF Pair, CallPairs
    <3>. QED  BY <1>1, <2>1, <3>1, PairFacts, BeginMatcher DEF BeginMatch
  <2>2. ASSUME NEW v \in Value, NEW w \in Value, BeginEquals(v, w) PROVE MatcherInv'
    <3>1. Pair(v, w) \in CallPairs("equals")
      BY DEF Pair, CallPairs
    <3>. QED  BY <1>1, <2>2, <3>1, PairFacts, BeginMatcher DEF BeginEquals
  <2>3. CASE MatchAction
    BY <1>1, <2>3, MatchMatcher
  <2>4. CASE EqualsAction
    BY <1>1, <2>4, EqualsMatcher
  <2>5. CASE UNCHANGED vars
    <3>1. UNCHANGED <<call, todo, seen, bind, start, how, calls>>
      BY <2>5 DEF vars
    <3>2. All' = All /\ Target' = Target /\ \A f : Made(f)' = Made(f)
      BY <3>1, Zenon DEF All, Target, Made
    <3>3. Typed'
      BY <1>1, <3>1, <3>2 DEF MatcherInv, Typed
    <3>4. FirstValueKept'
      BY <1>1, <3>1 DEF MatcherInv, FirstValueKept, MetAt
    <3>5. MatchedInv' /\ ReadingInv'
      BY <1>1, <3>1, <3>2 DEF MatcherInv, MatchedInv, ReadingInv
    <3>6. EqualsInv'
      BY <1>1, <3>1, <3>2 DEF MatcherInv, EqualsInv
    <3>. QED  BY <3>3, <3>4, <3>5, <3>6 DEF MatcherInv
  <2>. QED  BY <1>1, <2>1, <2>2, <2>3, <2>4, <2>5 DEF Next, Over, MatchAction, EqualsAction
<1>. QED  BY InitMatcher, <1>1, PTL DEF Spec

-----------------------------------------------------------------------------
(* Values are trees: two whose elements are equal are equal.               *)

\* A set of natural numbers that is not empty has a least element.
LEMMA LeastNumber ==
  ASSUME NEW T, T \subseteq Nat, T # {} PROVE \E n \in T : \A k \in T : n <= k
<1>. DEFINE Less == {ss \in Nat \X Nat : ss[1] < ss[2]}
<1>1. IsWellFoundedOn(Less, Nat)
  BY NatLessThanWellFounded, Zenon DEF OpToRel
<1>2. PICK n \in T : \A k \in T : <<k, n>> \notin Less
  <2>. HIDE DEF Less
  <2>. QED  BY <1>1, WFMin
<1>3. ASSUME NEW k \in T PROVE n <= k
  <2>1. k \in Nat /\ n \in Nat /\ <<k, n>> \in Nat \X Nat
    OBVIOUS
  <2>2. ~(k < n)
    BY <1>2, <2>1
  <2>. QED  BY <2>1, <2>2
<1>. QED  BY <1>3

LEMMA EqualTrees ==
  ASSUME NEW R \in SUBSET CallPairs("equals"),
         \A q \in R : SameShape(R, q.left, q.right)
  PROVE  \A q \in R : q.left = q.right
<1>. DEFINE Unequal == {q \in R : q.left # q.right}
            Heights == {Height(q.left) : q \in Unequal}
<1>1. \A q \in R : q.left \in Value /\ q.right \in Value
  BY DEF CallPairs
<1>. SUFFICES ASSUME Unequal # {} PROVE FALSE
  OBVIOUS
<1>2. Heights \subseteq Nat /\ Heights # {}
  <2>1. \A v \in Value : Height(v) \in Nat
    BY ValueAssumption
  <2>. QED  BY <1>1, <2>1
<1>3. PICK n \in Heights : \A k \in Heights : n <= k
  BY <1>2, LeastNumber
<1>4. PICK q \in Unequal : \A e \in Unequal : Height(q.left) <= Height(e.left)
  BY <1>3
<1>. DEFINE l == q.left
            r == q.right
<1>5. /\ l \in Value /\ r \in Value /\ l # r /\ q \in R
      /\ l = [type |-> l.type, sym |-> l.sym, items |-> l.items]
      /\ r = [type |-> r.type, sym |-> r.sym, items |-> r.items]
      /\ l.items \in Seq(Value) /\ r.items \in Seq(Value)
  <2>1. l \in Value /\ r \in Value /\ l # r /\ q \in R
    BY <1>1, <1>4
  <2>. HIDE DEF l, r
  <2>. QED  BY <2>1, ValueAssumption
<1>6. l.type = r.type /\ l.sym = r.sym
  <2>1. SameShape(R, l, r)
    BY <1>5
  <2>2. \A v \in {l, r} : IsVector(v) => v.sym = ""
    BY <1>5, ValueAssumption
  <2>. HIDE DEF l, r
  <2>. QED  BY <2>1, <2>2 DEF SameShape, SameScalar, IsVector
<1>7. l.items = r.items
  <2>1. CASE ~IsVector(l)
    BY <1>5, <1>6, <2>1, ValueAssumption DEF IsVector
  <2>2. CASE IsVector(l)
    <3>1. /\ Len(l.items) = Len(r.items)
          /\ \A i \in 1..Len(l.items) : Pair(l.items[i], r.items[i]) \in R
      BY <1>5, <2>2 DEF SameShape
    <3>2. ASSUME NEW i \in 1..Len(l.items) PROVE l.items[i] = r.items[i]
      <4>. DEFINE e == Pair(l.items[i], r.items[i])
      <4>1. e \in R /\ e.left = l.items[i] /\ e.right = r.items[i]
        BY <3>1, PairFacts
      <4>2. Height(e.left) < Height(l) /\ Height(l) \in Nat /\ Height(e.left) \in Nat
        <5>1. i \in DOMAIN l.items
          BY <1>5
        <5>2. Height(l.items[i]) < Height(l) /\ Height(l) \in Nat
          BY <1>5, <5>1, ValueAssumption
        <5>3. l.items[i] \in Value
          BY <1>5, <5>1
        <5>4. Height(l.items[i]) \in Nat
          BY <5>3, ValueAssumption
        <5>. HIDE DEF e
        <5>. QED  BY <4>1, <5>2, <5>4
      <4>3. e \notin Unequal
        BY <1>4, <4>2
      <4>. QED  BY <4>1, <4>3
    <3>. QED  BY <1>5, <3>1, <3>2, SeqEqual
  <2>. QED  BY <2>1, <2>2
<1>. QED  BY <1>5, <1>6, <1>7

-----------------------------------------------------------------------------
(* The properties.                                                         *)

(* A name keeps its value, and one without gets that of the first place    *)
(* the match comes to it: whatever the pattern, also when it fails.        *)
THEOREM FirstValueKeptHolds == Spec => []FirstValueKept
<1>1. MatcherInv => FirstValueKept
  BY DEF MatcherInv
<1>. QED  BY <1>1, MatcherHolds, PTL

LEMMA AcceptedStep == MatcherInv => AcceptedIsReading
<1>. SUFFICES ASSUME MatcherInv, Ended("match"), how = "match",
                     \A x \in Var : \A i, j \in MetAt(x) : seen[i].right = seen[j].right
              PROVE  Reading({seen[i] : i \in DOMAIN seen})
  BY DEF AcceptedIsReading
<1>. DEFINE R == Elems(seen)
<1>1. call = "match" /\ todo = <<>> /\ All = R
  BY EmptyElems DEF Ended, Made, All
<1>2. /\ seen \in Seq(CallPairs("match"))
      /\ \A q \in R : Opened(R, q.left, q.right)
  BY <1>1 DEF MatcherInv, MatchedInv, Typed
<1>3. ASSUME NEW q \in R PROVE Reads(R, q.left, q.right)
  <2>1. PICK i \in DOMAIN seen : q = seen[i]
    BY DEF Elems
  <2>2. q.left \in Pattern
    <3>1. q \in CallPairs("match")
      BY <1>2, <2>1
    <3>. QED  BY <3>1 DEF CallPairs
  <2>3. q.left.type \in Scalars \cup {"var", "list", "tuple", "cons"}
    BY <2>2, PatternAssumption
  <2>4. CASE q.left.type = "var"
    <3>1. q.left = EX_VAR(q.left.sym) /\ q.left.sym \in Var
      BY <2>2, <2>4, PatternAssumption
    <3>2. ASSUME NEW e \in R, e.left = q.left PROVE e.right = q.right
      <4>1. PICK j \in DOMAIN seen : e = seen[j]
        BY DEF Elems
      <4>2. i \in MetAt(q.left.sym) /\ j \in MetAt(q.left.sym)
        BY <2>1, <3>1, <3>2, <4>1 DEF MetAt
      <4>. QED  BY <2>1, <3>1, <4>1, <4>2
    <3>. QED  BY <2>4, <3>2 DEF Reads, IsVector
  <2>. QED  BY <1>2, <2>3, <2>4 DEF Reads, Opened, IsVector, Scalars
<1>4. Reading(R)
  BY <1>3 DEF Reading
<1>. QED  BY <1>4 DEF Elems

(* What a pattern accepts it reads, if each name came to one value only.   *)
THEOREM AcceptedIsReadingHolds == Spec => []AcceptedIsReading
BY MatcherHolds, AcceptedStep, PTL

LEMMA ReadingStep == MatcherInv => ReadingsSucceed
<1>. SUFFICES ASSUME MatcherInv, Made("match"), NEW R \in Readings, Target \in R
              PROVE  /\ how = "match"
                     /\ \A x \in Var : MetAt(x) # {} /\ start[x] = Unbound =>
                                        Pair(EX_VAR(x), bind[x]) \in R
  BY DEF ReadingsSucceed
<1>1. how = "match" /\ All \subseteq R /\ call = "match"
  BY DEF MatcherInv, ReadingInv, Made
<1>2. ASSUME NEW x \in Var, MetAt(x) # {}, start[x] = Unbound
      PROVE  Pair(EX_VAR(x), bind[x]) \in R
  <2>1. PICK i \in MetAt(x) : bind[x] = seen[i].right
    BY <1>2 DEF MatcherInv, FirstValueKept
  <2>2. i \in DOMAIN seen /\ seen[i].left = EX_VAR(x) /\ seen[i] \in CallPairs("match")
    BY <1>1 DEF MetAt, MatcherInv, Typed
  <2>3. seen[i] = Pair(EX_VAR(x), bind[x])
    BY <2>1, <2>2, PairFacts
  <2>. QED  BY <1>1, <2>2, <2>3 DEF All, Elems
<1>. QED  BY <1>1, <1>2

(* A pattern that can be read as a value accepts it and binds its names as *)
(* they are read.                                                          *)
THEOREM ReadingsSucceedHolds == Spec => []ReadingsSucceed
BY MatcherHolds, ReadingStep, PTL

LEMMA EqualityStep == MatcherInv => EqualityIsIdentity
<1>. SUFFICES ASSUME MatcherInv, Ended("equals")
              PROVE  /\ how \in {"match", "nomatch"}
                     /\ how = "match" <=> Target.left = Target.right
  BY DEF EqualityIsIdentity
<1>1. Made("equals") /\ call = "equals" /\ todo = <<>> /\ EqualsInv /\ Typed /\ All = Elems(seen)
  BY EmptyElems DEF Ended, Made, All, MatcherInv
<1>2. seen # <<>> /\ Target = seen[1] /\ seen[1] \in Elems(seen)
  BY <1>1 DEF Typed, Made, Target, Elems
<1>3. Elems(seen) \subseteq CallPairs("equals")
  BY <1>1 DEF Typed, Elems
<1>4. ASSUME how = "match" PROVE Target.left = Target.right
  BY <1>1, <1>2, <1>3, <1>4, EqualTrees DEF EqualsInv
<1>. QED  BY <1>1, <1>4 DEF EqualsInv

(* ExObject_equals tells any two values apart that are not the same.       *)
THEOREM EqualityIsIdentityHolds == Spec => []EqualityIsIdentity
BY MatcherHolds, EqualityStep, PTL
=============================================================================
