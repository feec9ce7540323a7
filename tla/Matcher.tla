------------------------------- MODULE Matcher -------------------------------
(***************************************************************************)
(* ExMatch_pattern and ExObject_equals (aotlib.cpp) at work, one call of   *)
(* either a step.  Both walk two objects together; todo has the pairs that *)
(* are still to come in the loops of the calls on the C++ stack, innermost *)
(* first.  A call that throws, or returns false, ends all of them: each    *)
(* ExMatch_tryMatch on the way throws again.                               *)
(*                                                                         *)
(* A program makes one such call after another in one scope, until one     *)
(* ends in an exception.  how is as in ExMatch; ExObject_equals returns    *)
(* true ("match") or false ("nomatch").                                    *)
(***************************************************************************)
EXTENDS Objects, Environment

CONSTANTS
  Pattern,    \* the left sides of matches, and their parts
  Height(_),  \* of a value: more than that of its elements
  Readings,   \* ways to read patterns: sets of pairs of a pattern and a value
  MaxCalls    \* bound on the calls

Scalars == {"number", "atom", "string", "nil"}

\* A pattern contains names and cons cells, a value neither.
ASSUME PatternAssumption ==
  \A p \in Pattern :
    /\ p.type \in Scalars \cup {"var", "list", "tuple", "cons"}
    /\ p.items \in Seq(Pattern)
    /\ p.type = "var" => p.sym \in Var /\ p = EX_VAR(p.sym)
    /\ p.type = "cons" => Len(p.items) = 2
    /\ p.type = "nil" => p.sym = ""

(* Values are made of values made before them; with a list there is what   *)
(* is left of it without its first element.                                *)
ASSUME ValueAssumption ==
  \A v \in Value :
    /\ v.type \in Scalars \cup {"list", "tuple"}
    /\ v.items \in Seq(Value)
    /\ v = [type |-> v.type, sym |-> v.sym, items |-> v.items]
    /\ IsVector(v) \/ v.type = "nil" => v.sym = ""
    /\ ~IsVector(v) => v.items = <<>>
    /\ v.items # <<>> => EX_LIST(Tail(v.items)) \in Value
    /\ Height(v) \in Nat
    /\ \A i \in DOMAIN v.items : Height(v.items[i]) < Height(v)

Pair(left, right) == [left |-> left, right |-> right]

SameScalar(a, b) == a.type = b.type /\ a.sym = b.sym

(* What it is, in a set R of pairs, that the pattern l is read as r: the   *)
(* parts of l are read as the parts of r in R, and a name as one value     *)
(* throughout R.  Of vectors only the lengths count, as in the code; what  *)
(* Elixir reads is read so too.                                            *)
Reads(R, l, r) ==
  CASE l.type = "var" -> \A q \in R : q.left = l => q.right = r
    [] IsVector(l) ->
         /\ IsVector(r) /\ Len(l.items) = Len(r.items)
         /\ \A i \in 1..Len(l.items) : Pair(l.items[i], r.items[i]) \in R
    [] l.type = "cons" ->
         /\ IsVector(r) /\ r.items # <<>>
         /\ \A i \in 1..2 : Pair(l.items[i], SplitFirst(r)[i]) \in R
    [] OTHER -> SameScalar(l, r)

Reading(R) == \A q \in R : Reads(R, q.left, q.right)

ASSUME ReadingsAssumption == \A R \in Readings : Reading(R)

ASSUME MaxCallsAssumption == MaxCalls \in Nat

VARIABLES
  call,   \* "match" or "equals", the call being made
  todo,   \* the pairs it has still to come to
  seen,   \* the pairs it has come to
  bind,   \* the binding on top of EX_ENVIRONMENT.scope
  start,  \* what it was when the call was made
  how,    \* how the call ended
  calls   \* the number of calls made

vars == <<call, todo, seen, bind, start, how, calls>>

Init ==
  /\ call = "match" /\ how = "match"
  /\ todo = <<>> /\ seen = <<>>
  /\ bind = Empty /\ start = Empty
  /\ calls = 0

\* The latest call returned.
Returned == todo = <<>> /\ (how = "match" \/ (call = "equals" /\ how = "nomatch"))

Begin(function, left, right) ==
  /\ Returned
  /\ calls < MaxCalls
  /\ call' = function /\ how' = "match"
  /\ todo' = <<Pair(left, right)>> /\ seen' = <<>>
  /\ start' = bind
  /\ calls' = calls + 1
  /\ UNCHANGED bind

BeginMatch(p, v) == Begin("match", p, v)

BeginEquals(v, w) == Begin("equals", v, w)

Left == Head(todo).left
Right == Head(todo).right

At(function) == todo # <<>> /\ call = function

\* The call goes on to the pairs of its loop, or returns if there are none.
Continue(binding, pairs) ==
  /\ todo' = pairs \o Tail(todo)
  /\ seen' = Append(seen, Head(todo))
  /\ bind' = binding
  /\ UNCHANGED <<call, start, how, calls>>

\* The call and all around it end.
Stop(end) ==
  /\ how' = end
  /\ todo' = <<>>
  /\ seen' = Append(seen, Head(todo))
  /\ UNCHANGED <<call, bind, start, calls>>

\* The loop over two vectors of one length.
Pairs(lefts, rights) == [i \in 1..Len(lefts) |-> Pair(lefts[i], rights[i])]

\* ExEnvironment::write
Written(b, x, v) == Insert(b, [Empty EXCEPT ![x] = v])

MatchVar ==
  /\ At("match") /\ Left.type = "var"
  /\ Continue(Written(bind, Left.sym, Right), <<>>)

\* AS_LIST of a scalar is undefined; a list and a tuple are both vectors.
MatchVector ==
  /\ At("match") /\ IsVector(Left)
  /\ \/ ~IsVector(Right) /\ Stop("undefined")
     \/ IsVector(Right) /\ Len(Left.items) # Len(Right.items) /\ Stop("nomatch")
     \/ /\ IsVector(Right) /\ Len(Left.items) = Len(Right.items)
        /\ Continue(bind, Pairs(Left.items, Right.items))

\* Mutant: the tail of a list of one element is not found.
MatchConsLong ==
  /\ At("match") /\ Left.type = "cons"
  /\ \/ ~IsVector(Right) /\ Stop("undefined")
     \/ IsVector(Right) /\ Len(Right.items) < 2 /\ Stop("foreign")
     \/ /\ IsVector(Right) /\ Len(Right.items) >= 2
        /\ Continue(bind, Pairs(Left.items, SplitFirst(Right)))

\* at(0) of an empty vector throws std::out_of_range.
MatchCons ==
  /\ At("match") /\ Left.type = "cons"
  /\ \/ ~IsVector(Right) /\ Stop("undefined")
     \/ IsVector(Right) /\ Right.items = <<>> /\ Stop("foreign")
     \/ /\ IsVector(Right) /\ Right.items # <<>>
        /\ Continue(bind, Pairs(Left.items, SplitFirst(Right)))

\* Mutant: a scalar that is not equal is passed over.
MatchScalarLenient ==
  /\ At("match") /\ Left.type \in Scalars
  /\ Continue(bind, <<>>)

MatchScalar ==
  /\ At("match") /\ Left.type \in Scalars
  /\ IF SameScalar(Left, Right) THEN Continue(bind, <<>>) ELSE Stop("nomatch")

\* Mutant: a list and a tuple are equal.
EqualsVectorUntagged ==
  /\ At("equals") /\ IsVector(Left)
  /\ IF IsVector(Right) /\ Len(Left.items) = Len(Right.items)
     THEN Continue(bind, Pairs(Left.items, Right.items))
     ELSE Stop("nomatch")

EqualsVector ==
  /\ At("equals") /\ IsVector(Left)
  /\ IF Left.type = Right.type /\ Len(Left.items) = Len(Right.items)
     THEN Continue(bind, Pairs(Left.items, Right.items))
     ELSE Stop("nomatch")

EqualsScalar ==
  /\ At("equals") /\ Left.type \in Scalars
  /\ IF SameScalar(Left, Right) THEN Continue(bind, <<>>) ELSE Stop("nomatch")

Over == todo = <<>> /\ (calls = MaxCalls \/ ~Returned) /\ UNCHANGED vars

Next ==
  \/ \E p \in Pattern, v \in Value : BeginMatch(p, v)
  \/ \E v, w \in Value : BeginEquals(v, w)
  \/ MatchVar \/ MatchVector \/ MatchCons \/ MatchScalar
  \/ EqualsVector \/ EqualsScalar
  \/ Over

Spec == Init /\ [][Next]_vars

-----------------------------------------------------------------------------
\* The pair of the call itself.
Target == IF seen = <<>> THEN Head(todo) ELSE seen[1]

Made(function) == calls > 0 /\ call = function

Ended(function) == Made(function) /\ todo = <<>>

\* Where the call came to the name x.
MetAt(x) == {i \in DOMAIN seen : seen[i].left = EX_VAR(x)}

(* A name keeps the value it has; one that has none gets that of the first *)
(* place the match comes to it, also when the match fails later.  So what  *)
(* a match leaves depends on what was there in no other way, and whether   *)
(* it succeeds not at all.                                                 *)
FirstValueKept ==
  \A x \in Var :
    IF MetAt(x) = {} \/ start[x] # Unbound THEN bind[x] = start[x]
    ELSE \E i \in MetAt(x) : bind[x] = seen[i].right /\ \A j \in MetAt(x) : i <= j

(* A pattern that accepts a value reads it, if each of its names came to   *)
(* one value only.                                                         *)
AcceptedIsReading ==
  Ended("match") /\ how = "match" =>
    \/ Reading({seen[i] : i \in DOMAIN seen})
    \/ \E x \in Var : \E i, j \in MetAt(x) : seen[i].right # seen[j].right

(* A pattern that can be read as a value never refuses it, and the names   *)
(* without a value get theirs in the reading.                              *)
ReadingsSucceed ==
  Made("match") =>
    \A R \in Readings : Target \in R =>
      /\ how = "match"
      /\ \A x \in Var : MetAt(x) # {} /\ start[x] = Unbound => Pair(EX_VAR(x), bind[x]) \in R

(* ExObject_equals takes two values for equal exactly if they are the same *)
(* value, and always returns.                                              *)
EqualityIsIdentity ==
  Ended("equals") =>
    /\ how \in {"match", "nomatch"}
    /\ how = "match" <=> Target.left = Target.right
=============================================================================
