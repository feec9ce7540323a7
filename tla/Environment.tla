----------------------------- MODULE Environment -----------------------------
(***************************************************************************)
(* EX_ENVIRONMENT, the one ExEnvironment of a generated program: a stack   *)
(* of bindings, the last element being the top.  The operators are its     *)
(* methods (aotlib.cpp); a match writes several names at once, so Write    *)
(* takes a binding that holds just the names written.                      *)
(***************************************************************************)
EXTENDS Sequences, Integers

CONSTANTS
  Var,      \* the names of the program's variables
  Value,    \* the objects they are bound to
  Unbound   \* marks a name a binding does not hold

ASSUME UnboundAssumption == Unbound \notin Value

Binding == [Var -> Value \cup {Unbound}]

Empty == [x \in Var |-> Unbound]

Top(scope) == scope[Len(scope)]

\* Mutant: a name that is bound gets the new value.
Assign(b, w) == [x \in Var |-> IF w[x] = Unbound THEN b[x] ELSE w[x]]

(* ExEnvironment::write inserts into the map: a name that is bound keeps   *)
(* its value.                                                              *)
Insert(b, w) == [x \in Var |-> IF b[x] = Unbound THEN w[x] ELSE b[x]]

\* Mutant: writes go to the outermost scope.
WriteGlobal(scope, w) == [scope EXCEPT ![1] = Insert(@, w)]

Write(scope, w) == [scope EXCEPT ![Len(scope)] = Insert(@, w)]

PushCopy(scope) == Append(scope, Top(scope))

\* Mutant: a pushed scope starts as a copy of the caller's.
PushInherited(scope) == Append(scope, Top(scope))

Push(scope) == Append(scope, Empty)

\* Mutant: the pop is forgotten.
PopNothing(scope) == scope

Pop(scope) == SubSeq(scope, 1, Len(scope) - 1)

(* ExEnvironment::get looks at the top binding only and throws when the    *)
(* name is not there.                                                      *)
GetFails(scope, x) == Top(scope)[x] = Unbound
=============================================================================
