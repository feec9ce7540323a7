------------------------------ MODULE Collector ------------------------------
(***************************************************************************)
(* Who keeps the objects of a generated program alive.  Strings and cons   *)
(* cells come from GC_MALLOC (aotlib.h, EX_MALLOC); the vectors of lists   *)
(* and tuples and the bindings of EX_ENVIRONMENT come from new, that is    *)
(* from malloc.  The collector scans the stack of the running code and the *)
(* cells it finds, and takes any other word it likes for a pointer; memory *)
(* from malloc it does not scan.  Vectors and bindings are never deleted.  *)
(*                                                                         *)
(* A value is a pointer: to a cell or to a vector.  Numbers, atoms and nil *)
(* hold none and are left out, but making an atom or a list allocates a    *)
(* box that is dropped at once (Box), and every allocation may collect.    *)
(* A cell is not used again once it was freed: reading it is counted as    *)
(* undefined from then on.                                                 *)
(***************************************************************************)
EXTENDS Sequences, Integers

CONSTANTS
  Addr,      \* the cells GC_MALLOC can hand out
  Vector,    \* the vectors the program makes
  MaxDepth   \* bound on the scopes of EX_ENVIRONMENT

ASSUME CollectorAssumption ==
  /\ Addr \cap Vector = {}
  /\ MaxDepth \in Nat

Value == Addr \cup Vector

VARIABLES
  stack,     \* the values that the running code holds
  scope,     \* EX_ENVIRONMENT.scope, each binding reduced to its values
  vectors,   \* the elements of the vectors made so far
  cell,      \* the pointers in each cell: head and tail of a cons
  used,      \* the cells handed out so far
  live,      \* ... and not collected yet
  how        \* "running", or "undefined" once a dead cell was fetched

vars == <<stack, scope, vectors, cell, used, live, how>>

Init ==
  /\ stack = {}
  /\ scope = <<{}>>
  /\ vectors = [v \in {} |-> {}]
  /\ cell = [a \in Addr |-> {}]
  /\ used = {}
  /\ live = {}
  /\ how = "running"

-----------------------------------------------------------------------------
(* The collector.                                                          *)

\* With a cell, S has the cells it points to.
Scanned(S) == \A a \in S : cell[a] \cap Addr \subseteq S

\* What the collector reaches from the words in held.
Reached(held) ==
  {a \in Addr : \A S \in SUBSET Addr : held \cap Addr \subseteq S /\ Scanned(S) => a \in S}

\* Mutant: what held cells point to is not kept.
GC_MALLOCShallow(new) ==
  /\ new \cap used = {}
  /\ used' = used \cup new
  /\ \E extra \in SUBSET live : live' = (((stack \cup extra) \cap live) \cup new)

(* GC_malloc: the cells in new are handed out, after a collection or       *)
(* without one; words it takes for pointers (extra) make it keep more.     *)
GC_MALLOC(new) ==
  /\ new \cap used = {}
  /\ used' = used \cup new
  /\ \E extra \in SUBSET live :
       live' = (Reached(stack \cup extra) \cap live) \cup new

-----------------------------------------------------------------------------
(* The constructors of aotlib.cpp.                                         *)

\* EX_ATOM, and the last allocation of the other constructors.
Box ==
  /\ how = "running"
  /\ GC_MALLOC({})
  /\ UNCHANGED <<stack, scope, vectors, cell, how>>

\* EX_STRING and EX_VAR
EX_STRING(a) ==
  /\ how = "running"
  /\ GC_MALLOC({a})
  /\ stack' = stack \cup {a}
  /\ UNCHANGED <<scope, vectors, cell, how>>

EX_CONS(a, head, tail) ==
  /\ how = "running"
  /\ {head, tail} \subseteq stack
  /\ GC_MALLOC({a})
  /\ cell' = [cell EXCEPT ![a] = {head, tail}]
  /\ stack' = stack \cup {a}
  /\ UNCHANGED <<scope, vectors, how>>

\* EX_LIST and EX_TUPLE; the vector is not the collector's.
EX_LIST(v, elements) ==
  /\ how = "running"
  /\ v \notin DOMAIN vectors
  /\ elements \subseteq stack
  /\ vectors' = [w \in DOMAIN vectors \cup {v} |-> IF w = v THEN elements ELSE vectors[w]]
  /\ stack' = stack \cup {v}
  /\ GC_MALLOC({})
  /\ UNCHANGED <<scope, cell, how>>

-----------------------------------------------------------------------------
(* The running code and its scopes.                                        *)

\* A value is copied to the stack, to be used there.
Fetched(value) ==
  IF value \in Addr \ live THEN how' = "undefined" /\ UNCHANGED stack
  ELSE stack' = stack \cup {value} /\ UNCHANGED how

\* LIST_AT, and the loops over AS_LIST
Element(v, value) ==
  /\ how = "running"
  /\ v \in stack \cap DOMAIN vectors
  /\ value \in vectors[v]
  /\ Fetched(value)
  /\ UNCHANGED <<scope, vectors, cell, used, live>>

\* AS_CONS(...).head and .tail
Part(a, value) ==
  /\ how = "running"
  /\ a \in stack \cap Addr
  /\ value \in cell[a]
  /\ Fetched(value)
  /\ UNCHANGED <<scope, vectors, cell, used, live>>

\* Locals and temporaries go out of use.
Leave(value) ==
  /\ how = "running"
  /\ value \in stack
  /\ stack' = stack \ {value}
  /\ UNCHANGED <<scope, vectors, cell, used, live, how>>

Top == scope[Len(scope)]

\* ExEnvironment::get
Get(value) ==
  /\ how = "running"
  /\ value \in Top
  /\ Fetched(value)
  /\ UNCHANGED <<scope, vectors, cell, used, live>>

\* ExEnvironment::write of a name that is not bound
Write(value) ==
  /\ how = "running"
  /\ value \in stack
  /\ scope' = [scope EXCEPT ![Len(scope)] = @ \cup {value}]
  /\ UNCHANGED <<stack, vectors, cell, used, live, how>>

\* ExEnvironment::push and pushCopy
Push(binding) ==
  /\ how = "running"
  /\ Len(scope) < MaxDepth
  /\ binding \in {{}, Top}
  /\ scope' = Append(scope, binding)
  /\ UNCHANGED <<stack, vectors, cell, used, live, how>>

\* ExEnvironment::pop
Pop ==
  /\ how = "running"
  /\ Len(scope) > 1
  /\ scope' = SubSeq(scope, 1, Len(scope) - 1)
  /\ UNCHANGED <<stack, vectors, cell, used, live, how>>

Undefined == how = "undefined" /\ UNCHANGED vars

Next ==
  \/ Box
  \/ \E a \in Addr : EX_STRING(a) \/ \E head, tail \in stack : EX_CONS(a, head, tail)
  \/ \E v \in Vector : \E elements \in SUBSET stack : EX_LIST(v, elements)
  \/ \E v \in stack \cap DOMAIN vectors : \E value \in vectors[v] : Element(v, value)
  \/ \E a \in stack \cap Addr : \E value \in cell[a] : Part(a, value)
  \/ \E value \in stack : Leave(value) \/ Write(value)
  \/ \E value \in Top : Get(value)
  \/ \E binding \in {{}, Top} : Push(binding)
  \/ Pop
  \/ Undefined

Spec == Init /\ [][Next]_vars

-----------------------------------------------------------------------------
(* The shape of memory; only cells that were handed out hold pointers.     *)
TypeOK ==
  /\ stack \subseteq Value
  /\ scope \in Seq(SUBSET Value)
  /\ scope # <<>>
  /\ DOMAIN vectors \subseteq Vector
  /\ \A v \in DOMAIN vectors : vectors[v] \subseteq Value
  /\ cell \in [Addr -> SUBSET Value]
  /\ \A a \in Addr \ used : cell[a] = {}
  /\ live \subseteq used /\ used \subseteq Addr
  /\ how \in {"running", "undefined"}

(* What the running code holds, and what it can get at from there through  *)
(* cons cells, is never collected, whenever the collector runs: between    *)
(* the two allocations of EX_CONS, in the middle of a match, or while the  *)
(* elements of a list are being made.                                      *)
HeldIsLive == Reached(stack) \subseteq live

(* A dead cell is met only when there is one in memory from malloc: in the *)
(* top binding or in a vector the code holds.  The cons cells it can get   *)
(* at never lead to one.                                                   *)
LostThroughMalloc ==
  [][how' = "undefined" /\ how = "running" =>
       \/ \E a \in Top : a \in Addr \ live
       \/ \E v \in stack \cap DOMAIN vectors : \E a \in vectors[v] : a \in Addr \ live]_vars

-----------------------------------------------------------------------------
(* "Traceable_alloc should be used for explicitly managed STL containers   *)
(* that may point to collectible objects" (gc_allocator.h): objects in     *)
(* vectors and bindings are there when the program comes back for them.    *)
FetchedIsLive == how # "undefined"
=============================================================================
