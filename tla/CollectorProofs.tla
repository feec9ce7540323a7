--------------------------- MODULE CollectorProofs ---------------------------
(* Proofs about Collector, for any memory and any number of scopes.        *)
EXTENDS Collector, SequenceTheorems, TLAPS

(* Reached(held) is the least set that holds the cells in held and is      *)
(* closed under the pointers in cells.                                     *)
LEMMA ReachedHas ==
  ASSUME NEW held
  PROVE  held \cap Addr \subseteq Reached(held)
BY DEF Reached

LEMMA ReachedLeast ==
  ASSUME NEW held, NEW S \in SUBSET Addr, held \cap Addr \subseteq S, Scanned(S)
  PROVE  Reached(held) \subseteq S
BY DEF Reached

LEMMA ReachedClosed ==
  ASSUME NEW held
  PROVE  Scanned(Reached(held)) /\ Reached(held) \subseteq Addr
<1>1. ASSUME NEW a \in Reached(held), NEW b \in cell[a] \cap Addr PROVE b \in Reached(held)
  <2>1. ASSUME NEW S \in SUBSET Addr, held \cap Addr \subseteq S, Scanned(S) PROVE b \in S
    <3>1. a \in S
      BY <2>1 DEF Reached
    <3>. QED BY <1>1, <2>1, <3>1 DEF Scanned
  <2>. QED BY <1>1, <2>1 DEF Reached
<1>. QED BY <1>1 DEF Scanned, Reached

LEMMA ReachedMonotone ==
  ASSUME NEW held, NEW more
  PROVE  Reached(held) \subseteq Reached(held \cup more)
<1>1. held \cap Addr \subseteq Reached(held \cup more)
  BY ReachedHas
<1>. QED BY <1>1, ReachedLeast, ReachedClosed

-----------------------------------------------------------------------------
(* The cells in use are closed: what the code holds is live, and a live    *)
(* cell points to live cells only.                                         *)
Closed == stack \cap Addr \subseteq live /\ Scanned(live)

CollectorInv == TypeOK /\ Closed

LEMMA ClosedHeld == CollectorInv => HeldIsLive
<1> SUFFICES ASSUME CollectorInv PROVE Reached(stack) \subseteq live
  BY DEF HeldIsLive
<1>1. live \in SUBSET Addr /\ stack \cap Addr \subseteq live /\ Scanned(live)
  BY DEF CollectorInv, TypeOK, Closed
<1>. QED BY <1>1, ReachedLeast

LEMMA InitInv == Init => CollectorInv
BY CollectorAssumption DEF Init, CollectorInv, TypeOK, Closed, Scanned, Value

(* What an allocation leaves: the new cells, which nobody held, and a      *)
(* closed set of old ones with all that was held.                          *)
LEMMA AllocationFacts ==
  ASSUME CollectorInv, NEW new \in SUBSET Addr, GC_MALLOC(new)
  PROVE  /\ used' = used \cup new
         /\ live' \subseteq used'
         /\ new \subseteq live'
         /\ new \cap used = {}
         /\ Reached(stack) \subseteq live'
         /\ stack \cap Addr \subseteq live'
         /\ \A a \in live' \ new : a \in live /\ cell[a] \cap Addr \subseteq live'
<1>1. PICK extra \in SUBSET live : live' = (Reached(stack \cup extra) \cap live) \cup new
  BY DEF GC_MALLOC
<1>2. Reached(stack) \subseteq live
  BY ClosedHeld DEF HeldIsLive
<1>3. Reached(stack) \subseteq Reached(stack \cup extra)
  BY ReachedMonotone
<1>4. stack \cap Addr \subseteq Reached(stack)
  BY ReachedHas
<1>5. Scanned(Reached(stack \cup extra)) /\ Scanned(live)
  BY ReachedClosed DEF CollectorInv, Closed
<1>6. \A a \in live' \ new : a \in live /\ cell[a] \cap Addr \subseteq live'
  BY <1>1, <1>5 DEF Scanned
<1>. QED BY <1>1, <1>2, <1>3, <1>4, <1>6 DEF GC_MALLOC, CollectorInv, TypeOK

-----------------------------------------------------------------------------
(* One lemma for each kind of step.                                        *)

\* An allocation that leaves the cells as they are, and what it may put on
\* the stack: new cells and vectors.
LEMMA PlainAllocation ==
  ASSUME CollectorInv, NEW new \in SUBSET Addr, GC_MALLOC(new), cell' = cell,
         NEW more \in SUBSET Value, stack' = stack \cup more, more \cap Addr \subseteq new
  PROVE  /\ Closed'
         /\ stack' \subseteq Value
         /\ live' \subseteq used' /\ used' \subseteq Addr
         /\ \A a \in Addr \ used' : cell'[a] = {}
<1>1. /\ used' = used \cup new /\ live' \subseteq used' /\ new \subseteq live' /\ new \cap used = {}
      /\ stack \cap Addr \subseteq live'
      /\ \A a \in live' \ new : a \in live /\ cell[a] \cap Addr \subseteq live'
  BY AllocationFacts
<1>2. \A a \in new : cell[a] = {}
  BY <1>1 DEF CollectorInv, TypeOK
<1>3. stack' \cap Addr \subseteq live'
  BY <1>1
<1>4. \A a \in live' : cell'[a] \cap Addr \subseteq live'
  BY <1>1, <1>2
<1>. QED BY <1>1, <1>3, <1>4 DEF Closed, Scanned, CollectorInv, TypeOK

LEMMA ConsInv ==
  ASSUME CollectorInv, NEW a \in Addr, NEW head \in stack, NEW tail \in stack,
         EX_CONS(a, head, tail)
  PROVE  CollectorInv'
<1>1. /\ used' = used \cup {a} /\ live' \subseteq used' /\ {a} \subseteq live' /\ {a} \cap used = {}
      /\ stack \cap Addr \subseteq live'
      /\ \A b \in live' \ {a} : b \in live /\ cell[b] \cap Addr \subseteq live'
  <2>1. {a} \in SUBSET Addr /\ GC_MALLOC({a})
    BY DEF EX_CONS
  <2>. QED BY <2>1, AllocationFacts
<1>2. /\ stack' = stack \cup {a}
      /\ cell' = [cell EXCEPT ![a] = {head, tail}]
      /\ UNCHANGED <<scope, vectors, how>>
  BY DEF EX_CONS
<1>3. cell \in [Addr -> SUBSET Value] /\ {head, tail} \subseteq Value /\ a \in Value
  BY DEF CollectorInv, TypeOK, Value
<1>4. cell'[a] = {head, tail} /\ \A b \in Addr \ {a} : cell'[b] = cell[b]
  BY <1>2, <1>3
<1>5. Closed'
  <2>1. \A b \in live' : cell'[b] \cap Addr \subseteq live'
    BY <1>1, <1>4 DEF CollectorInv, TypeOK
  <2>. QED BY <1>1, <1>2, <2>1 DEF Closed, Scanned
<1>6. TypeOK'
  BY <1>1, <1>2, <1>3, <1>4 DEF CollectorInv, TypeOK
<1>. QED BY <1>5, <1>6 DEF CollectorInv

LEMMA FetchInv ==
  ASSUME CollectorInv, NEW value \in Value, Fetched(value),
         UNCHANGED <<scope, vectors, cell, used, live>>, how = "running"
  PROVE  CollectorInv'
<1>1. CASE value \in Addr \ live
  BY <1>1 DEF Fetched, CollectorInv, TypeOK, Closed, Scanned
<1>2. CASE value \notin Addr \ live
  <2>1. stack' = stack \cup {value} /\ how' = how
    BY <1>2 DEF Fetched
  <2>2. TypeOK'
    BY <2>1 DEF CollectorInv, TypeOK
  <2>3. Closed'
    BY <1>2, <2>1 DEF CollectorInv, Closed, Scanned
  <2>. QED BY <2>2, <2>3 DEF CollectorInv
<1>. QED BY <1>1, <1>2

(* The steps that move no cell: only the scopes or the stack shrink or     *)
(* change shape.                                                           *)
LEMMA ScopeInv ==
  ASSUME CollectorInv, UNCHANGED <<vectors, cell, used, live, how>>,
         stack' \subseteq stack, scope' \in Seq(SUBSET Value), scope' # <<>>
  PROVE  CollectorInv'
BY DEF CollectorInv, TypeOK, Closed, Scanned

LEMMA TopType ==
  ASSUME CollectorInv
  PROVE  /\ Len(scope) \in Nat /\ Len(scope) > 0
         /\ Top \in SUBSET Value
BY DEF CollectorInv, TypeOK, Top

LEMMA StepInv == CollectorInv /\ [Next]_vars => CollectorInv'
<1> SUFFICES ASSUME CollectorInv, [Next]_vars PROVE CollectorInv'
  OBVIOUS
<1>1. CASE Box
  <2>1. GC_MALLOC({}) /\ UNCHANGED <<stack, scope, vectors, cell, how>>
    BY <1>1 DEF Box
  <2>2. {} \in SUBSET Addr /\ {} \in SUBSET Value /\ stack' = stack \cup {} /\ {} \cap Addr \subseteq {}
    BY <2>1
  <2>3. Closed' /\ live' \subseteq used' /\ used' \subseteq Addr /\ \A a \in Addr \ used' : cell'[a] = {}
    BY <2>1, <2>2, PlainAllocation
  <2>. QED BY <2>1, <2>3 DEF CollectorInv, TypeOK
<1>2. ASSUME NEW a \in Addr, EX_STRING(a) PROVE CollectorInv'
  <2>1. GC_MALLOC({a}) /\ stack' = stack \cup {a} /\ UNCHANGED <<scope, vectors, cell, how>>
    BY <1>2 DEF EX_STRING
  <2>2. {a} \in SUBSET Addr /\ {a} \in SUBSET Value /\ {a} \cap Addr \subseteq {a}
    BY DEF Value
  <2>3. /\ Closed' /\ stack' \subseteq Value /\ live' \subseteq used' /\ used' \subseteq Addr
        /\ \A b \in Addr \ used' : cell'[b] = {}
    BY <2>1, <2>2, PlainAllocation
  <2>. QED BY <2>1, <2>3 DEF CollectorInv, TypeOK
<1>3. ASSUME NEW a \in Addr, NEW head \in stack, NEW tail \in stack, EX_CONS(a, head, tail)
      PROVE  CollectorInv'
  BY <1>3, ConsInv
<1>4. ASSUME NEW v \in Vector, NEW elements \in SUBSET stack, EX_LIST(v, elements)
      PROVE  CollectorInv'
  <2>1. /\ GC_MALLOC({}) /\ stack' = stack \cup {v} /\ UNCHANGED <<scope, cell, how>>
        /\ vectors' = [w \in DOMAIN vectors \cup {v} |-> IF w = v THEN elements ELSE vectors[w]]
    BY <1>4 DEF EX_LIST
  <2>2. {} \in SUBSET Addr /\ {v} \in SUBSET Value /\ {v} \cap Addr \subseteq {}
    BY CollectorAssumption DEF Value
  <2>3. /\ Closed' /\ stack' \subseteq Value /\ live' \subseteq used' /\ used' \subseteq Addr
        /\ \A b \in Addr \ used' : cell'[b] = {}
    BY <2>1, <2>2, PlainAllocation
  <2>4. DOMAIN vectors' \subseteq Vector /\ \A w \in DOMAIN vectors' : vectors'[w] \subseteq Value
    BY <2>1 DEF CollectorInv, TypeOK
  <2>. QED BY <2>1, <2>3, <2>4 DEF CollectorInv, TypeOK
<1>5. ASSUME NEW v \in stack \cap DOMAIN vectors, NEW value \in vectors[v], Element(v, value)
      PROVE  CollectorInv'
  <2>1. value \in Value
    BY DEF CollectorInv, TypeOK
  <2>. QED BY <1>5, <2>1, FetchInv DEF Element
<1>6. ASSUME NEW a \in stack \cap Addr, NEW value \in cell[a], Part(a, value)
      PROVE  CollectorInv'
  <2>1. value \in Value
    BY DEF CollectorInv, TypeOK
  <2>. QED BY <1>6, <2>1, FetchInv DEF Part
<1>7. ASSUME NEW value \in stack, Leave(value) PROVE CollectorInv'
  <2>1. scope' \in Seq(SUBSET Value) /\ scope' # <<>> /\ stack' \subseteq stack
    BY <1>7 DEF Leave, CollectorInv, TypeOK
  <2>. QED BY <1>7, <2>1, ScopeInv DEF Leave
<1>8. ASSUME NEW value \in stack, Write(value) PROVE CollectorInv'
  <2>1. scope' = [scope EXCEPT ![Len(scope)] = Top \cup {value}] /\ stack' = stack
    BY <1>8 DEF Write, Top
  <2>2. value \in Value
    BY DEF CollectorInv, TypeOK
  <2>3. scope' \in Seq(SUBSET Value) /\ scope' # <<>>
    BY <2>1, <2>2, TopType DEF CollectorInv, TypeOK
  <2>. QED BY <1>8, <2>1, <2>3, ScopeInv DEF Write
<1>9. ASSUME NEW value \in Top, Get(value) PROVE CollectorInv'
  <2>1. value \in Value
    BY TopType
  <2>. QED BY <1>9, <2>1, FetchInv DEF Get
<1>10. ASSUME NEW binding \in {{}, Top}, Push(binding) PROVE CollectorInv'
  <2>1. scope' = Append(scope, binding) /\ stack' = stack
    BY <1>10 DEF Push
  <2>2. scope' \in Seq(SUBSET Value) /\ scope' # <<>>
    BY <2>1, TopType DEF CollectorInv, TypeOK
  <2>. QED BY <1>10, <2>1, <2>2, ScopeInv DEF Push
<1>11. CASE Pop
  <2>1. scope' = SubSeq(scope, 1, Len(scope) - 1) /\ stack' = stack /\ Len(scope) > 1
    BY <1>11 DEF Pop
  <2>2. Len(scope) - 1 \in Nat /\ \A i \in 1..Len(scope) - 1 : scope[i] \in SUBSET Value
    BY <2>1, TopType, ElementOfSeq DEF CollectorInv, TypeOK
  <2>3. scope' \in Seq(SUBSET Value) /\ Len(scope') = Len(scope) - 1
    BY <2>1, <2>2, SubSeqProperties
  <2>4. scope' # <<>>
    <3>1. Len(scope') > 0
      BY <2>1, <2>3, TopType
    <3>. QED BY <3>1, EmptySeq
  <2>. QED BY <2>3, <2>4, <1>11, <2>1, <2>2, ScopeInv DEF Pop
<1>12. CASE Undefined \/ UNCHANGED vars
  BY <1>12 DEF Undefined, vars, CollectorInv, TypeOK, Closed, Scanned
<1>. QED BY <1>1, <1>2, <1>3, <1>4, <1>5, <1>6, <1>7, <1>8, <1>9, <1>10, <1>11, <1>12 DEF Next

LEMMA AlwaysInv == Spec => []CollectorInv
BY InitInv, StepInv, PTL DEF Spec

-----------------------------------------------------------------------------
(* The stack, the scopes, the vectors and the cells hold addresses and     *)
(* vectors there are, whatever the collector took away.                    *)
THEOREM TypeCorrect == Spec => []TypeOK
<1>1. CollectorInv => TypeOK
  BY DEF CollectorInv
<1>. QED BY <1>1, AlwaysInv, PTL

(* Whatever the memory is like and whenever the collector runs, what the   *)
(* code holds directly or through cons cells is not collected.             *)
THEOREM HeldIsLiveHolds == Spec => [](TypeOK /\ HeldIsLive)
<1>1. CollectorInv => TypeOK /\ HeldIsLive
  BY ClosedHeld DEF CollectorInv
<1>. QED BY <1>1, AlwaysInv, PTL

(* A dead cell is fetched from a vector or a binding only.                 *)
THEOREM LostThroughMallocHolds == Spec => LostThroughMalloc
<1> DEFINE Lost == \/ \E a \in Top : a \in Addr \ live
                   \/ \E v \in stack \cap DOMAIN vectors : \E a \in vectors[v] : a \in Addr \ live
<1>1. CollectorInv /\ [Next]_vars => [how' = "undefined" /\ how = "running" => Lost]_vars
  <2> SUFFICES ASSUME CollectorInv, Next, how' = "undefined", how = "running"
               PROVE  Lost
    OBVIOUS
  <2>1. ASSUME NEW value \in Value, Fetched(value) PROVE value \in Addr \ live
    BY <2>1 DEF Fetched
  <2>2. ASSUME NEW v \in stack \cap DOMAIN vectors, NEW value \in vectors[v], Element(v, value)
        PROVE  Lost
    BY <2>1, <2>2 DEF Element, CollectorInv, TypeOK
  <2>3. ASSUME NEW a \in stack \cap Addr, NEW value \in cell[a], Part(a, value)
        PROVE  FALSE
    <3>1. a \in live /\ value \in Value
      BY DEF CollectorInv, TypeOK, Closed
    <3>2. value \in Addr \ live
      BY <2>1, <2>3, <3>1 DEF Part
    <3>. QED BY <3>1, <3>2 DEF CollectorInv, Closed, Scanned
  <2>4. ASSUME NEW value \in Top, Get(value) PROVE Lost
    BY <2>1, <2>4, TopType DEF Get
  <2>5. how' = how \/ (\E v \in stack \cap DOMAIN vectors : \E value \in vectors[v] : Element(v, value))
          \/ (\E a \in stack \cap Addr : \E value \in cell[a] : Part(a, value))
          \/ (\E value \in Top : Get(value))
    BY DEF Next, Box, EX_STRING, EX_CONS, EX_LIST, Leave, Write, Push, Pop, Undefined, vars
  <2>. QED BY <2>2, <2>3, <2>4, <2>5
<1>. QED BY <1>1, AlwaysInv, PTL DEF Spec, LostThroughMalloc
=============================================================================
