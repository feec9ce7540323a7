----------------------------- MODULE AtomsProofs -----------------------------
(* Proofs about Atoms, for any set of names.                               *)
EXTENDS Atoms, TLAPS

(* The objects are what the maps say: made is tied to ATOMS.               *)
MadeByMaps == \A o \in made : o.name \in DOMAIN ATOMS /\ o.id = ATOMS[o.name]

AtomsInv == TypeOK /\ Bijection /\ MadeByMaps

LEMMA InitInv == Init => AtomsInv
BY DEF Init, AtomsInv, TypeOK, Bijection, MadeByMaps

(* A name that is new gets the number after all others.                    *)
LEMMA NumberedInv ==
  ASSUME AtomsInv, NEW atom \in Name, ~Known(atom), Numbered(atom),
         made' = made \cup {[name |-> atom, id |-> ATOMS'[atom]]}
  PROVE  AtomsInv'
<1>1. /\ DOMAIN ATOMS' = DOMAIN ATOMS \cup {atom}
      /\ ATOMS'[atom] = ATOMS_COUNT
      /\ \A n \in DOMAIN ATOMS : n # atom => ATOMS'[n] = ATOMS[n]
  BY DEF Numbered, Put
<1>2. /\ DOMAIN REVERSED_ATOMS' = DOMAIN REVERSED_ATOMS \cup {ATOMS_COUNT}
      /\ REVERSED_ATOMS'[ATOMS_COUNT] = atom
      /\ \A i \in DOMAIN REVERSED_ATOMS : i # ATOMS_COUNT => REVERSED_ATOMS'[i] = REVERSED_ATOMS[i]
  BY DEF Numbered, Put
<1>3. ATOMS_COUNT \in Nat /\ ATOMS_COUNT' = ATOMS_COUNT + 1
  BY DEF Numbered, AtomsInv, TypeOK
<1>4. atom \notin DOMAIN ATOMS /\ ATOMS_COUNT \notin DOMAIN REVERSED_ATOMS
  BY <1>3 DEF Known, AtomsInv, TypeOK
<1>5. TypeOK'
  <2>1. ATOMS_COUNT' \in Nat
    BY <1>3
  <2>2. DOMAIN ATOMS' \subseteq Name
    BY <1>1 DEF AtomsInv, TypeOK
  <2>3. \A n \in DOMAIN ATOMS' : ATOMS'[n] \in 0..ATOMS_COUNT' - 1
    BY <1>1, <1>3 DEF AtomsInv, TypeOK
  <2>4. DOMAIN REVERSED_ATOMS' = 0..ATOMS_COUNT' - 1
    BY <1>2, <1>3 DEF AtomsInv, TypeOK
  <2>. QED BY <2>1, <2>2, <2>3, <2>4 DEF TypeOK
<1>6. Bijection'
  <2>1. \A n \in DOMAIN ATOMS' :
          ATOMS'[n] \in DOMAIN REVERSED_ATOMS' /\ REVERSED_ATOMS'[ATOMS'[n]] = n
    BY <1>1, <1>2, <1>4 DEF AtomsInv, Bijection
  <2>2. \A i \in DOMAIN REVERSED_ATOMS' :
          REVERSED_ATOMS'[i] \in DOMAIN ATOMS' /\ ATOMS'[REVERSED_ATOMS'[i]] = i
    BY <1>1, <1>2, <1>4 DEF AtomsInv, Bijection
  <2>. QED BY <2>1, <2>2 DEF Bijection
<1>7. MadeByMaps'
  BY <1>1, <1>4 DEF AtomsInv, MadeByMaps
<1>. QED BY <1>5, <1>6, <1>7 DEF AtomsInv

LEMMA StepInv == AtomsInv /\ [Next]_vars => AtomsInv'
<1> SUFFICES ASSUME AtomsInv, [Next]_vars PROVE AtomsInv'
  OBVIOUS
<1>1. ASSUME NEW atom \in Name, EX_ATOM(atom) PROVE AtomsInv'
  <2>1. CASE Known(atom)
    <3>1. UNCHANGED <<ATOMS, REVERSED_ATOMS, ATOMS_COUNT>>
      BY <1>1, <2>1 DEF EX_ATOM
    <3>2. made' = made \cup {[name |-> atom, id |-> ATOMS[atom]]}
      BY <1>1, <3>1 DEF EX_ATOM
    <3>. QED BY <2>1, <3>1, <3>2 DEF Known, AtomsInv, TypeOK, Bijection, MadeByMaps
  <2>2. CASE ~Known(atom)
    BY <1>1, <2>2, NumberedInv DEF EX_ATOM
  <2>. QED BY <2>1, <2>2
<1>2. ASSUME NEW object \in made, Exit(object) PROVE AtomsInv'
  BY <1>2 DEF Exit, AtomsInv, TypeOK, Bijection, MadeByMaps
<1>3. CASE Exited \/ UNCHANGED vars
  BY <1>3 DEF Exited, vars, AtomsInv, TypeOK, Bijection, MadeByMaps
<1>. QED BY <1>1, <1>2, <1>3 DEF Next

LEMMA AlwaysInv == Spec => []AtomsInv
BY InitInv, StepInv, PTL DEF Spec

(* The counter of EX_ATOM stays the number of names there are, and the two *)
(* maps are of names to numbers in use and back, for any names.            *)
THEOREM TypeCorrect == Spec => []TypeOK
<1>1. AtomsInv => TypeOK
  BY DEF AtomsInv
<1>. QED BY <1>1, AlwaysInv, PTL

(* However many names a program has, the two maps of EX_ATOM are inverse   *)
(* to each other.                                                          *)
THEOREM BijectionHolds == Spec => [](TypeOK /\ Bijection)
<1>1. AtomsInv => TypeOK /\ Bijection
  BY DEF AtomsInv
<1>. QED BY <1>1, AlwaysInv, PTL

(* ... so comparing the numbers of two atoms is comparing their names, and *)
(* ExObject_ToString gives the name an object was made of.                 *)
THEOREM EqualIffSameNameHolds == Spec => []EqualIffSameName
<1>1. AtomsInv => EqualIffSameName
  BY DEF AtomsInv, Bijection, MadeByMaps, EqualIffSameName
<1>. QED BY <1>1, AlwaysInv, PTL

(* No call of EX_ATOM changes the meaning of an object made before.        *)
THEOREM NumbersStayHolds == Spec => NumbersStay
<1> DEFINE Stay ==
      /\ \A n \in DOMAIN ATOMS : n \in DOMAIN ATOMS' /\ ATOMS'[n] = ATOMS[n]
      /\ \A i \in DOMAIN REVERSED_ATOMS :
           i \in DOMAIN REVERSED_ATOMS' /\ REVERSED_ATOMS'[i] = REVERSED_ATOMS[i]
<1>1. AtomsInv /\ [Next]_vars => [Stay]_vars
  <2> SUFFICES ASSUME AtomsInv, Next PROVE Stay \/ UNCHANGED vars
    OBVIOUS
  <2>1. ASSUME NEW atom \in Name, EX_ATOM(atom) PROVE Stay
    <3>1. CASE Known(atom)
      BY <2>1, <3>1 DEF EX_ATOM
    <3>2. CASE ~Known(atom)
      <4>1. ATOMS_COUNT \notin DOMAIN REVERSED_ATOMS
        BY DEF AtomsInv, TypeOK
      <4>2. Numbered(atom)
        BY <2>1, <3>2 DEF EX_ATOM
      <4>. QED BY <3>2, <4>1, <4>2 DEF Known, Numbered, Put
    <3>. QED BY <3>1, <3>2
  <2>2. ASSUME NEW object \in made, Exit(object) PROVE Stay
    BY <2>2 DEF Exit
  <2>3. CASE Exited
    BY <2>3 DEF Exited
  <2>. QED BY <2>1, <2>2, <2>3 DEF Next
<1>. QED BY <1>1, AlwaysInv, PTL DEF Spec, NumbersStay
=============================================================================
