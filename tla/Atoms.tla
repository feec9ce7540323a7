-------------------------------- MODULE Atoms --------------------------------
(***************************************************************************)
(* The atoms of a generated program: EX_ATOM (aotlib.cpp) numbers the      *)
(* names in the order in which they are first evaluated and keeps the      *)
(* numbering in two maps, ATOMS and REVERSED_ATOMS.  An atom object holds  *)
(* its number only: ExObject_equals compares numbers, ExObject_ToString    *)
(* looks the name up, and Kernel.exit hands the number to the system.      *)
(*                                                                         *)
(* Every atom of a program is written in its source, so there are far      *)
(* fewer than the 2^31 that would overflow ATOMS_COUNT.                    *)
(***************************************************************************)
EXTENDS Integers

CONSTANTS
  Name,          \* the names written in the program
  StatusRange    \* how many exit statuses the system tells apart (256)

ASSUME StatusAssumption == StatusRange \in Nat \ {0}

VARIABLES
  ATOMS,            \* the numbers of the names evaluated so far
  REVERSED_ATOMS,   \* the names of the numbers
  ATOMS_COUNT,      \* the next number
  made,             \* the objects made so far, with the names asked for (history)
  status            \* the exit status, or Running

vars == <<ATOMS, REVERSED_ATOMS, ATOMS_COUNT, made, status>>

Running == -1   \* no status is negative

\* map[key] = value
Put(map, key, value) ==
  [k \in DOMAIN map \cup {key} |-> IF k = key THEN value ELSE map[k]]

Init ==
  /\ ATOMS = [n \in {} |-> 0]
  /\ REVERSED_ATOMS = [i \in {} |-> ""]
  /\ ATOMS_COUNT = 0
  /\ made = {}
  /\ status = Running

\* Mutant: the count of atoms is not moved on.
NumberedAgain(atom) ==
  /\ ATOMS' = Put(ATOMS, atom, ATOMS_COUNT)
  /\ REVERSED_ATOMS' = Put(REVERSED_ATOMS, ATOMS_COUNT, atom)
  /\ UNCHANGED ATOMS_COUNT

\* Mutant: only the way from names to numbers is kept.
NumberedOneWay(atom) ==
  /\ ATOMS' = Put(ATOMS, atom, ATOMS_COUNT)
  /\ ATOMS_COUNT' = ATOMS_COUNT + 1
  /\ UNCHANGED REVERSED_ATOMS

\* A name that is evaluated for the first time.
Numbered(atom) ==
  /\ ATOMS' = Put(ATOMS, atom, ATOMS_COUNT)
  /\ REVERSED_ATOMS' = Put(REVERSED_ATOMS, ATOMS_COUNT, atom)
  /\ ATOMS_COUNT' = ATOMS_COUNT + 1

\* Mutant: a name that is known is not looked for.
NeverKnown(atom) == FALSE

Known(atom) == atom \in DOMAIN ATOMS

\* EX_ATOM, which calls itself once when the name is new.
EX_ATOM(atom) ==
  /\ status = Running
  /\ IF Known(atom) THEN UNCHANGED <<ATOMS, REVERSED_ATOMS, ATOMS_COUNT>>
     ELSE Numbered(atom)
  /\ made' = made \cup {[name |-> atom, id |-> ATOMS'[atom]]}
  /\ UNCHANGED status

\* Kernel.exit of an atom; the system keeps the low bits of the number.
Exit(object) ==
  /\ status = Running
  /\ status' = object.id % StatusRange
  /\ UNCHANGED <<ATOMS, REVERSED_ATOMS, ATOMS_COUNT, made>>

Exited == status # Running /\ UNCHANGED vars

Next ==
  \/ \E atom \in Name : EX_ATOM(atom)
  \/ \E object \in made : Exit(object)
  \/ Exited

Spec == Init /\ [][Next]_vars

-----------------------------------------------------------------------------
(* The numbers are 0 up to the count, in both maps.                        *)
TypeOK ==
  /\ ATOMS_COUNT \in Nat
  /\ DOMAIN ATOMS \subseteq Name
  /\ \A n \in DOMAIN ATOMS : ATOMS[n] \in 0..ATOMS_COUNT - 1
  /\ DOMAIN REVERSED_ATOMS = 0..ATOMS_COUNT - 1

(* The two maps are inverse to each other, whatever was evaluated in what  *)
(* order: no number is shared, and none is without its name.               *)
Bijection ==
  /\ \A n \in DOMAIN ATOMS :
       ATOMS[n] \in DOMAIN REVERSED_ATOMS /\ REVERSED_ATOMS[ATOMS[n]] = n
  /\ \A i \in DOMAIN REVERSED_ATOMS :
       REVERSED_ATOMS[i] \in DOMAIN ATOMS /\ ATOMS[REVERSED_ATOMS[i]] = i

(* Two atom objects are equal (same number) exactly if the program wrote   *)
(* the same name, however long ago each was made, and each prints as the   *)
(* name it was made of.                                                    *)
EqualIffSameName ==
  /\ \A o, p \in made : o.id = p.id <=> o.name = p.name
  /\ \A o \in made : o.id \in DOMAIN REVERSED_ATOMS /\ REVERSED_ATOMS[o.id] = o.name

(* A number once given out stays with its name: EX_ATOM never changes a    *)
(* row of either map, so objects stored anywhere keep their meaning.       *)
NumbersStay ==
  [][/\ \A n \in DOMAIN ATOMS : n \in DOMAIN ATOMS' /\ ATOMS'[n] = ATOMS[n]
     /\ \A i \in DOMAIN REVERSED_ATOMS :
          i \in DOMAIN REVERSED_ATOMS' /\ REVERSED_ATOMS'[i] = REVERSED_ATOMS[i]]_vars
=============================================================================
