------------------------------ MODULE Objects ------------------------------
(***************************************************************************)
(* The objects of the generated programs (ExObject, aotlib.h): records of  *)
(* one shape, type, sym (the payload of a scalar or the name of a          *)
(* variable) and items (the elements of a list or tuple, the head and the  *)
(* tail of a cons).                                                        *)
(***************************************************************************)
EXTENDS Sequences, Integers

Scalar(type, sym) == [type |-> type, sym |-> sym, items |-> <<>>]
EX_NUMBER(n) == Scalar("number", n)
EX_ATOM(a)   == Scalar("atom", a)
EX_VAR(x)    == Scalar("var", x)
EX_LIST(s)   == [type |-> "list", sym |-> "", items |-> s]
EX_TUPLE(s)  == [type |-> "tuple", sym |-> "", items |-> s]
EX_CONS(h, t) == [type |-> "cons", sym |-> "", items |-> <<h, t>>]

IsVector(o) == o.type \in {"list", "tuple"}

\* The head and the tail a cons pattern is matched with.
SplitFirst(o) == <<Head(o.items), EX_LIST(Tail(o.items))>>
=============================================================================
