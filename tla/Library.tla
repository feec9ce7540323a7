------------------------------- MODULE Library -------------------------------
(***************************************************************************)
(* The library of the generated programs: Kernel and IO                    *)
(* (aotlibkernel.cpp, aotlibio.cpp), equality and <> (aotmathlib.cpp), the *)
(* conversion of objects to text and the exceptions.  A program computes   *)
(* one value after another from its literals; each call takes values       *)
(* computed before.                                                        *)
(*                                                                         *)
(* Texts are TLA+ strings, and a number is the decimal its literal writes: *)
(* digits, not ending in 0, times a power of ten.  A call ends with a      *)
(* value ("value"), with an ExObject exception ("thrown"), with            *)
(* std::out_of_range ("foreign"), or undefined: a scalar was taken for a   *)
(* vector, or the empty string was made.  Arithmetic and order are those   *)
(* of C++ doubles and are not modelled; no literal is negative.            *)
(***************************************************************************)
EXTENDS ExMatch

CONSTANTS
  Literals,  \* the objects the program starts from
  Texts,     \* the strings written in the program
  Numbers,   \* the numbers among them
  Patterns,  \* the left sides of its matches
  MaxCalls   \* bound on the calls

\* The zeros a number of at most seven digits ends in.
Zeros(n) == IF n = 0 THEN 0 ELSE CHOOSE z \in 0..6 : n % 10^z = 0 /\ n % 10^(z + 1) # 0

Decimal(digits, exp) == [digits |-> digits, exp |-> exp]

\* The digits of n beyond the sixth, of nine at most.
Beyond(n) == CHOOSE k \in 0..3 : n \div 10^k < 10^6 /\ (k > 0 => n \div 10^k >= 10^5)

\* n is as far from one number of six digits as from the next.
Halfway(n) == 2 * (n % 10^Beyond(n)) = 10^Beyond(n)

(* A fraction is no multiple of a power of two when it is halfway, and its *)
(* double may lie on either side; there is none.                           *)
ASSUME LibraryAssumption ==
  /\ MaxCalls \in Nat
  /\ \A n \in Numbers :
       /\ n.digits \in 0..10^9 - 1 /\ n.exp \in Int /\ (n.digits % 10 = 0 => n = Decimal(0, 0))
       /\ n.exp < 0 => ~Halfway(n.digits)

VARIABLES
  values,   \* what the program has computed
  last,     \* the latest call and how it ended
  calls     \* the number of calls made

vars == <<values, last, calls>>

EX_STRING(text) == Scalar("string", text)
EX_NIL == Scalar("nil", "")
BOOL_AS_ATOM(b) == EX_ATOM(IF b THEN "true" ELSE "false")

Number(n) == EX_NUMBER(ToString(n))
NumberOf(o) == CHOOSE n \in Numbers : ToString(n) = o.sym

Ends(how, value) == [how |-> how, value |-> value]
Returned(value) == Ends("value", value)
Undefined == Ends("undefined", EX_NIL)

(* EX_STRING assigns to a std::string that was never constructed, in       *)
(* memory the collector has cleared: assigning the empty string writes     *)
(* through its null pointer, any other allocates first.                    *)
MakeString(text) == IF text = "" THEN Undefined ELSE Returned(EX_STRING(text))

\* EXCEPTION_STANDARD_IMPLEMENTATION
ExException(name, arg) == Ends("thrown", EX_TUPLE(<<EX_ATOM(name), arg>>))

-----------------------------------------------------------------------------
(* Texts.                                                                  *)

(* The number to six significant digits, one halfway to the even side.     *)
Rounded(n) ==
  LET unit == 10^Beyond(n.digits)
      whole == n.digits \div unit
      up == 2 * (n.digits % unit) > unit \/ (Halfway(n.digits) /\ whole % 2 = 1)
      six == IF up THEN whole + 1 ELSE whole
  IN  Decimal(six \div 10^Zeros(six), n.exp + Beyond(n.digits) + Zeros(six))

(* A double printed by an ostringstream: its six significant digits and    *)
(* the place of the point, as an exponent unless it is a whole number of   *)
(* at most six digits.                                                     *)
DoubleToString(n) ==
  LET d == Rounded(n).digits
      e == Rounded(n).exp
  IN  IF e \in 0..5 /\ d < 10^(6 - e) THEN ToString(d * 10^e)
      ELSE ToString(d) \o "e" \o ToString(e)

(* ExObject_ToString reads the tail of a cons as a vector, which it is not *)
(* when the cons is a pattern [h | t].                                     *)
RECURSIVE HasText(_)
HasText(o) ==
  /\ o.type = "cons" => IsVector(o.items[2])
  /\ \A i \in DOMAIN o.items : HasText(o.items[i])

\* The texts with ", " between them.
Joined(texts) ==
  FoldLeft(LAMBDA acc, i : acc \o (IF i = 1 THEN "" ELSE ", ") \o texts[i],
           "", [i \in DOMAIN texts |-> i])

RECURSIVE ExObject_ToString(_)

\* Mutant: an atom prints without its colon.
TextOfBare(o) == o.sym

TextOf(o) ==
  CASE o.type = "number" -> DoubleToString(NumberOf(o))
    [] o.type = "atom" -> ":" \o o.sym
    [] o.type = "nil" -> "nil"
    [] OTHER -> o.sym

ExObject_ToString(o) ==
  LET texts(items) == [i \in DOMAIN items |-> ExObject_ToString(items[i])]
  IN  CASE o.type = "list" -> "[" \o Joined(texts(o.items)) \o "]"
        [] o.type = "tuple" -> "{" \o Joined(texts(o.items)) \o "}"
        [] o.type = "cons" ->
             "[" \o Joined(texts(<<o.items[1]>> \o o.items[2].items)) \o "]"
        [] OTHER -> TextOf(o)

IS_TRUE(o) == ExObject_ToString(o) = ":true"

-----------------------------------------------------------------------------
(* The functions; programs pass at least the arguments these read.         *)

Kernel_to_string(o) == MakeString(ExObject_ToString(o))

\* Mutant: hd does not ask whether the list is empty.
Kernel_hdUnchecked(o) ==
  CASE ~IsVector(o) -> Undefined
    [] o.items = <<>> -> Ends("foreign", EX_NIL)
    [] OTHER -> Returned(Head(o.items))

Kernel_hd(o) ==
  CASE ~IsVector(o) -> Undefined
    [] o.items = <<>> -> ExException("ArgumentError", o)
    [] OTHER -> Returned(Head(o.items))

\* Mutant: the tail of a list starts with its first element.
Kernel_tlWhole(o) ==
  CASE ~IsVector(o) -> Undefined
    [] Len(o.items) < 2 -> ExException("ArgumentError", o)
    [] OTHER -> Returned(EX_LIST(o.items))

Kernel_tl(o) ==
  CASE ~IsVector(o) -> Undefined
    [] Len(o.items) < 2 -> ExException("ArgumentError", o)
    [] OTHER -> Returned(EX_LIST(Tail(o.items)))

RECURSIVE Kernel_inspect(_)

(* The elements of a vector are shown one after another, until one fails.  *)
InspectElements(items) ==
  FoldLeft(LAMBDA r, i :
             IF r.how # "value" THEN r
             ELSE LET shown == Kernel_inspect(items[i])
                  IN  IF shown.how # "value" THEN shown
                      ELSE Returned(EX_STRING(
                             r.value.sym \o (IF i = 1 THEN "" ELSE ", ") \o shown.value.sym)),
           Returned(EX_STRING("")), [i \in DOMAIN items |-> i])

\* Mutant: strings are shown without quotes.
ShownUnquoted(o) == ExObject_ToString(o)

\* A scalar as inspect shows it.
Shown(o) ==
  IF o.type = "string" THEN "\"" \o o.sym \o "\"" ELSE ExObject_ToString(o)

(* inspect takes the list of its arguments; for the elements of a vector   *)
(* it calls itself with the element in place of that list.                 *)
Kernel_inspect(args) ==
  IF ~IsVector(args) THEN Undefined
  ELSE IF args.items = <<>> THEN Ends("foreign", EX_NIL)
  ELSE IF ~IsVector(args.items[1]) THEN Returned(EX_STRING(Shown(args.items[1])))
  ELSE LET shown == InspectElements(args.items[1].items)
       IN  IF shown.how # "value" THEN shown
           ELSE Returned(EX_STRING("[" \o shown.value.sym \o "]"))

Kernel_in(target, container) ==
  IF container.type # "list"
  THEN ExException("ArgumentError",
         EX_TUPLE(<<EX_STRING("Kernel.in/2 is not supported for types: "), target, container>>))
  ELSE Returned(BOOL_AS_ATOM(
         \E i \in DOMAIN container.items : ExObject_equals(target, container.items[i])))

ExMath_equal(a, b) == Returned(BOOL_AS_ATOM(ExObject_equals(a, b)))

ExMath_notEqual(a, b) == Returned(BOOL_AS_ATOM(~ExObject_equals(a, b)))

ExMath_concatString(a, b) == MakeString(ExObject_ToString(a) \o ExObject_ToString(b))

EX_NOT_EXPR(o) == Returned(BOOL_AS_ATOM(~IS_TRUE(o)))

\* IO.puts prints the text of its argument, IO.inspect what inspect yields.
IO_puts(o) == Returned(EX_ATOM("ok"))

IO_inspect(o) ==
  LET shown == Kernel_inspect(EX_LIST(<<o>>))
  IN  IF shown.how = "value" THEN Returned(o) ELSE shown

(* The exception a failing match ends with: a vector pattern throws with   *)
(* the two vectors, a cons pattern passes on what one of its parts threw.  *)
RECURSIVE MATCH_ERROR(_, _, _)
MATCH_ERROR(left, right, b) ==
  IF left.type = "cons"
  THEN LET split == SplitFirst(right)
           head == ExMatch_pattern(left.items[1], split[1], b)
       IN  IF head.how # "match" THEN MATCH_ERROR(left.items[1], split[1], b)
           ELSE MATCH_ERROR(left.items[2], split[2], head.bind)
  ELSE ExException("MatchError", EX_TUPLE(<<EX_STRING("cannot match values"), left, right>>))

Names == {"h", "t"}
Empty == [x \in Names |-> Unbound]

\* pattern = value, in a scope of its own
Match(pattern, value) ==
  LET result == ExMatch_pattern(pattern, value, Empty)
  IN  CASE result.how = "match" -> Returned(value)
        [] result.how = "nomatch" -> MATCH_ERROR(pattern, value, Empty)
        [] OTHER -> Ends(result.how, EX_NIL)

-----------------------------------------------------------------------------
Init ==
  /\ values = Literals
  /\ last = [call |-> "none", args |-> <<>>, how |-> "value", value |-> EX_NIL]
  /\ calls = 0

\* A call that returns lets the program go on; any other ends it.
Call(call, args, end) ==
  /\ last.how = "value"
  /\ calls < MaxCalls
  /\ calls' = calls + 1
  /\ last' = [call |-> call, args |-> args, how |-> end.how, value |-> end.value]
  /\ values' = IF end.how = "value" THEN values \cup {end.value} ELSE values

\* The calls of one argument, and the constructors.
Unary(o) ==
  \/ Call("list", <<o>>, Returned(EX_LIST(<<o>>)))
  \/ Call("to_string", <<o>>, Kernel_to_string(o))
  \/ Call("hd", <<o>>, Kernel_hd(o))
  \/ Call("tl", <<o>>, Kernel_tl(o))
  \/ Call("inspect", <<o>>, Kernel_inspect(EX_LIST(<<o>>)))
  \/ Call("not", <<o>>, EX_NOT_EXPR(o))
  \/ Call("puts", <<o>>, IO_puts(o))
  \/ Call("print", <<o>>, IO_inspect(o))
  \/ Call("raise", <<o>>, ExException("throw", o))
  \/ \E p \in Patterns : Call("match", <<p, o>>, Match(p, o))

Binary(a, b) ==
  \/ Call("list", <<a, b>>, Returned(EX_LIST(<<a, b>>)))
  \/ Call("tuple", <<a, b, a>>, Returned(EX_TUPLE(<<a, b, a>>)))
  \/ Call("in", <<a, b>>, Kernel_in(a, b))
  \/ Call("==", <<a, b>>, ExMath_equal(a, b))
  \/ Call("!=", <<a, b>>, ExMath_notEqual(a, b))
  \/ Call("<>", <<a, b>>, ExMath_concatString(a, b))

Over == (last.how # "value" \/ calls = MaxCalls) /\ UNCHANGED vars

Next ==
  \/ \E text \in Texts : Call("string", <<>>, MakeString(text))
  \/ \E o \in values : Unary(o)
  \/ \E a, b \in values : Binary(a, b)
  \/ Over

Spec == Init /\ [][Next]_vars

-----------------------------------------------------------------------------
\* The value computed last, if there is one.
Latest == IF last.how = "value" THEN {last.value} ELSE {}

Scalars == {v \in values : ~IsVector(v)}

(* hd and tl take a list apart as the pattern [h | t] does, except that tl *)
(* throws for a list of one element.                                       *)
ListsTakenApart ==
  \A v \in Latest : IsVector(v) /\ v.items # <<>> =>
    LET bind == ExMatch_pattern(EX_CONS(EX_VAR("h"), EX_VAR("t")), v, Empty).bind
    IN  /\ Kernel_hd(v) = Returned(bind["h"])
        /\ Kernel_tl(v) = Returned(bind["t"]) <=> Len(v.items) > 1

(* A guard or a condition (IS_TRUE compares texts) takes for true what the *)
(* program computed only if it is the atom true or a string that looks     *)
(* like it; and the results of ==, in and not are never that string.       *)
TruthIsTheAtom ==
  /\ \A v \in Latest : IS_TRUE(v) <=> v \in {EX_ATOM("true"), EX_STRING(":true")}
  /\ last.call \in {"in", "==", "!=", "not"} /\ last.how = "value" =>
       last.value \in {EX_ATOM("true"), EX_ATOM("false")}

(* inspect tells scalars apart, a string from the atom or number that is   *)
(* written alike, nil from :nil, except for numbers, small or large, that  *)
(* are the same to six significant digits: one in two of these has more.   *)
InspectTellsScalars ==
  \A a \in Latest \cap Scalars, b \in Scalars :
    LET shown(o) == Kernel_inspect(EX_LIST(<<o>>))
        numbers == a.type = "number" /\ b.type = "number"
        beyond(o) == NumberOf(o).digits >= 10^6
    IN  /\ a # b /\ shown(a) = shown(b) => numbers /\ (beyond(a) \/ beyond(b))
        /\ numbers => (shown(a) = shown(b) <=> Rounded(NumberOf(a)) = Rounded(NumberOf(b)))

\* A part of a pattern is a cons pattern.
RECURSIVE HasCons(_)
HasCons(o) == o.type = "cons" \/ \E i \in DOMAIN o.items : HasCons(o.items[i])

(* A program leaves what C++ defines, or throws what nothing catches, only *)
(* where it writes the empty string, takes a scalar apart, shows a list    *)
(* with elements in it, or matches what Elixir does not match; and a       *)
(* thrown exception has a text for main to print unless it holds a pattern *)
(* [h | t].                                                                *)
FailuresExplained ==
  LET arg == last.args[Len(last.args)] IN
  /\ last.how \in {"undefined", "foreign"} =>
       CASE last.call \in {"hd", "tl"} -> ~IsVector(arg)
         [] last.call \in {"inspect", "print"} -> IsVector(arg) /\ arg.items # <<>>
         [] last.call = "match" -> ~ElixirMatches(last.args[1], arg)
         [] OTHER -> last.call = "string"
  /\ last.how = "thrown" /\ ~HasText(last.value) => last.call = "match" /\ HasCons(last.args[1])
=============================================================================
