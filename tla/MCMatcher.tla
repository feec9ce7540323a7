------------------------------ MODULE MCMatcher ------------------------------
(* Patterns of every constructor, nested, with a repeated name, and values *)
(* of the right and of the wrong shape, as syntax trees; what they are     *)
(* compiled to is matched, and so are all parts of it.  The readings are   *)
(* Elixir's.  Beside these, what is not compiled as it is written, or not  *)
(* to an object: a pair, [x, 1 | y], -1, ^x, "a" <> y, x = y, f(x), M.f(x) *)
(* a block, strings with a quotation mark and with a backslash.            *)
EXTENDS CompiledMatches

Leaf(op, name) == A!Tree(op, name, A!Nowhere, <<>>)
list(s) == A!Tree("list", "", A!Nowhere, s)
tuple(s) == A!Tree("tuple", "", A!Nowhere, s)
bar(h, t) == A!Tree("local", <<"|">>, A!Nowhere, <<h, t>>)
cons(h, t) == list(<<bar(h, t)>>)
local(name, args) == A!Tree("local", name, A!Nowhere, args)
remote(args) == A!Tree("remote", <<"f">>, [parts |-> <<"M">>, dots |-> {}], args)
matched(left, right) == A!Tree("match", "", A!Nowhere, <<left, right>>)
block(s) == A!Tree("block", "", A!Nowhere, s)

x == Leaf("var", "x")
y == Leaf("var", "y")
one == Leaf("number", "1")
two == Leaf("number", "2")
a == Leaf("atom", "a")

MCVar == {"x", "y"}

MatchedPatterns ==
  {list(<<x, y>>), tuple(<<x, a, x>>), cons(one, x), list(<<cons(x, y), a>>),
   cons(x, cons(y, list(<<>>)))}

MatchedValues ==
  {tuple(<<one, a, two>>), list(<<one, a, two>>), list(<<list(<<one>>), a>>),
   list(<<list(<<>>), a>>)}

str == Leaf("string", "s")
quoted == Leaf("quoted", "q")
escaped == Leaf("escaped", "e")
minus == local(<<"-">>, <<one>>)
joined == local(<<"<>">>, <<str, y>>)

Computed(v) == {minus, joined, local(<<"f">>, <<v>>), remote(<<v>>), matched(x, v)}

MCPatterns ==
  MatchedPatterns \cup Computed(y) \cup
  {x, a, list(<<>>), cons(x, y), tuple(<<x, one>>), list(<<x, bar(one, y)>>), str, quoted, escaped,
   local(<<"^">>, <<x>>), list(<<x, minus>>), tuple(<<x, minus>>), matched(minus, x),
   cons(quoted, x), block(<<x, y>>)}

MCValues ==
  MatchedValues \cup Computed(one) \cup
  {one, two, a, list(<<>>), list(<<one>>), tuple(<<one, two>>), str, quoted, escaped, x,
   cons(one, list(<<>>)), list(<<one, joined>>), tuple(<<one, minus>>), block(<<one, two>>)}

\* The objects of S and their items, and the lists their tails are.
WithItems(S) == S \cup UNION {{o.items[i] : i \in DOMAIN o.items} : o \in S}
WithTails(S) == S \cup {EX_LIST(Tail(o.items)) : o \in {v \in S : v.items # <<>>}}

MCPattern ==
  WithItems(WithItems({CompiledPattern(l) : l \in MatchedPatterns \cup {escaped}}))
MCValue ==
  WithItems(WithTails(WithTails(WithTails(WithItems({CompiledValue(r) : r \in MatchedValues})))))

\* Vectors are at most two deep.
MCHeight(v) ==
  CASE ~IsVector(v) -> 0
    [] \E i \in DOMAIN v.items : IsVector(v.items[i]) -> 2
    [] OTHER -> 1

\* A pattern is read as what it denotes when its names stand for the values of sigma.
ElixirReading(sigma) ==
  {Pair(p, A!Fill(p, sigma)) : p \in {q \in MCPattern : A!Fill(q, sigma) \in MCValue}}

MCReadings == {ElixirReading(sigma) : sigma \in [MCVar -> MCValue]}

\* [x | y] matched with the empty list and with a list of it
ConsPattern == WithItems({CompiledPattern(cons(x, y))})
ConsValue == {CompiledValue(list(<<>>)), CompiledValue(list(<<list(<<>>)>>))}
=============================================================================
