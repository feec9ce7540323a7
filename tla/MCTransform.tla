----------------------------- MODULE MCTransform -----------------------------
(* Prompts: a module whose clauses of one function are not next to each    *)
(* other, two modules that call each other, a case in main and one in a    *)
(* function, macros and calls of them in every order, text that is no C++, *)
(* functions of one joined name, and the shapes that end a session.        *)
EXTENDS Transform

Item(op, name, fn, arity, line, body) ==
  [op |-> op, name |-> name, fn |-> fn, arity |-> arity, line |-> line, body |-> body]

A == [parts |-> <<"A">>, dots |-> {}]
B == [parts |-> <<"B">>, dots |-> {}]
A_x == [parts |-> <<"A", "x">>, dots |-> {}]
A_B == [parts |-> <<"A", "B">>, dots |-> {}]
AdotB == [parts |-> <<"A", "B">>, dots |-> {1}]

f == <<"f">>
g == <<"g">>

module(name, line, body) == Item("module", name, <<>>, 0, line, body)
def(fn, line, body) == Item("def", Nowhere, fn, 0, line, body)
defmacro(fn, arity, line) == Item("macro", Nowhere, fn, arity, line, <<>>)
case(line, body) == Item("case", Nowhere, <<>>, 0, line, body)
call(name, fn, line) == Item("call", name, fn, 0, line, <<>>)
local(name, fn, line) == Item("local", name, fn, 0, line, <<>>)
text(line) == Item("text", Nowhere, <<>>, 0, line, <<>>)

\* A call that is expanded to body when it is a macro's.
expandable(name, fn, arity, line, body) == Item("call", name, fn, arity, line, body)

Interleaved ==
  <<module(A, 1, <<def(f, 2, <<>>),
                   def(g, 3, <<local(A, f, 3)>>),
                   def(f, 4, <<call(A, g, 4)>>)>>),
    call(A, f, 5)>>

TwoModules ==
  <<module(A, 1, <<def(f, 2, <<call(B, f, 2)>>)>>),
    call(B, f, 3),
    module(B, 4, <<def(f, 5, <<call(A, f, 5)>>)>>)>>

CaseInMain == <<case(1, <<>>)>>

CaseInFunction ==
  <<module(A, 1, <<def(f, 2, <<case(3, <<call(A, f, 3)>>)>>)>>)>>

CaseInCase == <<case(1, <<case(2, <<>>)>>)>>

TwoCases == <<case(1, <<>>), case(2, <<>>)>>

ModuleInModule ==
  <<module(A, 1, <<def(f, 2, <<>>), module(B, 3, <<def(g, 4, <<>>)>>)>>)>>

FunctionAfterModule ==
  <<module(A, 1, <<module(B, 2, <<def(g, 3, <<>>)>>), def(f, 4, <<>>)>>)>>

ModuleInDef ==
  <<module(A, 1, <<def(f, 2, <<module(B, 3, <<>>)>>)>>)>>

ModuleTwice ==
  <<module(A, 1, <<def(f, 2, <<>>)>>), module(A, 3, <<def(f, 4, <<>>)>>)>>

Unresolved == <<call(A, f, 1)>>

\* A macro called before and behind its module, and in a case.
MacroCalled ==
  <<call(A, f, 1),
    module(A, 2, <<defmacro(f, 0, 3), def(g, 4, <<>>)>>),
    expandable(A, f, 0, 5, <<call(A, g, 5)>>)>>

MacroInCase ==
  <<module(A, 1, <<defmacro(f, 1, 2), def(g, 3, <<>>)>>),
    case(4, <<expandable(A, f, 1, 4, <<call(A, g, 4), text(4)>>)>>)>>

\* ... of another number of arguments, and of a module that is not there.
MacroOfOtherArity == <<module(A, 1, <<defmacro(f, 1, 2)>>), call(A, f, 3)>>

MacroOfTwin == <<module(A_B, 1, <<defmacro(f, 0, 2)>>), call(AdotB, f, 3)>>

OtherTwin == <<module(AdotB, 1, <<defmacro(f, 0, 2)>>)>>

MacroInInner ==
  <<module(A, 1, <<module(B, 2, <<defmacro(f, 0, 3)>>), def(g, 4, <<call(B, f, 4)>>)>>)>>

RefusedModule == <<module(B, 1, <<def(g, 2, <<>>)>>)>>

TextInDef == <<module(A, 1, <<def(f, 2, <<text(2)>>)>>), call(A, f, 3)>>

\* A.x_f and A_x.f
TwinFunctions ==
  <<module(A, 1, <<def(<<"x", "f">>, 2, <<>>)>>), module(A_x, 3, <<def(f, 4, <<>>)>>)>>

AllPrompts ==
  {Interleaved, TwoModules, CaseInMain, CaseInFunction, CaseInCase, TwoCases,
   ModuleInModule, FunctionAfterModule, ModuleInDef, ModuleTwice, Unresolved,
   MacroCalled, MacroInCase, MacroOfOtherArity, MacroOfTwin, OtherTwin, MacroInInner,
   RefusedModule, TextInDef, TwinFunctions}

\* A module, and a macro whose code raises.
MCRefusable == {RefusedModule[1], MacroCalled[3]}

CaseThenModule == {CaseInMain, TwoModules}
=============================================================================
