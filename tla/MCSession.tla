------------------------------ MODULE MCSession ------------------------------
(* Programs g++ accepts, four it refuses, three transform raises for and   *)
(* one it does not return from.                                            *)
EXTENDS Session, MCTransform

OneFunction == <<module(A, 1, <<def(f, 2, <<>>), def(f, 3, <<>>)>>), call(A, f, 4)>>

MacroExpanded == <<module(A, 1, <<defmacro(f, 0, 2)>>), call(A, f, 3)>>

SessionPrompts ==
  {OneFunction, MacroExpanded, CaseInCase, TwoCases, Unresolved, TextInDef, TwinFunctions,
   MacroOfOtherArity, MacroOfTwin, RefusedModule}
TwoNames == {"aot_cli", "other"}
=============================================================================
