------------------------------ MODULE MCNames ------------------------------
(* A and B with public and private functions and macros, names shared with *)
(* Kernel, macros of several arities and with a guard, the module A_B      *)
(* beside A.B, and A_f, whose function g is written like f_g of A.         *)
EXTENDS Names

Def(kind, name, arity) == [kind |-> kind, name |-> name, arity |-> arity]
Module(path, defs) == [path |-> path, defs |-> defs]
Path(parts, dots) == [parts |-> parts, dots |-> dots]

f == <<"f">>
g == <<"g">>
fg == <<"f", "g">>
m == <<"m">>
k == <<"k">>
hd == <<"hd">>

PathA == Path(<<"A">>, {})
PathB == Path(<<"B">>, {})
PathAf == Path(<<"A", "f">>, {})
PathDotted == Path(<<"A", "B">>, {1})
PathUnderscored == Path(<<"A", "B">>, {})
PathIO == Path(<<"IO">>, {})

ModuleA ==
  Module(PathA, {Def("def", f, 1), Def("defp", <<"p">>, 1), Def("defmacro", m, 1),
                 Def("def", m, 2), Def("def", hd, 2), Def("def", fg, 1)})
ModuleB ==
  Module(PathB, {Def("def", f, 1), Def("defp", hd, 2), Def("def", m, 1),
                 Def("defmacro when", k, 1)})
ModuleAf == Module(PathAf, {Def("def", g, 1)})
ModuleDotted == Module(PathDotted, {Def("def", f, 1), Def("defmacro", m, 1), Def("def", k, 1)})
ModuleUnderscored ==
  Module(PathUnderscored, {Def("def", f, 1), Def("defmacro", m, 1), Def("defmacro", k, 1)})

CallOf(path, name, arity) == [path |-> path, name |-> name, arity |-> arity]

LocalCalls ==
  {CallOf(Nowhere, f, 1), CallOf(Nowhere, <<"p">>, 1), CallOf(Nowhere, m, 1), CallOf(Nowhere, m, 2),
   CallOf(Nowhere, hd, 1), CallOf(Nowhere, hd, 2), CallOf(Nowhere, <<"in">>, 2)}

RemoteCalls ==
  {CallOf(p, f, 1) : p \in {PathA, PathB, PathDotted, PathUnderscored}}
    \cup {CallOf(p, m, 1) : p \in {PathA, PathDotted}}
    \cup {CallOf(p, k, 1) : p \in {PathB, PathDotted}}
    \cup {CallOf(PathA, m, 2), CallOf(PathA, fg, 1), CallOf(PathA, <<"p">>, 1),
          CallOf(KernelPath, hd, 1), CallOf(PathIO, <<"puts">>, 1)}

MCLibrary ==
  {Definition(KernelPath, Def("def", <<"to", "string">>, 1)), Definition(KernelPath, Def("def", hd, 1)),
   Definition(KernelPath, Def("def", <<"in">>, 2)), Definition(PathIO, Def("def", <<"puts">>, 1))}

MCModules == {ModuleA, ModuleB, ModuleAf, ModuleDotted, ModuleUnderscored}
MCCallable == LocalCalls \cup RemoteCalls

JustA == {ModuleA}
CallsLocal == LocalCalls
=============================================================================
