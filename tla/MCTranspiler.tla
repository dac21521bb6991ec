----------------------------- MODULE MCTranspiler -----------------------------
(* Instances of Transpiler for TLC.                                         *)
EXTENDS Units

AllForms == {"expression", "return", "returnVoid", "unsupported", "declare", "struct", "enum",
             "block", "unsafe", "while", "do", "for", "if", "else", "switch", "function"}

ExpressionForms == {"function", "expression"}

x1 == Id("x")
y1 == Id("y")
red == Id("RED")

\* s.p
member == Member(Id("s"), "p")

\* One expression for each way of the translation.
SomeExprs ==
  {Assign(x1, Bin(x1, Call("f", <<x1, y1>>))), Assign(y1, Addr(x1)), Assign(Deref(y1), x1),
   Call("f", <<x1, Addr(x1)>>), Call("f", <<red, Addr(x1)>>), Assign(x1, Bin(x1, red)),
   OpAssign(x1, red), Assign(x1, Deref(member)), Assign(member, Addr(x1)),
   Call("scanf", <<Str, y1>>), Call("scanf", <<Str, Addr(x1)>>),
   Call("write", <<x1, Addr(x1), Const>>), Assign(x1, Call("pow", <<x1, Const>>))}

\* x = x + sizeof x
SizeExprs == {Assign(x1, Bin(x1, SizeOf(x1)))}

\* The second is not translated.
SomeConds == {Bin(x1, Const), Cond(x1, x1, x1)}

Var(x, type, init) == [name |-> x, type |-> type, init |-> init]

SomeVariables ==
  {Var("x", "int", {}), Var("x", "const int", {Const}), Var("y", "int *", {Addr(x1)}),
   Var("y", "int", {x1})}

Header(x, type, init, cond, step) ==
  [name |-> x, type |-> type, init |-> init, cond |-> cond, step |-> step]

\* for (int x = 1; x; x = 1) and for (int *y; y = &x; x++)
SomeHeaders ==
  {Header("x", "int", {Const}, x1, Assign(x1, Const)),
   Header("y", "int *", {}, Assign(y1, Addr(x1)), Incr(x1))}

\* f(int x, int *y) and main(void)
SomeFunctions ==
  {[name |-> "f", params |-> <<[name |-> "x", type |-> "int"], [name |-> "y", type |-> "int *"]>>],
   [name |-> "main", params |-> << >>]}

\* struct S { int *p; } s; and struct S t;
SomeStructs ==
  {[tag |-> "S", name |-> "s", fields |-> <<"int *">>],
   [tag |-> "S", name |-> "t", fields |-> << >>]}

\* enum A { RED }; and enum { x }; and enum { RED }; and enum { RED } y;
SomeEnums ==
  {[tag |-> {"A"}, constants |-> {"RED"}, name |-> {}], [tag |-> {}, constants |-> {"x"}, name |-> {}],
   [tag |-> {}, constants |-> {"RED"}, name |-> {}], [tag |-> {}, constants |-> {"RED"}, name |-> {"y"}]}

\* What the configurations give the constants.  TLC evaluates a definition
\* that another names once, completely and before its workers start.  What a
\* configuration names is evaluated where it is used, and the workers, which
\* share its records, would sort their fields at the same time.
TheExprs == SomeExprs
TheSizeExprs == SizeExprs
TheConds == SomeConds
TheVariables == SomeVariables
TheHeaders == SomeHeaders
TheFunctions == SomeFunctions
TheStructs == SomeStructs
TheEnums == SomeEnums

===============================================================================
