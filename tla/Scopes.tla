-------------------------------- MODULE Scopes --------------------------------
(***************************************************************************)
(* What the transpiler knows of the names of a C program: a stack of       *)
(* scopes, from names to variables and functions, and the table of types.  *)
(***************************************************************************)
EXTENDS Integers, Sequences, FiniteSetsExt

ImmOwner == "ImmOwner"
MutOwner == "MutOwner"
MutRef == "MutRef"
ImmRef == "ImmRef"
Mutability == {ImmOwner, MutOwner, MutRef, ImmRef}

AllProps == {"copy", "mut"}

\* Items of a scope.  Of a function only what calls look at is kept.
Variable(mutability, props) ==
  [kind |-> "variable", mutability |-> mutability, props |-> props]
Function(params) == [kind |-> "function", params |-> params]

\* Types registered under a tag.
Struct(props) == [kind |-> "struct", props |-> props, constants |-> {}]
Enum(constants) == [kind |-> "enum", props |-> {}, constants |-> constants]

NewContext == [scopes |-> << >>, types |-> << >>]

\* The function f, and x |-> v.
Bound(f, x, v) == [y \in DOMAIN f \cup {x} |-> IF y = x THEN v ELSE f[y]]

create_new_scope(c) == [c EXCEPT !.scopes = Append(@, << >>)]

pop_last_scope(c) == [c EXCEPT !.scopes = SubSeq(@, 1, Len(@) - 1)]

insert_in_last_scope(c, id, item) ==
  [c EXCEPT !.scopes[Len(c.scopes)] = Bound(@, id, item)]

\* The item of the innermost scope that has one for id; none or one.
Holding(c, id, kinds) ==
  LET at == {n \in DOMAIN c.scopes : id \in DOMAIN c.scopes[n]
                                      /\ c.scopes[n][id].kind \in kinds}
  IN  IF at = {} THEN {} ELSE {c.scopes[Max(at)][id]}

\* Every table of types is looked at, whatever is in scope.
is_constant_in_enum(c, id) == \E t \in DOMAIN c.types : id \in c.types[t].constants

get_variable(c, id) == Holding(c, id, {"variable"})
get_function(c, id) == Holding(c, id, {"variable", "function"})

===============================================================================
