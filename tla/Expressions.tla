----------------------------- MODULE Expressions -----------------------------
(***************************************************************************)
(* The translation of C expressions to OSL: a sequence of effects and an   *)
(* expression, or an error, or a panic of the transpiler.  What the        *)
(* transpiler does by recursion on an expression is a function on what the *)
(* expression is made of.                                                  *)
(***************************************************************************)
EXTENDS Library

CONSTANT MaxNesting   (* bound: operators around an operand *)

ASSUME NestingAssumption == MaxNesting \in Nat

-----------------------------------------------------------------------------
(* C expressions.  Bin stands for every operator that computes; Call has a *)
(* name for callee; a cast tells whether it is to a pointer.               *)

Id(x) == [ex |-> "id", name |-> x]
Const == [ex |-> "const"]
Str == [ex |-> "str"]
Call(f, args) == [ex |-> "call", name |-> f, args |-> args]
Bin(l, r) == [ex |-> "bin", l |-> l, r |-> r]
Assign(l, r) == [ex |-> "assign", l |-> l, r |-> r]
OpAssign(l, r) == [ex |-> "opassign", l |-> l, r |-> r]
Index(l, r) == [ex |-> "index", l |-> l, r |-> r]
Addr(e) == [ex |-> "addr", of |-> e]
Deref(e) == [ex |-> "deref", of |-> e]
Incr(e) == [ex |-> "incr", of |-> e]
SizeOf(e) == [ex |-> "sizeof", of |-> e]
Member(e, field) == [ex |-> "member", of |-> e, name |-> field]
Cast(pointer, e) == [ex |-> "cast", of |-> e, pointer |-> pointer]
Cond(e, l, r) == [ex |-> "cond", of |-> e, l |-> l, r |-> r]

IsId(e) == e.ex = "id"

\* The expressions right inside e.
Inside(e) ==
  CASE e.ex = "call" -> ToSet(e.args)
    [] e.ex \in {"deref", "addr", "incr", "sizeof", "member", "cast"} -> {e.of}
    [] e.ex \in {"bin", "assign", "opassign", "index"} -> {e.l, e.r}
    [] e.ex = "cond" -> {e.of, e.l, e.r}
    [] OTHER -> {}

\* What steps lead to from e.
Reached(Step(_), e) ==
  LET within[n \in Nat] ==
        IF n = 0 THEN {e} ELSE LET some == within[n - 1] IN some \cup UNION {Step(d) : d \in some}
  IN  within[MaxNesting]

\* The expressions e is made of.
Operands(e) == Reached(Inside, e)

\* Inside e, what the translation of e as a whole translates as a whole.
WholesIn(e) ==
  CASE e.ex = "call" -> ToSet(e.args)
    [] e.ex \in {"cast", "addr"} -> {e.of}
    [] e.ex = "opassign" -> {e.r}
    [] OTHER -> {}

Wholes(e) == Reached(WholesIn, e)

(* OSL expressions, statements in the place of one included.               *)

id(x) == [op |-> "id", name |-> x]
newResource(props) == [op |-> "newResource", props |-> props]
rd(e) == [op |-> "rd", of |-> e]
deref(e) == [op |-> "deref", of |-> e]
unit == [op |-> "unit"]
call(f, args) == [op |-> "call", fn |-> f, args |-> args]
immBorrow(e) == [op |-> "immBorrow", of |-> e]
mutBorrow(e) == [op |-> "mutBorrow", of |-> e]
transfer(from, to) == [op |-> "transfer", of |-> from, to |-> to]
borrow(l, r) == [op |-> "borrow", of |-> id(r), to |-> id(l)]
mborrow(l, r) == [op |-> "mborrow", of |-> id(r), to |-> id(l)]
deallocate(e) == [op |-> "deallocate", of |-> e]
val(e) == [op |-> "val", of |-> e]

-----------------------------------------------------------------------------
(* Results, and effects: Read, Deref, Call, Constant, Lookup with the OSL  *)
(* expression they turn into.                                              *)

Effect(kind, exp) == [kind |-> kind, exp |-> exp]

Ok(effects, exp) == [res |-> "ok", effects |-> effects, exp |-> exp]
Fail(why) == [res |-> why, effects |-> << >>, exp |-> unit]
Error == Fail("error")

\* What the transpiler dies of; whatever else is not ok is an error it collects.
Panics == {"no variable", "no reference", "no function", "unimplemented"}
Failed(r) == r.res \notin {"ok"} \cup Panics

Effects(effects) == Ok(effects, unit)
Constant == Effect("constant", newResource(AllProps))

\* The first of the results that is not ok, or what becomes of all of them.
All(rs, Then(_)) ==
  LET bad == {n \in DOMAIN rs : rs[n].res # "ok"}
  IN  IF bad = {} THEN Then(rs) ELSE rs[Min(bad)]

EffectsOf(rs) == FlattenSeq([n \in DOMAIN rs |-> rs[n].effects])

Joined(rs) == All(rs, LAMBDA s : Effects(EffectsOf(s)))

\* EffectsExp into statements.  A constant becomes the statement that returns.
Code(r) ==
  [n \in DOMAIN r.effects |->
     IF r.effects[n].kind = "constant" THEN val(r.effects[n].exp) ELSE r.effects[n].exp]
  \o <<r.exp>>

\* Deref of a Deref is the same Deref.
derefOnce(exp) == IF exp.op = "deref" THEN exp ELSE deref(exp)

\* Read(Id) to Lookup: an argument is looked up and not read.
Looked(effect) == IF effect.kind = "read" THEN Effect("lookup", effect.exp.of) ELSE effect

\* What evaluating e does, in order.
get_effects_of_expression(e, c) ==
  LET G[d \in Operands(e)] ==
        LET Argument(a) ==
              CASE a.ex = "addr" /\ IsId(a.of) -> Effects(<<Effect("lookup2", mutBorrow(id(a.of.name)))>>)
                [] a.ex \in {"sizeof", "const"} -> Effects(<<Constant>>)
                [] OTHER -> All(<<G[a]>>, LAMBDA rs :
                      Effects([n \in DOMAIN rs[1].effects |-> Looked(rs[1].effects[n])]))
        IN
        CASE d.ex = "id" ->
               Effects(<<IF is_constant_in_enum(c, d.name) THEN Constant
                                                           ELSE Effect("read", rd(id(d.name)))>>)
          [] d.ex \in {"const", "str", "cast"} -> Effects(<< >>)
          [] d.ex = "member" -> Effects(<<Effect("lookup", id(d.name))>>)
          [] d.ex = "call" ->
               All([n \in DOMAIN d.args |-> Argument(d.args[n])], LAMBDA rs :
                 LET effects == EffectsOf(rs)
                 IN  Effects(<<Effect("call",
                       call(d.name, [n \in DOMAIN effects |-> effects[n].exp]))>>))
          [] d.ex = "deref" ->
               All(<<G[d.of]>>, LAMBDA rs :
                 IF Len(rs[1].effects) = 1
                   THEN Effects(<<Effect("deref", derefOnce(Looked(rs[1].effects[1]).exp))>>)
                   ELSE Error)
          [] d.ex = "sizeof" -> All(<<G[d.of]>>, LAMBDA rs : Effects(<<Constant>>))
          [] d.ex \in {"addr", "incr"} -> G[d.of]
          [] d.ex \in {"bin", "assign", "opassign", "index"} -> Joined(<<G[d.l], G[d.r]>>)
          [] d.ex = "cond" -> Joined(<<G[d.of], G[d.l], G[d.r]>>)
  IN  G[e]

-----------------------------------------------------------------------------
is_allocate_memory_function(f) == f \in {"malloc", "realloc", "calloc"}
is_deallocate_memory_function(f) == f = "free"

\* The tag s of s.f.g, or none.
get_structure_tag(e) ==
  LET tag[d \in Operands(e)] ==
        CASE d.of.ex = "member" -> tag[d.of]
          [] d.of.ex = "id" -> {d.of.name}
          [] OTHER -> {}
  IN  tag[e]

\* The tag a of a[..][..], or none: not implemented.
get_matrices_tag(e) ==
  LET tag[d \in Operands(e)] ==
        CASE d.ex \in {"bin", "assign", "opassign", "index"} -> tag[d.l]
          [] d.ex = "id" -> {d.name}
          [] OTHER -> {}
  IN  tag[e]

Unimplemented == Fail("unimplemented")

\* What Op makes of the one element of S; f when there is none.
Just(S, f, Op(_)) == IF S = {} THEN f ELSE Op(CHOOSE x \in S : TRUE)

\* x = &y
transpile_ref_assignment(x, y, c) ==
  IF get_variable(c, x) = {} \/ get_variable(c, y) = {} THEN Fail("no variable")
  ELSE Just(get_variable(c, x), Error, LAMBDA v :
         CASE v.mutability = ImmRef -> Ok(<< >>, borrow(x, y))
           [] v.mutability = MutRef -> Ok(<< >>, mborrow(x, y))
           [] OTHER -> Fail("no reference"))

\* *x = e: a transfer only when e has a single effect.
transpile_deref(l, r, c) ==
  IF l.ex = "deref" /\ IsId(l.of)
    THEN All(<<get_effects_of_expression(r, c)>>, LAMBDA rs :
           IF Len(rs[1].effects) = 1
             THEN Ok(<< >>, transfer(rs[1].effects[1].exp, deref(id(l.of.name))))
             ELSE Ok(rs[1].effects, deref(id(l.of.name))))
    ELSE Error

\* A new resource with the properties of x goes to x.
Renewed(x, effects, c) ==
  Just(get_variable(c, x), Error,
       LAMBDA v : Ok(effects, transfer(newResource(v.props), id(x))))

NotConstant(effect) == effect.kind # "constant"

\* Mutant: the resource is made before the operands are read.
Assigned_early(x, effects, c) ==
  All(<<Renewed(x, << >>, c)>>, LAMBDA rs :
    IF effects = << >> THEN rs[1]
    ELSE Ok(<<Effect("write", rs[1].exp)>> \o Front(effects), Last(effects).exp))

\* x = e, in general: what e reads, then a new resource.
Assigned(x, effects, c) ==
  All(<<Renewed(x, effects, c)>>, LAMBDA rs :
    IF Len(effects) = 1 THEN Ok(<< >>, transfer(effects[1].exp, id(x))) ELSE rs[1])

\* x = e
assign_to(x, r, c) ==
  CASE r.ex = "cast" /\ r.of.ex = "call" /\ is_allocate_memory_function(r.of.name) ->
         Ok(<< >>, transfer(newResource(IF r.pointer THEN {} ELSE {"copy"}), id(x)))
    [] IsId(r) -> Ok(<< >>, transfer(IF is_constant_in_enum(c, r.name) THEN newResource({"copy"})
                                                                       ELSE id(r.name), id(x)))
    [] r.ex = "addr" /\ IsId(r.of) -> transpile_ref_assignment(x, r.of.name, c)
    [] r.ex = "const" -> Renewed(x, << >>, c)
    [] OTHER -> All(<<get_effects_of_expression(r, c)>>, LAMBDA rs : Assigned(x, rs[1].effects, c))

transpile_assign_expression(l, r, c) ==
  CASE IsId(l) -> assign_to(l.name, r, c)
    [] l.ex \in {"addr", "deref", "incr", "sizeof"} -> transpile_deref(l, r, c)
    [] l.ex = "index" ->
         All(<<get_effects_of_expression(l.r, c), get_effects_of_expression(r, c)>>, LAMBDA rs :
           Just(get_matrices_tag(l.l), Unimplemented,
                LAMBDA x : Renewed(x, SelectSeq(EffectsOf(rs), NotConstant), c)))
    [] l.ex = "member" -> Just(get_structure_tag(l), Error, LAMBDA x : assign_to(x, r, c))
    [] OTHER -> Error

\* &mut e to & e where the function takes an immutable reference.
Downcast(f, n, arg, c) ==
  Just(get_function(c, f), arg, LAMBDA v :
    IF arg.op = "mutBorrow" /\ v.kind = "function" /\ v.params[n] = ImmRef
      THEN immBorrow(arg.of) ELSE arg)

\* f(args), with the arguments translated: panics on a borrow for a function
\* that is not registered.
transpile_call_expression(f, arguments, c) ==
  All(arguments, LAMBDA rs :
    IF get_function(c, f) = {} /\ \E n \in DOMAIN rs : rs[n].exp.op = "mutBorrow"
      THEN Fail("no function")
      ELSE Ok(EffectsOf(rs),
              call(IF is_std_function(f) THEN f \o ToString(Len(rs)) ELSE f,
                   [n \in DOMAIN rs |-> Downcast(f, n, rs[n].exp, c)])))

transpile_expression(e, c) ==
  LET T[d \in Operands(e)] ==
        CASE d.ex = "id" -> Ok(<< >>, id(d.name))
          [] d.ex = "call" /\ is_deallocate_memory_function(d.name) ->
               IF d.args # << >> /\ IsId(d.args[1]) THEN Ok(<< >>, deallocate(id(d.args[1].name)))
                                                    ELSE Error
          [] d.ex = "call" /\ ~is_deallocate_memory_function(d.name) ->
               transpile_call_expression(d.name, [n \in DOMAIN d.args |-> T[d.args[n]]], c)
          [] d.ex = "assign" -> transpile_assign_expression(d.l, d.r, c)
          [] d.ex = "bin" ->
               Joined(<<get_effects_of_expression(d.l, c), get_effects_of_expression(d.r, c)>>)
          [] d.ex = "opassign" -> IF IsId(d.l) THEN T[d.r] ELSE Error
          [] d.ex = "index" -> Just(get_matrices_tag(d.l), Unimplemented, LAMBDA x : Ok(<< >>, id(x)))
          [] d.ex = "const" -> Ok(<< >>, newResource(AllProps))
          [] d.ex = "str" -> Ok(<< >>, newResource({}))
          [] d.ex = "cast" -> T[d.of]
          [] d.ex = "incr" -> IF IsId(d.of) THEN Renewed(d.of.name, << >>, c) ELSE Error
          [] d.ex = "deref" -> IF IsId(d.of) THEN Ok(<< >>, deref(id(d.of.name))) ELSE Error
          [] d.ex = "addr" -> All(<<T[d.of]>>, LAMBDA rs : Ok(rs[1].effects, mutBorrow(rs[1].exp)))
          [] d.ex = "sizeof" -> Ok(<< >>, newResource(AllProps))
          [] d.ex = "member" -> Just(get_structure_tag(d), Error, LAMBDA x : Ok(<< >>, id(x)))
          [] d.ex = "cond" -> Error
  IN  T[e]

\* A condition: constants are dropped, variables read.
transpile_condition_expression(e, c) ==
  All(<<transpile_expression(e, c)>>, LAMBDA rs :
    LET effects == SelectSeq(rs[1].effects, NotConstant)
        exp == rs[1].exp
    IN  Ok([n \in DOMAIN effects |->
              IF effects[n].kind = "lookup" THEN Effect("read", rd(effects[n].exp)) ELSE effects[n]],
           CASE exp.op = "id" -> rd(exp)
             [] exp.op = "newResource" -> unit
             [] OTHER -> exp))

===============================================================================
