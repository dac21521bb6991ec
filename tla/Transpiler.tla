------------------------------ MODULE Transpiler ------------------------------
(***************************************************************************)
(* The transpiler walking a C translation unit, one construct at a time,   *)
(* in the order it visits them.  Each construct that is still open is a    *)
(* frame of the stack: a call of one of the transpiler's functions that    *)
(* has not returned.  The unit is the environment: any construct of the    *)
(* kinds in Forms that is legal C where it stands is offered.              *)
(*                                                                         *)
(* "scopes", "tags", "enumerators", "notes" and the fields "src" and       *)
(* "first_src" of a frame are history, what C means by the unit; no        *)
(* translation reads them.                                                 *)
(***************************************************************************)
EXTENDS Expressions

CONSTANTS
  Names,       (* names of variables                                       *)
  Functions,   (* definitions of functions: name and parameters            *)
  Intrinsics,  (* bound: functions of the library that the first scope has *)
  Exprs,       (* the expressions of statements                            *)
  Conds,       (* the expressions of conditions and returns                *)
  Variables,   (* declarations: name, type, and an initialiser or none     *)
  Headers,     (* headers of for: a declaration, a condition and a step    *)
  Structs,     (* declarations of structures: tag, fields and name         *)
  Enums,       (* definitions of enumerations: tag, constants and name     *)
  Forms,       (* the kinds of constructs                                  *)
  MaxSize      (* bound: constructs of a unit, functions and elses aside   *)

VariableTypes == {"int", "const int", "int *", "const int *", "array", "const array", "enum"}
ParameterTypes == {"int", "const int", "int *", "const int *", "array"}

ASSUME TranspilerAssumption ==
  /\ MaxSize \in Nat /\ Intrinsics \subseteq DOMAIN Library
  /\ \A v \in Variables \cup Headers : v.type \in VariableTypes
  /\ \A f \in Functions : \A n \in DOMAIN f.params : f.params[n].type \in ParameterTypes
  /\ \A v \in Structs : \A w \in Variables \cup Headers : v.name # w.name
  /\ \A v \in Enums : /\ \A t, u \in v.tag : t = u
                      /\ \A x, y \in v.name : x = y
                      /\ v.constants \cap v.name = {}

VARIABLES
  context,     (* MutabilityContext                                        *)
  stack,       (* the open constructs, the unit first                      *)
  status,      (* "running", "done", "failed", or why it panicked          *)
  size,        (* constructs so far                                        *)
  scopes,      (* history: the scopes of C                                 *)
  tags,        (* history: the structures and enumerations of C            *)
  enumerators, (* history: the names that have been enumeration constants  *)
  notes        (* history: what the unit has had                           *)

vars == <<context, stack, status, size, scopes, tags, enumerators, notes>>

-----------------------------------------------------------------------------
(* Statements of OSL, and of C with their expressions translated.          *)

decl(x) == [op |-> "decl", name |-> x]
branch(blocks) == [op |-> "branch", blocks |-> blocks]
loop(body) == [op |-> "loop", body |-> body]
unsafe(body) == [op |-> "unsafe", body |-> body]
fn(f, params, body) == [op |-> "fn", name |-> f, params |-> params, body |-> body]

\* C: head and tail are code, e the expression of an expression statement.
C(st, head, body, other, tail) ==
  [st |-> st, head |-> head, body |-> body, other |-> other, tail |-> tail, of |-> {}]
CodeC(st, code) == C(st, code, << >>, << >>, << >>)
ExpressionC(e, code) == [CodeC("expression", code) EXCEPT !.of = {e}]

(* A frame.  head and tail are the code the construct puts before itself   *)
(* and at the end of its body; out is the body so far, first what comes    *)
(* before it in the same construct: the then of an else, the cases of a    *)
(* switch.  headOk and ok tell whether the head and the body translate.    *)
Frame(kind, head, tail) ==
  [kind |-> kind, name |-> "", params |-> << >>,
   head |-> head, tail |-> tail, headOk |-> TRUE, ok |-> TRUE,
   out |-> << >>, first |-> << >>, src |-> << >>, first_src |-> << >>]

Top == stack[Len(stack)]
Below == SubSeq(stack, 1, Len(stack) - 1)
WithTop(frames, fr) == Append(SubSeq(frames, 1, Len(frames) - 1), fr)

\* The frame with more statements, or with an error collected.
More(fr, osl, c) == [fr EXCEPT !.out = @ \o osl, !.src = @ \o c]
Bad(fr) == [fr EXCEPT !.ok = FALSE]

-----------------------------------------------------------------------------
(* What is legal C: names are visible, pointers are pointers.              *)

Meaning(s, x) == s[Max({n \in DOMAIN s : x \in DOMAIN s[n]})][x]
IsVariable(s, x) ==
  /\ \E n \in DOMAIN s : x \in DOMAIN s[n]
  /\ Meaning(s, x).kind = "variable"
IsEnumerator(s, x) ==
  /\ \E n \in DOMAIN s : x \in DOMAIN s[n]
  /\ Meaning(s, x).kind = "enumerator"
IsPointer(s, x) == IsVariable(s, x) /\ Meaning(s, x).mutability \in {MutRef, ImmRef}

IsStructure(s, x) == IsVariable(s, x) /\ \E v \in Structs : v.name = x

\* Functions that need no definition in the unit.
Provided(f, args) ==
  \/ is_deallocate_memory_function(f) \/ is_allocate_memory_function(f) \/ f \in Variadics
  \/ f \in DOMAIN Library /\ Len(Library[f]) = Len(args)

Callable(s, f, args) ==
  \/ Provided(f, args)
  \/ /\ \E n \in DOMAIN s : f \in DOMAIN s[n]
     /\ Meaning(s, f).kind = "function"
     /\ Len(Meaning(s, f).params) = Len(args)

Legal(e, s) == \A d \in Operands(e) :
  /\ d.ex = "id" => IsVariable(s, d.name) \/ IsEnumerator(s, d.name)
  /\ d.ex = "call" => Callable(s, d.name, d.args)
  /\ d.ex = "assign" /\ IsId(d.l) =>
       /\ IsVariable(s, d.l.name)
       /\ IsPointer(s, d.l.name) <=>
            (d.r.ex = "addr" \/ d.r.ex = "cast" \/ (IsId(d.r) /\ IsPointer(s, d.r.name)))
  /\ d.ex \in {"opassign", "index"} /\ IsId(d.l) => IsVariable(s, d.l.name)
  /\ d.ex = "deref" /\ IsId(d.of) => IsPointer(s, d.of.name)
  /\ d.ex = "member" /\ IsId(d.of) => IsStructure(s, d.of.name)
  /\ d.ex \in {"addr", "incr"} /\ IsId(d.of) => IsVariable(s, d.of.name)

LegalIn(s, exprs) == {e \in exprs : Legal(e, s)}

-----------------------------------------------------------------------------
(* Declarations.                                                           *)

Enumerator == [kind |-> "enumerator"]

\* get_mutability_of_declaration and get_props_from_declaration.
ItemOf(type) ==
  CASE type = "int" -> Variable(MutOwner, {"copy", "mut"})
    [] type = "const int" -> Variable(ImmOwner, {"copy"})
    [] type = "int *" -> Variable(MutRef, {})
    [] type = "const int *" -> Variable(ImmRef, {})
    [] type = "array" -> Variable(MutOwner, {"mut"})
    [] type = "const array" -> Variable(ImmOwner, {})
    [] type = "enum" -> Variable(MutOwner, {"copy"})

\* The properties of a field: mutable unless const, copied unless derived.
FieldProps(type) ==
  CASE type = "int" -> {"copy", "mut"}
    [] type = "const int" -> {"copy"}
    [] type \in {"int *", "array"} -> {"mut"}
    [] type = "const int *" -> {}

get_props_of_struct_from_fields(fields) ==
  {p \in AllProps : \A n \in DOMAIN fields : p \in FieldProps(fields[n])}

\* A parameter: an array is an owner without properties but mut.
ParameterOf(type) ==
  CASE type = "int" -> Variable(MutOwner, {"mut"})
    [] type = "const int" -> Variable(ImmOwner, {})
    [] type = "int *" -> Variable(MutRef, {"mut"})
    [] type = "const int *" -> Variable(ImmRef, {})
    [] type = "array" -> Variable(MutOwner, {"mut"})

-----------------------------------------------------------------------------
(* Steps of the walk.                                                      *)

Form(form) ==
  /\ size < MaxSize /\ status = "running" /\ form \in Forms
  /\ size' = size + 1

InBody == Top.kind \notin {"unit", "switch"}

\* The outcome of a translation: the walk goes on with frames, collects an
\* error in the open construct, or panics.
Outcome(r, frames) ==
  /\ status' = IF r.res \in Panics THEN r.res ELSE "running"
  /\ stack' = CASE r.res = "ok" -> frames
                [] Failed(r) -> WithTop(stack, Bad(Top))
                [] r.res \in Panics -> stack

\* The functions that are translated.
Registered == Intrinsics \cup {stack[1].out[n].name :
                n \in {m \in DOMAIN stack[1].out : stack[1].out[m].op = "fn"}}

HasConstant(e) ==
  \E d \in Operands(e) : d.ex = "sizeof" \/ (IsId(d) /\ d.name \in enumerators)

\* What e, translated as a whole, has evaluated for its effects.
Evaluated(e) ==
  LET values(d) == IF d.ex = "assign" /\ d.l.ex = "member" THEN {d.r} ELSE Inside(d) \ WholesIn(d)
  IN  UNION {Operands(d) : d \in UNION {values(w) : w \in {d \in Wholes(e) : d.ex # "member"}}}

\* A call whose name or arguments do not come out as its definition has them:
\* with the number of arguments or not, a string or a cast for an operand.
Misfit(e) ==
  \/ \E d \in Operands(e) : d.ex = "call" /\ (is_allocate_memory_function(d.name) \/ d.name = "fprintf")
  \/ \E d \in Wholes(e) : d.ex = "call" /\
       (d.name \in {"pow", "fmod"} \/ (d.name \in Variadics /\ Len(d.args) \notin 1 .. 5))
  \/ \E d \in Evaluated(e) : d.ex = "call" /\
       \/ d.name \in Variadics
       \/ \E a \in ToSet(d.args) : \/ a.ex \notin {"id", "const", "sizeof", "addr", "deref"}
                                   \/ a.ex = "addr" /\ ~IsId(a.of)

\* The value of a member is read by the name of the member.
MemberRead(e) == \E d \in Evaluated(e) : d.ex = "member"

\* &x for a function that is not translated yet, or that the library has under
\* other names.
BorrowsEarly(e) ==
  \E d \in Wholes(e) : d.ex = "call" /\ d.name \notin Registered
                        /\ \E a \in ToSet(d.args) : \E b \in Wholes(a) : b.ex = "addr"

\* s.f = &x
AddressInMember(e) ==
  \E d \in Operands(e) : d.ex = "assign" /\ d.l.ex = "member" /\ d.r.ex = "addr"

\* x = &y or y = &x
AddressWith(x, e) ==
  \E d \in Operands(e) : d.ex = "assign" /\ d.r.ex = "addr" /\ Id(x) \in {d.l, d.r.of}

\* What is noted of an expression e of the unit, and of its result r.
NotedOf(r, e) ==
  (IF HasConstant(e) THEN {"constant"} ELSE {})
  \cup (IF \E d \in Wholes(e) : IsId(d) /\ IsEnumerator(scopes, d.name) THEN {"alone"} ELSE {})
  \cup (IF Misfit(e) THEN {"misfit"} ELSE {})
  \cup (IF MemberRead(e) THEN {"member"} ELSE {})
  \cup (IF r.res = "no function" /\ BorrowsEarly(e) THEN {"early"} ELSE {})
  \cup (IF r.res = "no reference" /\ AddressInMember(e) THEN {"inMember"} ELSE {})

Noted(r, exprs, note) ==
  notes' = notes \cup note \cup (UNION {NotedOf(r, e) : e \in exprs})
                 \cup (IF Failed(r) THEN {"error"} ELSE {})

\* x declared in the scopes of C, and in the transpiler's.
InScope(s, x, item) == [s EXCEPT ![Len(s)] = Bound(@, x, item)]
Fresh(x) == x \notin DOMAIN scopes[Len(scopes)]

ExpressionStatement ==
  /\ Form("expression") /\ InBody
  /\ \E e \in LegalIn(scopes, Exprs) :
       LET r == transpile_expression(e, context)
       IN  /\ Outcome(r, WithTop(stack, More(Top, Code(r), <<ExpressionC(e, Code(r))>>)))
           /\ Noted(r, {e}, {})
  /\ UNCHANGED <<context, scopes, tags, enumerators>>

\* return e; the effects of e are dropped.
Return(e) ==
  /\ Form("return") /\ InBody /\ e \in LegalIn(scopes, {e})
  /\ LET r == transpile_expression(e, context)
         code == <<val(r.exp)>>
     IN  Outcome(r, WithTop(stack, More(Top, code, <<CodeC("return", code)>>)))
         /\ Noted(r, {e}, {})
  /\ UNCHANGED <<context, scopes, tags, enumerators>>

\* return; is no statement at all.
ReturnVoid ==
  /\ Form("returnVoid") /\ InBody
  /\ stack' = WithTop(stack, More(Top, << >>, <<CodeC("return", << >>)>>))
  /\ notes' = notes \cup {"returnVoid"}
  /\ UNCHANGED <<context, status, scopes, tags, enumerators>>

\* break, continue, goto, labels, static assertions.
Unsupported ==
  /\ Form("unsupported") /\ InBody
  /\ Outcome(Error, stack)
  /\ Noted(Error, {}, {})
  /\ UNCHANGED <<context, scopes, tags, enumerators>>

\* An initialiser: an array gets a new resource, the rest is an assignment.
transpile_initializer(x, type, e, c) ==
  IF type \in {"array", "const array"}
    THEN Ok(<< >>, transfer(newResource(ItemOf(type).props), id(x)))
    ELSE transpile_assign_expression(Id(x), e, c)

Initialised(x, init) == {Assign(Id(x), e) : e \in init}

\* The code of a declaration; init has one expression or none.
Declaration(x, type, init, c) ==
  IF init = {} \/ type = "enum" THEN Ok(<< >>, decl(x))
  ELSE All(<<transpile_initializer(x, type, CHOOSE e \in init : TRUE, c)>>, LAMBDA rs :
         Ok(<<Effect("decl", decl(x))>> \o rs[1].effects, rs[1].exp))

\* Variables outside of functions are initialised by constants.
LegalInits(x, s) ==
  {{}} \cup {{e} : e \in {d \in UNION {v.init : v \in Variables \cup Headers} :
                            /\ Legal(Assign(Id(x), d), s)
                            /\ Top.kind = "unit" => d = Const}}

Declare(x, type, init) ==
  /\ Form("declare") /\ Top.kind # "switch" /\ Fresh(x)
  /\ scopes' = InScope(scopes, x, ItemOf(type)) /\ init \in LegalInits(x, scopes')
  /\ context' = insert_in_last_scope(context, x, ItemOf(type))
  /\ LET r == Declaration(x, type, init, context')
     IN  Outcome(r, WithTop(stack, More(Top, Code(r), <<CodeC("declaration", Code(r))>>)))
         /\ Noted(r, Initialised(x, init), {})
  /\ UNCHANGED <<tags, enumerators>>

(* struct tag { fields } x; with fields, or struct tag x; without: what is *)
(* declared without fields has none that lacks a property.                 *)
DeclareStruct(tag, fields, x) ==
  /\ Form("struct") /\ Top.kind # "switch" /\ Fresh(x)
  /\ fields = << >> <=> tag \in DOMAIN tags
  /\ tags' = IF fields = << >> THEN tags
             ELSE Bound(tags, tag, get_props_of_struct_from_fields(fields))
  /\ scopes' = InScope(scopes, x, Variable(MutOwner, tags'[tag]))
  /\ LET props == get_props_of_struct_from_fields(fields)
     IN  context' = insert_in_last_scope(
                      [context EXCEPT !.types = Bound(@, tag, Struct(props))],
                      x, Variable(MutOwner, props))
  /\ stack' = WithTop(stack, More(Top, <<decl(x)>>, <<CodeC("declaration", <<decl(x)>>)>>))
  /\ notes' = IF fields = << >> THEN notes \cup {"tagOnly"} ELSE notes
  /\ UNCHANGED <<status, enumerators>>

\* Mutant: every enumeration is stored under the same key.
EnumKey_global(tag) == "global_enum"

\* Enumerations without a tag share a key.
EnumKey(tag) == Just(tag, "global_enum", LAMBDA t : t)

(* enum tag { constants } x; where tag and x may be missing.  With an x    *)
(* the variable is declared and the constants are not registered.          *)
DefineEnum(tag, constants, x) ==
  /\ Form("enum") /\ Top.kind # "switch"
  /\ tag \cap DOMAIN tags = {} /\ \A name \in constants \cup x : Fresh(name)
  /\ tags' = [t \in tag \cup DOMAIN tags |-> IF t \in tag THEN {} ELSE tags[t]]
  /\ enumerators' = enumerators \cup constants
  /\ scopes' = [scopes EXCEPT ![Len(scopes)] =
                   [y \in constants \cup x \cup DOMAIN @ |->
                      IF y \in constants THEN Enumerator ELSE IF y \in x THEN ItemOf("enum") ELSE @[y]]]
  /\ LET declared == Just(x, << >>, LAMBDA name : <<decl(name)>>)
     IN  stack' = WithTop(stack, More(Top, declared, <<CodeC("declaration", declared)>>))
  /\ context' = Just(x, [context EXCEPT !.types = Bound(@, EnumKey(tag), Enum(constants))],
                     LAMBDA name : insert_in_last_scope(context, name, ItemOf("enum")))
  /\ notes' = notes \cup (IF x # {} THEN {"enumVariable"} ELSE
                 IF tag # {} THEN {} ELSE
                 IF "untagged" \in notes THEN {"untaggedAgain"} ELSE {"untagged"})
  /\ UNCHANGED status

-----------------------------------------------------------------------------
(* Constructs that open.  An error in the head of a loop leaves the loop's *)
(* scope on the stack; one in the condition of an if is kept for later.    *)

Enter == scopes' = Append(scopes, << >>)

\* The construct opens when its head r, made of exprs, is translated: its body
\* lies in the scopes inner of C.
Opening(r, frame, inner, exprs, note) ==
  /\ Outcome(r, Append(stack, frame))
  /\ Noted(r, exprs, note)
  /\ scopes' = IF r.res = "ok" THEN Append(inner, << >>) ELSE scopes

\* { ... }: no scope of its own; unsafe: { ... } the same.
OpenBlock(kind) ==
  /\ Form(kind) /\ kind \in {"block", "unsafe"} /\ InBody
  /\ stack' = Append(stack, Frame(kind, << >>, << >>))
  /\ Enter
  /\ notes' = notes \cup {"block"}
  /\ UNCHANGED <<context, status, tags, enumerators>>

\* while (e) { ... } and do { ... } while (e)
OpenLoop(kind, e) ==
  /\ Form(kind) /\ kind \in {"while", "do"} /\ InBody /\ e \in LegalIn(scopes, {e})
  /\ context' = create_new_scope(context)
  /\ LET r == transpile_condition_expression(e, context')
         head == IF kind = "while" THEN Code(r) ELSE << >>
     IN  Opening(r, Frame(kind, head, Code(r)), scopes, {e}, {kind})
  /\ UNCHANGED <<tags, enumerators>>

\* Of a for's condition, initialiser and step, translated: the condition comes
\* before the body and after the step.
ForFrame(rs) == Frame("for", Code(rs[2]) \o Code(rs[1]), Code(rs[3]) \o Code(rs[1]))

\* for (type x = e; cond; step) { ... }: the condition is translated first.
OpenFor(x, type, init, cond, step) ==
  /\ Form("for") /\ InBody
  /\ LET inner == InScope(Append(scopes, << >>), x, ItemOf(type))
         opened == create_new_scope(context)
         inside == insert_in_last_scope(opened, x, ItemOf(type))
         condition == transpile_condition_expression(cond, opened)
         rs == <<condition, Declaration(x, type, init, inside),
                 transpile_expression(step, inside)>>
     IN  /\ init \in LegalInits(x, inner) /\ {cond, step} \subseteq LegalIn(inner, {cond, step})
         /\ context' = IF condition.res = "ok" THEN inside ELSE opened
         /\ Opening(All(rs, LAMBDA ok : ok[1]), ForFrame(rs), inner,
                    Initialised(x, init) \cup {cond, step},
                    {"for"} \cup (IF condition.res \in Panics /\ AddressWith(x, cond)
                                    THEN {"ahead"} ELSE {}))
  /\ UNCHANGED <<tags, enumerators>>

\* if (e) { ... }
OpenIf(e) ==
  /\ Form("if") /\ InBody /\ e \in LegalIn(scopes, {e})
  /\ context' = create_new_scope(context)
  /\ LET r == transpile_condition_expression(e, context')
         frame == [Frame("if", Code(r), << >>) EXCEPT !.headOk = r.res = "ok"]
     IN  /\ status' = IF r.res \in Panics THEN r.res ELSE "running"
         /\ stack' = Append(stack, frame)
         /\ Noted(r, {e}, {})
  /\ Enter
  /\ UNCHANGED <<tags, enumerators>>

\* else { ... }: not looked at when the first block does not translate.
Else ==
  /\ status = "running" /\ "else" \in Forms /\ Top.kind = "if" /\ Top.ok
  /\ stack' = WithTop(stack, [Top EXCEPT !.kind = "else", !.first = @ \o Top.out, !.out = << >>,
                                         !.first_src = @ \o Top.src, !.src = << >>])
  /\ scopes' = Append(SubSeq(scopes, 1, Len(scopes) - 1), << >>)
  /\ notes' = notes \cup {"else"}
  /\ UNCHANGED <<context, status, size, tags, enumerators>>

\* switch (e) { ... } creates no scope.
OpenSwitch(e) ==
  /\ Form("switch") /\ InBody /\ e \in LegalIn(scopes, {e})
  /\ LET r == transpile_expression(e, context)
     IN  Opening(r, Frame("switch", Code(r), << >>), scopes, {e}, {"switch"})
  /\ UNCHANGED <<context, tags, enumerators>>

\* case n: { ... }
OpenCase ==
  /\ Form("switch") /\ Top.kind = "switch"
  /\ stack' = Append(stack, Frame("case", << >>, << >>))
  /\ Enter
  /\ UNCHANGED <<context, status, tags, enumerators, notes>>

\* A statement of a switch without a label of its own is an error, and the
\* errors of a switch are filtered out.
Unlabelled(e) ==
  /\ Form("switch") /\ Top.kind = "switch" /\ e \in LegalIn(scopes, {e})
  /\ Noted(Error, {}, {})
  /\ UNCHANGED <<context, stack, status, scopes, tags, enumerators>>

-----------------------------------------------------------------------------
(* Constructs that close.                                                  *)

\* Mutant: the body of a loop does not end with the condition.
Closed_noTail(fr) ==
  CASE fr.kind = "block" -> fr.out
    [] fr.kind = "unsafe" -> <<unsafe(fr.out)>>
    [] fr.kind \in {"while", "do", "for"} -> fr.head \o <<loop(fr.out)>>
    [] fr.kind = "if" -> fr.head \o <<branch(<<fr.out>>)>>
    [] fr.kind = "else" -> fr.head \o <<branch(<<fr.first, fr.out>>)>>
    [] fr.kind = "switch" -> fr.head \o <<branch(fr.first)>>

\* Mutant: the block of an else is dropped.
Closed_noElse(fr) ==
  CASE fr.kind = "block" -> fr.out
    [] fr.kind = "unsafe" -> <<unsafe(fr.out)>>
    [] fr.kind \in {"while", "do", "for"} -> fr.head \o <<loop(fr.out \o fr.tail)>>
    [] fr.kind = "if" -> fr.head \o <<branch(<<fr.out>>)>>
    [] fr.kind = "else" -> fr.head \o <<branch(<<fr.first>>)>>
    [] fr.kind = "switch" -> fr.head \o <<branch(fr.first)>>

\* The statements a construct becomes, and what it is in C.
Closed(fr) ==
  CASE fr.kind = "block" -> fr.out
    [] fr.kind = "unsafe" -> <<unsafe(fr.out)>>
    [] fr.kind \in {"while", "do", "for"} -> fr.head \o <<loop(fr.out \o fr.tail)>>
    [] fr.kind = "if" -> fr.head \o <<branch(<<fr.out>>)>>
    [] fr.kind = "else" -> fr.head \o <<branch(IF fr.out = << >> THEN <<fr.first>>
                                               ELSE <<fr.first, fr.out>>)>>
    [] fr.kind = "switch" -> fr.head \o <<branch(fr.first)>>

ClosedC(fr) ==
  IF fr.kind = "else" THEN C("if", fr.head, fr.first_src, fr.src, << >>)
                      ELSE C(fr.kind, fr.head, fr.src, << >>, fr.tail)

\* Mutant: a block pops a scope as well, though it has none of its own.
OwnsScope_block(fr) == fr.kind \in {"while", "do", "for", "if", "else", "block"}

\* Mutant: a loop does not pop its scope.
OwnsScope_notLoops(fr) == fr.kind \in {"if", "else"}

OwnsScope(fr) == fr.kind \in {"while", "do", "for", "if", "else"}

\* C leaves the scope of the body, and the scope of the header of a for.
Left(kind) == scopes' = SubSeq(scopes, 1, Len(scopes) - (IF kind = "for" THEN 2 ELSE 1))

OneBlock(fr) == fr.kind = "if" \/ (fr.kind = "else" /\ fr.out = << >>)

\* Mutant: the result of a condition is not looked at.
Translated_headless(fr) == fr.ok

Translated(fr) == fr.ok /\ fr.headOk

\* The end of a construct: on an error in its body its scope stays.
Close ==
  /\ status = "running" /\ Top.kind \notin {"unit", "function", "case"}
  /\ stack' = WithTop(Below, IF Translated(Top)
                               THEN More(Below[Len(Below)], Closed(Top), <<ClosedC(Top)>>)
                               ELSE Bad(Below[Len(Below)]))
  /\ context' = IF OwnsScope(Top) /\ Top.ok THEN pop_last_scope(context) ELSE context
  /\ Left(Top.kind)
  /\ notes' = IF OneBlock(Top) THEN notes \cup {"oneBlock"} ELSE notes
  /\ UNCHANGED <<status, size, tags, enumerators>>

\* The end of a case: empty ones and those with errors are filtered out.
CloseCase ==
  /\ status = "running" /\ Top.kind = "case"
  /\ LET parent == Below[Len(Below)]
     IN  stack' = WithTop(Below, IF Top.ok /\ Top.out # << >>
                                   THEN [parent EXCEPT !.first = Append(@, Top.out)]
                                   ELSE parent)
  /\ Left("case")
  /\ UNCHANGED <<context, status, size, tags, enumerators, notes>>

Mutabilities(params) == [n \in DOMAIN params |-> ParameterOf(params[n].type).mutability]

\* type f(params) { ... }, when there is something left to put into it.
OpenFunction(f, params) ==
  /\ status = "running" /\ size < MaxSize /\ "function" \in Forms /\ Top.kind = "unit"
  /\ f \notin DOMAIN scopes[1]
  /\ LET items == [x \in {params[n].name : n \in DOMAIN params} |->
                     ParameterOf((CHOOSE p \in ToSet(params) : p.name = x).type)]
     IN  /\ context' = [context EXCEPT !.scopes = Append(@, items)]
         /\ stack' = Append(stack, [Frame("function", << >>, << >>) EXCEPT
                                      !.name = f, !.params = params])
         /\ scopes' = Append(InScope(scopes, f, Function(Mutabilities(params))), items)
  /\ UNCHANGED <<status, size, tags, enumerators, notes>>

\* Mutant: the scope of the function is popped.
CloseFunction_pop ==
  /\ status = "running" /\ Top.kind = "function"
  /\ LET unit0 == Below[Len(Below)]
     IN  stack' = WithTop(Below, IF Top.ok
           THEN More(unit0, <<fn(Top.name, Top.params, Top.out)>>,
                            <<C("function", << >>, Top.src, << >>, << >>)>>)
           ELSE Bad(unit0))
  /\ context' = pop_last_scope(insert_in_last_scope(context, Top.name, Function(Mutabilities(Top.params))))
  /\ Left("function")
  /\ notes' = notes \cup {"closed"}
  /\ UNCHANGED <<status, size, tags, enumerators>>

\* The function is registered when its body is translated, in the scope that
\* is the last one then; scopes of functions are never popped.
CloseFunction ==
  /\ status = "running" /\ Top.kind = "function"
  /\ LET unit0 == Below[Len(Below)]
     IN  stack' = WithTop(Below, IF Top.ok
           THEN More(unit0, <<fn(Top.name, Top.params, Top.out)>>,
                            <<C("function", << >>, Top.src, << >>, << >>)>>)
           ELSE Bad(unit0))
  /\ context' = IF Top.ok THEN insert_in_last_scope(context, Top.name, Function(Mutabilities(Top.params)))
                          ELSE context
  /\ Left("function")
  /\ notes' = notes \cup {"closed"}
  /\ UNCHANGED <<status, size, tags, enumerators>>

\* The end of the unit: a call of main, or the errors.
CloseUnit ==
  /\ status = "running" /\ Top.kind = "unit"
  /\ status' = IF Top.ok THEN "done" ELSE "failed"
  /\ stack' = WithTop(stack, More(Top, IF Top.ok THEN <<call("main", << >>)>> ELSE << >>, << >>))
  /\ UNCHANGED <<context, size, scopes, tags, enumerators, notes>>

-----------------------------------------------------------------------------
Builtin == [f \in Intrinsics |-> Function(Library[f])]

\* Scope for global variables, with the functions of the library in it.
Init ==
  /\ context = [create_new_scope(NewContext) EXCEPT !.scopes[1] = Builtin]
  /\ stack = <<Frame("unit", << >>, << >>)>>
  /\ status = "running"
  /\ size = 0
  /\ scopes = <<Builtin>>
  /\ tags = << >>
  /\ enumerators = {}
  /\ notes = {}

Next ==
  \/ ExpressionStatement \/ ReturnVoid \/ Unsupported
  \/ \E v \in Variables : Declare(v.name, v.type, v.init)
  \/ \E v \in Structs : DeclareStruct(v.tag, v.fields, v.name)
  \/ \E v \in Enums : DefineEnum(v.tag, v.constants, v.name)
  \/ \E kind \in {"block", "unsafe"} : OpenBlock(kind)
  \/ \E kind \in {"while", "do"}, e \in Conds : OpenLoop(kind, e)
  \/ \E h \in Headers : OpenFor(h.name, h.type, h.init, h.cond, h.step)
  \/ \E e \in Conds : OpenIf(e) \/ OpenSwitch(e) \/ Return(e) \/ Unlabelled(e)
  \/ Else \/ OpenCase
  \/ Close \/ CloseCase
  \/ \E f \in Functions : OpenFunction(f.name, f.params)
  \/ CloseFunction \/ CloseUnit

Spec == Init /\ [][Next]_vars

-----------------------------------------------------------------------------
(***************************************************************************)
(* What C sees is found: a variable in scope in C is in some scope of the  *)
(* transpiler (context.rs:107-124), although constructs push and pop       *)
(* unevenly, errors leave scopes behind and functions keep theirs.  A name *)
(* that is lost makes the transpiler refuse, or panic on, a legal program. *)
(***************************************************************************)
NamesFound ==
  \A x \in Names : IsVariable(scopes, x) => get_variable(context, x) # {}

AsC == \A x \in Names : IsVariable(scopes, x) => get_variable(context, x) = {Meaning(scopes, x)}

(***************************************************************************)
(* A name means to the transpiler what it means in C, shadowing included   *)
(* (context.rs:48-50), in the constructs that have scopes: the first       *)
(* function with loops and ifs without else.  Blocks, cases and elses have *)
(* none of their own, functions and errors leave theirs.                   *)
(***************************************************************************)
ResolvesAsC ==
  status = "running" /\ notes \cap {"block", "else", "switch", "closed", "error", "tagOnly"} = {} => AsC

(***************************************************************************)
(* Of the transpiler's panics on names: "function not find" comes only of  *)
(* an &x given to a function whose definition does not precede the call,   *)
(* or that the library has under other names, as scanf (expression.rs:     *)
(* 160-183); "has not been catched" only of a for whose condition has an   *)
(* address assigned to or of the header's variable, which is declared      *)
(* after it (mod.rs:399-418, loops.rs:46-61); and "should be a reference"  *)
(* only of the same, of s.f = &x, where the structure stands for the       *)
(* member (expression.rs:494-501), or where a scope may have leaked.       *)
(***************************************************************************)
NoPanic ==
  /\ status = "no function" => "early" \in notes
  /\ status = "no variable" => "ahead" \in notes
  /\ status = "no reference" =>
       notes \cap {"block", "else", "switch", "closed", "error", "inMember", "ahead"} # {}

(***************************************************************************)
(* Whatever does not translate fails the translation: an error collected   *)
(* deep in a body reaches the end of the unit (mod.rs:431-463, branch.rs,  *)
(* loops.rs).  A switch filters errors out (mod.rs:498).                   *)
(***************************************************************************)
ErrorsReported == status = "done" /\ "switch" \notin notes => "error" \notin notes

===============================================================================
