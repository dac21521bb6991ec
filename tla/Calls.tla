------------------------------- MODULE Calls -------------------------------
(***************************************************************************)
(* Functions (call.k): a call becomes a block, run in the environment of   *)
(* the caller, that declares and binds the parameters and runs the body;   *)
(* val(e) leaves the blocks of the body with a value, which is compared    *)
(* with the declared type and handed to whoever called.                    *)
(*                                                                         *)
(* The program is the environment here too: the next parameter, its        *)
(* argument, the type and the body are whatever comes next, and a call is  *)
(* of a function of its own (there is no recursion to share one,           *)
(* annexes.tex:561).  A list of arguments of another length than that of   *)
(* the parameters has no rule: such a call goes nowhere and is left out.   *)
(***************************************************************************)
EXTENDS Ownership

CONSTANTS
  CallForms, (* what the program does with calls                           *)
  MaxParams  (* bound: parameters of a function                            *)

(***************************************************************************)
(* "call F(..);", "transfer call F(..) x", "val(call F(..))", a call as an *)
(* argument, and a function that returns a variable it did not declare.    *)
(***************************************************************************)
AllCallForms == {"statement", "transfer", "val", "argument", "outer"}

ASSUME CallFormsAssumption == CallForms \subseteq AllCallForms
ASSUME MaxParamsAssumption == MaxParams \in Nat

VARIABLES
  calls,   (* the pending calls, the innermost first: rest of <k>          *)
  ret      (* the value on its way out of the innermost call, or none      *)

callVars == <<vars, calls, ret>>

-----------------------------------------------------------------------------
none == [kind |-> "none"]
loc(l) == [kind |-> "loc", to |-> l]

\* T:Type.
voidTy == [of |-> "void"]
own(props) == [of |-> "own", props |-> props]
ref == [of |-> "ref"]

Type == {voidTy, ref} \cup [of : {"own"}, props : PropLists]

\* Who waits for the value of a call: a cell, nobody, or another return.
Nobody == -1
Val == -2

variable(x) == [id |-> x, deref |-> FALSE]

Innermost(phase) == calls # << >> /\ Head(calls).phase = phase

\* A program between two statements of its own or of the function it is in.
Running ==
  /\ task = idle /\ ret = none
  /\ calls # << >> => Innermost("body") /\ Depth >= Head(calls).depth

\* #bindParams has more to do.
Binding(phase) == task = idle /\ ret = none /\ Innermost(phase)

\* Mutant: a value is delivered before its blocks are left.
Ended_early ==
  task = idle /\ Innermost("body") /\ (ret # none \/ Depth < Head(calls).depth)

\* The block of the innermost call has ended.
Ended == task = idle /\ Innermost("body") /\ Depth < Head(calls).depth

CallInit == Init /\ calls = << >> /\ ret = none

(***************************************************************************)
(* call F(Es) => { #bindParams(Ps, Es, SS) } ~> T: the block, with the     *)
(* parameters still to declare.  Who waits is "to"; "params" are the       *)
(* parameters declared so far.                                             *)
(***************************************************************************)
Enter(to, pending) ==
  /\ Depth < MaxDepth
  /\ calls' = <<[phase |-> "declare", params |-> {}, type |-> voidTy, to |-> to,
                 depth |-> Depth + 1]>> \o pending
  /\ stack' = <<saved(env, FALSE)>> \o stack
  /\ UNCHANGED <<env, store, timer, index, unsafe, task, wasUnsafe, ret>>

\* call F(..);
Call ==
  /\ "statement" \in CallForms
  /\ Running
  /\ Enter(Nobody, calls)
  /\ UNCHANGED write

\* transfer call F(..) x: the write is logged before the call.
CallInto(x, pending) ==
  /\ timer < MaxTime
  /\ x \in DOMAIN env
  /\ write' = Logged(variable(x))
  /\ Enter(env[x], pending)

TransferCall(x) == "transfer" \in CallForms /\ Running /\ CallInto(x, calls)

\* val(call F(..))
CallVal ==
  /\ "val" \in CallForms
  /\ Running
  /\ calls # << >>
  /\ Enter(Val, calls)
  /\ UNCHANGED write

\* The innermost call when an argument has been bound.
NextParam == <<[Head(calls) EXCEPT !.phase = "declare"]>> \o Tail(calls)

\* #bindParams: decl P, for the next parameter of the list.
BindDecl(x) ==
  /\ Binding("declare")
  /\ x \notin Head(calls).params
  /\ Cardinality(Head(calls).params) < MaxParams
  /\ Decl(x)
  /\ calls' = <<[Head(calls) EXCEPT !.phase = "bind", !.params = @ \cup {x}]>> \o Tail(calls)
  /\ UNCHANGED ret

\* #bindParams: transfer E P, P borrow E or P mborrow E, for the next argument.
BindArg(x) ==
  /\ Binding("bind") /\ Head(stack) = declared(x)
  /\ \/ \E e \in LValue : Transfer(e, variable(x))
     \/ \E p \in PropLists : TransferNew(p, variable(x))
     \/ \E y \in Ids : Borrow(x, y) \/ MBorrow(x, y)
  /\ calls' = NextParam
  /\ UNCHANGED ret

\* #bindParams: transfer call G(..) P, for an argument that is a call.
BindCall(x) ==
  /\ "argument" \in CallForms
  /\ Binding("bind") /\ Head(stack) = declared(x)
  /\ CallInto(x, NextParam)

\* #bindParams(.Parameters, .Exps, SS) => SS; the type of the function is due.
Bound ==
  /\ Binding("declare")
  /\ \E type \in Type :
       calls' = <<[Head(calls) EXCEPT !.phase = "body", !.type = type]>> \o Tail(calls)
  /\ UNCHANGED <<vars, ret>>

\* x is declared in a block of the innermost call.
Local(x) ==
  \E i \in DOMAIN stack :
    /\ stack[i] = declared(x)
    /\ Cardinality({j \in i .. Len(stack) : stack[j].op = "env"}) >= Head(calls).depth

Returning == Running /\ calls # << >>

\* val(newResource(props))
ValNew(props) ==
  /\ Returning
  /\ ret' = rs(props, timer)
  /\ UNCHANGED <<vars, calls>>

\* val(x) of an owner: the properties of its resource, which stays in its cell.
ValOwner(x) ==
  /\ Returning
  /\ x \in DOMAIN env /\ env[x] \in DOMAIN store
  /\ "outer" \in CallForms \/ Local(x)
  /\ LET r == store[env[x]]
     IN  /\ IsRes(r)
         /\ ret' = IF "copy" \in r.props THEN rs(r.props, timer) ELSE r
  /\ UNCHANGED <<vars, calls>>

\* val(x) of a reference: it is read, then the value is where it leads.
ValRef(x) ==
  /\ Returning
  /\ x \in DOMAIN env /\ env[x] \in DOMAIN store
  /\ IsRef(store[env[x]])
  /\ ret' = loc(store[env[x]].to)
  /\ task' = readTask(env[x], idle)
  /\ UNCHANGED <<env, store, stack, write, timer, index, unsafe, wasUnsafe, calls>>

\* V ~> Ss ~> #blockend => #blockend ~> V, for every block of the body.
Unwind ==
  /\ task = idle /\ ret # none
  /\ calls # << >> /\ Depth >= Head(calls).depth
  /\ task' = blockendTask
  /\ UNCHANGED <<env, store, stack, write, timer, index, unsafe, wasUnsafe, calls, ret>>

\* There is no rule for V ~> #unsafeBlockend.
Trapped ==
  /\ ret # none /\ task = blockendTask
  /\ Head(stack).op = "env" /\ Head(stack).unsafe

\* #voidTy => #void: only a body that ends without val gets there.
DeliverVoid ==
  /\ Ended
  /\ ret = none
  /\ Head(calls).type = voidTy /\ Head(calls).to = Nobody
  /\ calls' = Tail(calls)
  /\ UNCHANGED <<vars, ret>>

\* Mutant: what val(call F(..)) returns is put somewhere as well.
DeliverOwner_put ==
  /\ Ended
  /\ IsRes(ret)
  /\ Head(calls).type = own(ret.props)
  /\ LET to == Head(calls).to
     IN  /\ ret' = IF to = Val THEN ret ELSE none
         /\ task' = IF to # Nobody THEN putTask(ret, to) ELSE idle
  /\ calls' = Tail(calls)
  /\ UNCHANGED <<env, store, stack, write, timer, index, unsafe, wasUnsafe>>

\* #rs(PVal) ~> #own(PType), of the same properties.
DeliverOwner ==
  /\ Ended
  /\ IsRes(ret)
  /\ Head(calls).type = own(ret.props)
  /\ LET to == Head(calls).to
     IN  /\ ret' = IF to = Val THEN ret ELSE none
         /\ task' = IF to \in Nat THEN putTask(ret, to) ELSE idle
  /\ calls' = Tail(calls)
  /\ UNCHANGED <<env, store, stack, write, timer, index, unsafe, wasUnsafe>>

\* #loc(L) ~> #ref(..) => #ref(L), which nobody uses.
DropRef ==
  /\ Ended
  /\ ret.kind = "loc"
  /\ Head(calls).type = ref /\ Head(calls).to = Nobody
  /\ calls' = Tail(calls)
  /\ ret' = none
  /\ UNCHANGED vars

\* #Transfer(#ref(F), #loc(L)): whether F's owner may be written decides the kind.
DeliverRef ==
  /\ Ended
  /\ ret.kind = "loc"
  /\ Head(calls).type = ref /\ Head(calls).to \in DOMAIN store
  /\ ret.to \in DOMAIN store /\ IsRes(store[ret.to])
  /\ LET kind == IF "mut" \in store[ret.to].props THEN "mut" ELSE "imm"
     IN  store' = Upd(store, Head(calls).to,
                    br(kind, index, index, ret.to, ResAt(ret.to, store)))
  /\ Tick
  /\ calls' = Tail(calls)
  /\ ret' = none
  /\ UNCHANGED <<env, stack, write, unsafe, task, wasUnsafe>>

-----------------------------------------------------------------------------
CallStatement ==
  \/ Running /\ Statement /\ UNCHANGED <<calls, ret>>
  \/ Call \/ CallVal
  \/ \E x \in Ids : TransferCall(x)
  \/ \E p \in PropLists : ValNew(p)
  \/ \E x \in Ids : ValOwner(x) \/ ValRef(x)

CallRewrite ==
  \/ Rewrite /\ ~Trapped /\ UNCHANGED <<calls, ret>>
  \/ (\E x \in Ids : BindDecl(x) \/ BindArg(x) \/ BindCall(x)) \/ Bound
  \/ Unwind
  \/ DeliverVoid \/ DeliverOwner \/ DropRef \/ DeliverRef

CallNext == CallStatement \/ CallRewrite

CallSpec == CallInit /\ [][CallNext]_callVars /\ WF_callVars(CallRewrite)

-----------------------------------------------------------------------------
IsCall(c) ==
  /\ c.phase \in {"declare", "bind", "body"} /\ c.params \subseteq Ids
  /\ c.type \in Type /\ c.to \in Nat \cup {Nobody, Val} /\ c.depth \in Nat

\* The types of the pending calls and of the value on its way.
CallTypeOK ==
  /\ TypeOK
  /\ \A i \in DOMAIN calls : IsCall(calls[i])
  /\ ret \in {none} \cup Resource \cup [kind : {"loc"}, to : Nat]

\* The environment of the caller: #block saved it for the end of the call.
CallerEnv ==
  LET blocks == {i \in DOMAIN stack : stack[i].op = "env"}
  IN  stack[CHOOSE i \in blocks : \A j \in blocks : i <= j].env

\* Arguments of the innermost call are still to be bound.
Arguing == Binding("declare") \/ Binding("bind")

\* What the caller called x is what an argument that names x gets.
MeansSame(x) == x \in DOMAIN env /\ env[x] = CallerEnv[x]

(***************************************************************************)
(* Arguments mean what the caller meant (call.k:25-70): however the calls  *)
(* among the arguments end, a name that is not one of the parameters       *)
(* declared so far leads to the caller's variable.                         *)
(***************************************************************************)
ArgumentsMeant ==
  Arguing => \A x \in DOMAIN CallerEnv \ Head(calls).params : MeansSame(x)

(***************************************************************************)
(* Binding a parameter creates a unique identifier, "to prevent naming     *)
(* collision" (annexes.tex:534): no name of the caller is hidden from the  *)
(* arguments that are left.                                                *)
(***************************************************************************)
NoCapture == Arguing => \A x \in DOMAIN CallerEnv : MeansSame(x)

(***************************************************************************)
(* There exists only one owner at a time for a resource (concepts.tex:13): *)
(* between two statements no two cells hold the same one.                  *)
(***************************************************************************)
OneOwner ==
  Running => \A a, b \in {l \in DOMAIN store : IsRes(store[l])} :
               store[a].id = store[b].id => a = b

=============================================================================
