---------------------------- MODULE Calls_proofs ----------------------------
(***************************************************************************)
(* Programs with functions, for every set of identifiers, every class of   *)
(* programs and every bound: types, scopes and data-race freedom; then no  *)
(* cell is left behind, arguments mean what the caller meant, and a        *)
(* returned resource has one owner.  A call adds no rule on references:    *)
(* what it does to the cells is a sequence of declarations, transfers,     *)
(* borrows and block ends, except for the reference it makes of a returned *)
(* location.                                                               *)
(***************************************************************************)
EXTENDS Calls, Resources_proofs

CallSet == [phase : {"declare", "bind", "body"}, params : SUBSET Ids, type : Type,
            to : Nat \cup {Nobody, Val}, depth : Nat]

Returned == {none} \cup Resource \cup [kind : {"loc"}, to : Nat]

CallInv == BlockInv /\ calls \in Seq(CallSet) /\ ret \in Returned

-----------------------------------------------------------------------------
LEMMA CallFields ==
  ASSUME NEW c \in CallSet
  PROVE  /\ c.phase \in {"declare", "bind", "body"} /\ c.params \subseteq Ids
         /\ c.type \in Type /\ c.to \in Nat \cup {Nobody, Val} /\ c.depth \in Nat
BY DEF CallSet

LEMMA VoidIsType == voidTy \in Type
BY DEF voidTy, Type

LEMMA PushCall ==
  ASSUME NEW s \in Seq(CallSet), NEW c \in CallSet
  PROVE  <<c>> \o s \in Seq(CallSet)
<1>1. <<c>> \in Seq(CallSet)
  OBVIOUS
<1> QED
  BY <1>1, ConcatProperties

LEMMA PopCall ==
  ASSUME NEW s \in Seq(CallSet), s # << >>
  PROVE  Head(s) \in CallSet /\ Tail(s) \in Seq(CallSet)
BY HeadTailProperties

\* The innermost call in another phase.
LEMMA PhaseKeeps ==
  ASSUME NEW s \in Seq(CallSet), s # << >>
  PROVE  /\ <<[Head(s) EXCEPT !.phase = "declare"]>> \o Tail(s) \in Seq(CallSet)
         /\ \A x \in Ids :
              <<[Head(s) EXCEPT !.phase = "bind", !.params = @ \cup {x}]>> \o Tail(s)
                \in Seq(CallSet)
         /\ \A t \in Type :
              <<[Head(s) EXCEPT !.phase = "body", !.type = t]>> \o Tail(s)
                \in Seq(CallSet)
<1> DEFINE c == Head(s)
<1>1. c \in CallSet /\ Tail(s) \in Seq(CallSet)
  BY PopCall
<1> HIDE DEF c
<1>2. [c EXCEPT !.phase = "declare"] \in CallSet
  BY <1>1 DEF CallSet
<1>3. \A x \in Ids : [c EXCEPT !.phase = "bind", !.params = @ \cup {x}] \in CallSet
  BY <1>1 DEF CallSet
<1>4. \A t \in Type : [c EXCEPT !.phase = "body", !.type = t] \in CallSet
  BY <1>1 DEF CallSet
<1> QED
  BY <1>1, <1>2, <1>3, <1>4, PushCall DEF c

LEMMA DepthIsNat == ASSUME BlockInv PROVE Depth \in Nat
<1> DEFINE D == {i \in DOMAIN stack : stack[i].op = "env"}
<1>1. Len(stack) \in Nat /\ DOMAIN stack = 1 .. Len(stack)
  BY DEF BlockInv, IInv, Scopes
<1>2. IsFiniteSet(1 .. Len(stack))
  BY <1>1, FS_Interval
<1>3. IsFiniteSet(D)
  BY <1>1, <1>2, FS_Subset
<1> QED
  BY <1>3, FS_CardinalityType DEF Depth

LEMMA variableIsLValue == \A x \in Ids : variable(x) \in LValue /\ variable(x).id = x
BY DEF variable, LValue

-----------------------------------------------------------------------------
(* The actions.                                                            *)

LEMMA InitCallInv == CallInit => CallInv
BY InitBlockInv DEF CallInit, CallInv, Returned

\* The block of a call.
LEMMA EnterStep ==
  ASSUME CallInv, task = idle,
         NEW to \in Nat \cup {Nobody, Val}, NEW pending \in Seq(CallSet),
         Enter(to, pending), StoreInv'
  PROVE  CallInv'
<1>1. Scopes'
  BY PushKeeps, FrameTypes, EnvInSet DEF Enter, CallInv, BlockInv, IInv, Scopes
<1>2. IInv'
  BY <1>1 DEF Enter, CallInv, BlockInv, IInv, Clock, Modes
<1>3. BlockInv'
  BY <1>2, SaveBlocks DEF Enter, CallInv
<1> DEFINE c == [phase |-> "declare", params |-> {}, type |-> voidTy, to |-> to,
                 depth |-> Depth + 1]
<1>4. Depth + 1 \in Nat
  BY DepthIsNat DEF CallInv
<1>5. c \in CallSet
  BY <1>4, VoidIsType DEF CallSet
<1>6. calls' = <<c>> \o pending
  BY DEF Enter
<1> HIDE DEF c
<1>7. calls' \in Seq(CallSet)
  BY <1>5, <1>6, PushCall
<1> QED
  BY <1>3, <1>7 DEF Enter, CallInv

LEMMA CallIntoStep ==
  ASSUME CallInv, task = idle, NEW x \in Ids, NEW pending \in Seq(CallSet),
         CallInto(x, pending)
  PROVE  CallInv'
<1>1. env[x] \in Nat
  BY EnvRange DEF CallInto, CallInv, BlockInv, IInv, Scopes
<1>2. write' \in Log(timer) /\ StoreOK(store, write', timer, ~wasUnsafe)
  BY LoggedKeeps, variableIsLValue DEF CallInto, CallInv, BlockInv
<1>3. StoreInv'
  BY <1>2 DEF CallInto, Enter, StoreInv
<1> QED
  BY <1>1, <1>3, EnterStep DEF CallInto

LEMMA CallStep == ASSUME CallInv, Call \/ CallVal PROVE CallInv'
<1>1. task = idle /\ StoreInv'
  BY DEF Call, CallVal, Running, Enter, CallInv, BlockInv, IInv, StoreInv
<1> QED
  BY <1>1, EnterStep DEF Call, CallVal, CallInv

LEMMA TransferCallStep ==
  ASSUME CallInv, NEW x \in Ids, TransferCall(x) PROVE CallInv'
BY CallIntoStep DEF TransferCall, Running, CallInv

LEMMA BindDeclStep == ASSUME CallInv, NEW x \in Ids, BindDecl(x) PROVE CallInv'
<1>1. BlockInv'
  BY DeclBlocks DEF BindDecl, CallInv
<1>2. calls' \in Seq(CallSet)
  BY PhaseKeeps DEF BindDecl, Binding, Innermost, CallInv
<1> QED
  BY <1>1, <1>2 DEF BindDecl, CallInv

LEMMA BindArgStep == ASSUME CallInv, NEW x \in Ids, BindArg(x) PROVE CallInv'
<1>1. \/ \E p \in PropLists, t \in LValue : TransferNew(p, t)
      \/ \E e, t \in LValue : Transfer(e, t)
      \/ \E z, y \in Ids : Borrow(z, y) \/ MBorrow(z, y)
  BY variableIsLValue DEF BindArg
<1>2. BlockInv'
  BY <1>1, QuietStatement DEF CallInv
<1>3. calls' \in Seq(CallSet)
  BY PhaseKeeps DEF BindArg, Binding, Innermost, NextParam, CallInv
<1> QED
  BY <1>2, <1>3 DEF BindArg, CallInv

LEMMA BindCallStep == ASSUME CallInv, NEW x \in Ids, BindCall(x) PROVE CallInv'
<1>1. NextParam \in Seq(CallSet)
  BY PhaseKeeps DEF BindCall, Binding, Innermost, NextParam, CallInv
<1> QED
  BY <1>1, CallIntoStep DEF BindCall, Binding

\* Steps that change no cell of the state but what is left to do.
LEMMA TaskStep ==
  ASSUME CallInv, UNCHANGED <<env, store, stack, write, timer, index, unsafe, wasUnsafe>>,
         task' \in Task, task.op # "blockend" \/ task'.op = "blockend",
         calls' \in Seq(CallSet), ret' \in Returned
  PROVE  CallInv'
<1>1. IInv' /\ index \in Nat
  BY DEF CallInv, BlockInv, IInv, Clock, Modes, Scopes, StoreInv
<1>2. BlockInv'
  BY <1>1, QuietStep DEF CallInv
<1> QED
  BY <1>2 DEF CallInv

LEMMA BoundStep == ASSUME CallInv, Bound PROVE CallInv'
<1>1. calls' \in Seq(CallSet)
  BY PhaseKeeps DEF Bound, Binding, Innermost, CallInv
<1>2. task.op # "blockend" /\ task \in Task
  BY DEF Bound, Binding, idle, CallInv, BlockInv, IInv
<1> QED
  BY <1>1, <1>2, TaskStep DEF Bound, vars, CallInv

LEMMA ValNewStep ==
  ASSUME CallInv, NEW p \in PropLists, ValNew(p) PROVE CallInv'
<1>1. ret' \in Returned
  BY PropsAssumption
     DEF ValNew, rs, Resource, Returned, CallInv, BlockInv, IInv, Clock
<1>2. task.op # "blockend" /\ task \in Task
  BY DEF ValNew, Returning, Running, idle, CallInv, BlockInv, IInv
<1> QED
  BY <1>1, <1>2, TaskStep DEF ValNew, vars, CallInv

LEMMA ValOwnerStep ==
  ASSUME CallInv, NEW x \in Ids, ValOwner(x) PROVE CallInv'
<1> DEFINE r == store[env[x]]
<1>1. r \in Resource
  BY CellType, OwnedIsResource DEF ValOwner, CallInv, BlockInv, IsRes
<1>2. rs(r.props, timer) \in Resource
  BY <1>1 DEF rs, Resource, CallInv, BlockInv, IInv, Clock
<1>3. ret' = IF "copy" \in r.props THEN rs(r.props, timer) ELSE r
  BY DEF ValOwner
<1> HIDE DEF r
<1>4. ret' \in Returned
  BY <1>1, <1>2, <1>3 DEF Returned
<1>5. task.op # "blockend" /\ task \in Task
  BY DEF ValOwner, Returning, Running, idle, CallInv, BlockInv, IInv
<1> QED
  BY <1>4, <1>5, TaskStep DEF ValOwner, vars, CallInv

LEMMA ValRefStep ==
  ASSUME CallInv, NEW x \in Ids, ValRef(x) PROVE CallInv'
<1>1. store[env[x]] \in Value /\ env[x] \in Nat
  BY CellType DEF ValRef, CallInv, BlockInv
<1>2. store[env[x]].to \in Nat
  BY <1>1, ReferenceFields DEF ValRef
<1>3. ret' \in Returned
  BY <1>2 DEF ValRef, loc, Returned
<1>4. task' \in Task
  BY <1>1, TaskTypes DEF ValRef
<1>5. task.op # "blockend"
  BY DEF ValRef, Returning, Running, idle
<1> QED
  BY <1>3, <1>4, <1>5, TaskStep DEF ValRef, CallInv

LEMMA UnwindStep == ASSUME CallInv, Unwind PROVE CallInv'
BY TaskStep, TaskTypes DEF Unwind, CallInv, blockendTask

LEMMA DeliverVoidStep == ASSUME CallInv, DeliverVoid PROVE CallInv'
<1>1. calls' \in Seq(CallSet)
  BY PopCall DEF DeliverVoid, Ended, Innermost, CallInv
<1>2. task.op # "blockend" /\ task \in Task
  BY DEF DeliverVoid, Ended, idle, CallInv, BlockInv, IInv
<1> QED
  BY <1>1, <1>2, TaskStep DEF DeliverVoid, vars, CallInv

LEMMA DropRefStep == ASSUME CallInv, DropRef PROVE CallInv'
<1>1. calls' \in Seq(CallSet)
  BY PopCall DEF DropRef, Ended, Innermost, CallInv
<1>2. task.op # "blockend" /\ task \in Task
  BY DEF DropRef, Ended, idle, CallInv, BlockInv, IInv
<1> QED
  BY <1>1, <1>2, TaskStep DEF DropRef, vars, CallInv, Returned

LEMMA DeliverOwnerStep == ASSUME CallInv, DeliverOwner PROVE CallInv'
<1>1. calls' \in Seq(CallSet)
  BY PopCall DEF DeliverOwner, Ended, Innermost, CallInv
<1>2. ret \in Resource
  BY DEF DeliverOwner, CallInv, Returned, none, IsRes
<1>3. task.op # "blockend"
  BY DEF DeliverOwner, Ended, idle
<1>4. task' \in Task
  BY <1>2, TaskTypes DEF DeliverOwner
<1>5. ret' \in Returned
  BY <1>2 DEF DeliverOwner, Returned
<1> QED
  BY <1>1, <1>3, <1>4, <1>5, TaskStep DEF DeliverOwner, CallInv

\* The reference a call returns is created now, like any other.
LEMMA DeliverRefStep == ASSUME CallInv, DeliverRef PROVE CallInv'
<1> DEFINE l == Head(calls).to
           kind == IF "mut" \in store[ret.to].props THEN "mut" ELSE "imm"
           saw == ResAt(ret.to, store)
<1>1. /\ l \in DOMAIN store /\ ret.to \in DOMAIN store
      /\ store' = Upd(store, l, br(kind, index, index, ret.to, saw))
      /\ Tick /\ UNCHANGED <<env, stack, write, unsafe, task, wasUnsafe>>
      /\ task = idle
  BY DEF DeliverRef, Ended
<1>2. l \in Nat /\ ret.to \in Nat /\ kind \in {"imm", "mut"}
  BY <1>1, CellType DEF CallInv, BlockInv
<1>3. saw \in Nat \cup {NoRes}
  BY ResAtType DEF CallInv, BlockInv, IInv, StoreInv, StoreOK
<1> HIDE DEF l, kind, saw
<1>4. IInv
  BY DEF CallInv, BlockInv
<1>5. StoreOK(store', write, timer, ~wasUnsafe)
  BY <1>1, <1>2, <1>3, <1>4, NewKeeps DEF IInv, Clock, StoreInv
<1>6. Clock' /\ StoreInv'
  BY <1>1, <1>4, <1>5, Ticked
<1>7. IInv' /\ index \in Nat /\ index' = index + 1
  BY <1>1, <1>4, <1>6 DEF IInv, Modes, Scopes, Clock, Tick
<1>8. DOMAIN store \subseteq DOMAIN store'
  BY <1>1 DEF Upd
<1>9. BlockInv'
  BY <1>1, <1>7, <1>8, QuietStep DEF CallInv, idle
<1>10. calls' \in Seq(CallSet)
  BY PopCall DEF DeliverRef, Ended, Innermost, CallInv
<1> QED
  BY <1>9, <1>10 DEF DeliverRef, CallInv, Returned

-----------------------------------------------------------------------------
LEMMA NextCallInv == CallInv /\ [CallNext]_callVars => CallInv'
<1> SUFFICES ASSUME CallInv, [CallNext]_callVars PROVE CallInv'
  OBVIOUS
<1>1. CASE UNCHANGED callVars
  BY <1>1, NextBlockInv DEF callVars, CallInv
<1>2. CASE CallStatement
  <2>1. CASE Running /\ Statement /\ UNCHANGED <<calls, ret>>
    BY <2>1, StatementBlocks DEF CallInv
  <2> QED
    BY <1>2, <2>1, CallStep, TransferCallStep, ValNewStep, ValOwnerStep, ValRefStep
       DEF CallStatement
<1>3. CASE CallRewrite
  <2>1. CASE Rewrite /\ UNCHANGED <<calls, ret>>
    BY <2>1, RewriteBlocks DEF CallInv
  <2> QED
    BY <1>3, <2>1, BindDeclStep, BindArgStep, BindCallStep, BoundStep, UnwindStep,
       DeliverVoidStep, DeliverOwnerStep, DropRefStep, DeliverRefStep
       DEF CallRewrite
<1> QED
  BY <1>1, <1>2, <1>3 DEF CallNext

LEMMA CallInvariance == CallSpec => []CallInv
BY InitCallInv, NextCallInv, PTL DEF CallSpec

LEMMA CallInvTypeOK == CallInv => CallTypeOK
<1> SUFFICES ASSUME CallInv PROVE CallTypeOK
  OBVIOUS
<1>1. TypeOK
  BY IInvTypeOK DEF CallInv, BlockInv
<1>2. \A i \in DOMAIN calls : IsCall(calls[i])
  <2>1. \A i \in DOMAIN calls : calls[i] \in CallSet
    BY DEF CallInv
  <2> QED
    BY <2>1, CallFields DEF IsCall
<1> QED
  BY <1>1, <1>2 DEF CallTypeOK, CallInv, Returned

LEMMA CallInvRaces == CallInv => NoDataRace /\ WritesExclusive
BY IInvNoDataRace, IInvWritesExclusive DEF CallInv, BlockInv

LEMMA CallInvScopes == CallInv => ScopesLive /\ UnsafeInside
BY BlockInvScopesLive, BlockInvUnsafe DEF CallInv

(***************************************************************************)
(* Type correctness of programs with functions: binding the parameters,    *)
(* leaving a body with a value and handing it over (call.k:25-70) keep     *)
(* every cell of a <state>, every pending call and the value on its way    *)
(* within their types.                                                     *)
(***************************************************************************)
THEOREM CallsTypeCorrect == CallSpec => []CallTypeOK
BY CallInvariance, CallInvTypeOK, PTL

(***************************************************************************)
(* A call runs in the environment of its caller and its body is left early *)
(* by val(e), block by block (block.k:18-24): the variables of the blocks  *)
(* that are still open keep their cells, also when an argument is itself a *)
(* call or a parameter hides a variable of the caller.                     *)
(***************************************************************************)
THEOREM CallsKeepScopes == CallSpec => []ScopesLive
BY CallInvariance, CallInvScopes, PTL

(***************************************************************************)
(* Data-race freedom of programs with functions (osl.k:212-340, call.k:    *)
(* 25-70): references that are passed, returned and made of a returned    *)
(* location never give a target a mutable reference in use together with   *)
(* another one.                                                            *)
(***************************************************************************)
THEOREM CallsDataRaceFreedom == CallSpec => [](NoDataRace /\ WritesExclusive)
BY CallInvariance, CallInvRaces, PTL

-----------------------------------------------------------------------------
(* The steps of a program with functions, by what they do to a <state>.    *)

\* The block of a call is entered.
Entered ==
  \E to \in Nat \cup {Nobody, Val}, pending \in Seq(CallSet) :
    /\ Enter(to, pending)
    /\ to \in Nat => to \in DOMAIN store
    /\ \/ Running /\ pending = calls /\ (to = Val => calls # << >>)
       \/ Binding("bind") /\ pending = NextParam /\ to \in Nat

\* Nothing but what is left to do changes.
Waits ==
  /\ UNCHANGED <<env, store, stack, write, timer, index, unsafe, wasUnsafe>>
  /\ task = idle
  /\ task' \in {idle, blockendTask} \/ \E l : task' = readTask(l, idle)

LEMMA CallerCell ==
  ASSUME CallInv, task = idle, NEW x \in DOMAIN env
  PROVE  env[x] \in DOMAIN store /\ env[x] \in Nat
BY EnvRange, TaskShapes DEF CallInv, BlockInv, IInv, Scopes, Leads

LEMMA TransferEntered ==
  ASSUME CallInv, NEW x \in Ids, CallInto(x, calls), Running
  PROVE  Entered
<1>1. env[x] \in DOMAIN store /\ env[x] \in Nat /\ Enter(env[x], calls)
  BY CallerCell DEF CallInto, Running
<1> QED
  BY <1>1 DEF Entered, CallInv, Val

LEMMA BindEntered ==
  ASSUME CallInv, NEW x \in Ids, BindCall(x)
  PROVE  Entered
<1>1. env[x] \in DOMAIN store /\ env[x] \in Nat
  BY CallerCell DEF BindCall, CallInto, Binding
<1>2. Enter(env[x], NextParam) /\ Binding("bind")
  BY DEF BindCall, CallInto
<1>3. NextParam \in Seq(CallSet)
  BY <1>2, PhaseKeeps DEF Binding, Innermost, NextParam, CallInv
<1> QED
  BY <1>1, <1>2, <1>3 DEF Entered

LEMMA CallEntered == ASSUME CallInv, Call \/ CallVal PROVE Entered
<1>1. Running /\ (Enter(Nobody, calls) \/ (Enter(Val, calls) /\ calls # << >>))
  BY DEF Call, CallVal
<1> QED
  BY <1>1 DEF Entered, CallInv, Nobody, Val

LEMMA CallCases ==
  ASSUME CallInv, CallNext
  PROVE  Statement \/ Rewrite \/ Entered \/ Waits \/ DeliverOwner \/ DeliverRef
<1>1. ASSUME NEW x \in Ids, TransferCall(x) PROVE Entered
  BY <1>1, TransferEntered DEF TransferCall
<1>4. ASSUME NEW p, ValNew(p) PROVE Waits
  BY <1>4 DEF ValNew, Returning, Running, Waits, vars
<1>5. ASSUME NEW x, ValOwner(x) \/ ValRef(x) PROVE Waits
  BY <1>5 DEF ValOwner, ValRef, Returning, Running, Waits, vars
<1>6. ASSUME Bound \/ Unwind \/ DeliverVoid \/ DropRef PROVE Waits
  BY <1>6 DEF Bound, Binding, Unwind, DeliverVoid, DropRef, Ended, Waits, vars
<1>7. ASSUME NEW x \in Ids, BindDecl(x) \/ BindArg(x) PROVE Statement
  BY <1>7, variableIsLValue DEF BindDecl, BindArg, Statement
<1> QED
  BY <1>1, <1>4, <1>5, <1>6, <1>7, BindEntered, CallEntered
     DEF CallNext, CallStatement, CallRewrite

-----------------------------------------------------------------------------
(* Locations and resources that were given out.                            *)

CallsFit ==
  /\ \A i \in DOMAIN calls : calls[i].to \in Nat => calls[i].to \in Given(timer)
  /\ ret.kind = "loc" => ret.to \in Given(timer)
  /\ ret.kind = "rs" => ret.id <= timer

CallFitInv == CallInv /\ FitInv /\ CallsFit

LEMMA WaitsCarried == ASSUME CallFitInv, Waits PROVE Resourceful
<1>1. store' = store /\ timer' = timer /\ task.op # "put"
  BY TaskShapes DEF Waits
<1>2. task'.op # "put" /\ AfterReads(task') \in {idle, blockendTask}
  BY TaskShapes DEF Waits
<1>3. Carried(task', store', timer')
  BY <1>2, TaskShapes DEF Carried
<1>4. Implements
  BY <1>1, <1>2, Stutters DEF Moved
<1> QED
  BY <1>1, <1>3, <1>4 DEF Resourceful, CallFitInv, FitInv

LEMMA EnteredCarried == ASSUME CallFitInv, Entered PROVE Resourceful
<1>1. store' = store /\ timer' = timer /\ task = idle /\ task' = idle
  BY DEF Entered, Enter, Running, Binding
<1>2. Carried(task', store', timer')
  BY <1>1, NothingCarried
<1>3. Implements
  BY <1>1, TaskShapes, Stutters DEF Moved
<1> QED
  BY <1>1, <1>2, <1>3 DEF Resourceful, CallFitInv, FitInv

LEMMA DeliverRefCarried == ASSUME CallFitInv, DeliverRef PROVE Resourceful
<1> DEFINE l == Head(calls).to
           kind == IF "mut" \in store[ret.to].props THEN "mut" ELSE "imm"
           v == br(kind, index, index, ret.to, ResAt(ret.to, store))
<1>1. /\ l \in DOMAIN store /\ ret.to \in DOMAIN store
      /\ store' = Upd(store, l, v) /\ Tick /\ task = idle /\ task' = idle
  BY DEF DeliverRef, Ended
<1>2. ~IsRes(v) /\ v.to = ret.to
  BY BrFields
<1> HIDE DEF v, l
<1>3. l \in Given(timer) /\ ret.to \in Given(timer) /\ l \in Given(timer + 1)
  BY <1>1, GivenPlaces, GivenLater DEF CallFitInv, FitInv, Fits
<1> QED
  BY <1>1, <1>2, <1>3, TaskShapes, TickAndDrop DEF CallFitInv

LEMMA DeliverOwnerCarried ==
  ASSUME CallFitInv, DeliverOwner
  PROVE  /\ store' = store /\ timer' = timer /\ task = idle
         /\ \/ task' = idle
            \/ task' = putTask(ret, Head(calls).to) /\ Head(calls).to \in Given(timer)
         /\ Fits(store', timer') /\ Carried(task', store', timer')
<1>1. store' = store /\ timer' = timer /\ task = idle /\ IsRes(ret) /\ calls # << >>
  BY DEF DeliverOwner, Ended, Innermost
<1>2. /\ \/ task' = idle
         \/ task' = putTask(ret, Head(calls).to) /\ Head(calls).to \in Nat
  BY DEF DeliverOwner
<1>3. Head(calls) = calls[1] /\ 1 \in DOMAIN calls
  BY <1>1, HeadTailProperties DEF CallFitInv, CallInv
<1>4. ret.id <= timer
  BY <1>1 DEF CallFitInv, CallsFit, IsRes
<1>5. Head(calls).to \in Nat => Head(calls).to \in Given(timer)
  BY <1>3 DEF CallFitInv, CallsFit
<1>6. Carried(task', store', timer')
  <2>1. CASE task' = idle
    BY <2>1, NothingCarried
  <2>2. CASE task' = putTask(ret, Head(calls).to) /\ Head(calls).to \in Nat
    <3>1. /\ task'.op = "put" /\ task'.res = ret /\ task'.to = Head(calls).to
          /\ AfterReads(task') = task'
      BY <2>2, TaskShapes
    <3> QED
      BY <1>1, <1>4, <1>5, <2>2, <3>1 DEF Carried
  <2> QED
    BY <1>2, <2>1, <2>2
<1> QED
  BY <1>1, <1>2, <1>5, <1>6 DEF CallFitInv, FitInv

-----------------------------------------------------------------------------
(* Pending calls.                                                          *)

LEMMA PushCallShape ==
  ASSUME NEW s \in Seq(CallSet), NEW c \in CallSet
  PROVE  LET t == <<c>> \o s
         IN  /\ t # << >> /\ Head(t) = c /\ t[1] = c
             /\ DOMAIN t = 1 .. Len(s) + 1 /\ DOMAIN s = 1 .. Len(s) /\ Len(s) \in Nat
             /\ \A i \in DOMAIN t : i # 1 => i - 1 \in DOMAIN s /\ t[i] = s[i - 1]
<1> DEFINE t == <<c>> \o s
<1>1. <<c>> \in Seq(CallSet) /\ Len(<<c>>) = 1 /\ <<c>>[1] = c
  OBVIOUS
<1>2. /\ t \in Seq(CallSet) /\ Len(t) = Len(s) + 1 /\ t[1] = c
      /\ DOMAIN t = 1 .. Len(s) + 1 /\ DOMAIN s = 1 .. Len(s) /\ Len(s) \in Nat
      /\ \A i \in DOMAIN t : i # 1 => i - 1 \in DOMAIN s /\ t[i] = s[i - 1]
  BY <1>1, ConcatProperties
<1> HIDE DEF t
<1>3. t # << >> /\ Head(t) = c
  BY <1>2, HeadTailProperties
<1> QED
  BY <1>2, <1>3 DEF t

LEMMA PopCallShape ==
  ASSUME NEW s \in Seq(CallSet), s # << >>
  PROVE  /\ Tail(s) \in Seq(CallSet) /\ Head(s) = s[1] /\ Head(s) \in CallSet
         /\ 1 \in DOMAIN s /\ DOMAIN s = 1 .. Len(s)
         /\ DOMAIN Tail(s) \subseteq Nat \ {0}
         /\ \A i \in DOMAIN Tail(s) : i + 1 \in DOMAIN s /\ Tail(s)[i] = s[i + 1]
         /\ \A i \in DOMAIN s : i # 1 => i - 1 \in DOMAIN Tail(s)
         /\ Tail(s) # << >> => Head(Tail(s)) = s[2] /\ 2 \in DOMAIN s
BY HeadTailProperties

\* The innermost call changes.
LEMMA HeadCallShape ==
  ASSUME NEW s \in Seq(CallSet), s # << >>, NEW c \in CallSet
  PROVE  LET t == <<c>> \o Tail(s)
         IN  /\ t # << >> /\ Head(t) = c /\ t[1] = c /\ DOMAIN t = DOMAIN s
             /\ \A i \in DOMAIN s : i # 1 => t[i] = s[i]
<1>1. /\ Tail(s) \in Seq(CallSet) /\ DOMAIN s = 1 .. Len(s) /\ 1 \in DOMAIN s
      /\ Len(Tail(s)) + 1 = Len(s)
      /\ \A i \in DOMAIN Tail(s) : i + 1 \in DOMAIN s /\ Tail(s)[i] = s[i + 1]
  BY HeadTailProperties
<1> DEFINE r == Tail(s)
           t == <<c>> \o r
<1> HIDE DEF r
<1>2. /\ t # << >> /\ Head(t) = c /\ t[1] = c
      /\ DOMAIN t = 1 .. Len(r) + 1
      /\ \A i \in DOMAIN t : i # 1 => i - 1 \in DOMAIN r /\ t[i] = r[i - 1]
  BY <1>1, PushCallShape DEF r
<1> HIDE DEF t
<1>3. DOMAIN t = DOMAIN s
  BY <1>1, <1>2 DEF r
<1>4. ASSUME NEW i \in DOMAIN s, i # 1 PROVE t[i] = s[i]
  <2>1. i - 1 \in DOMAIN r /\ t[i] = r[i - 1] /\ (i - 1) + 1 = i
    BY <1>1, <1>2, <1>3, <1>4
  <2> QED
    BY <1>1, <2>1 DEF r
<1> QED
  BY <1>2, <1>3, <1>4 DEF r, t

\* The innermost call goes on with its parameters or its body.
Rephased ==
  /\ calls # << >> /\ task = idle
  /\ \E c \in CallSet :
       /\ calls' = <<c>> \o Tail(calls)
       /\ c.depth = Head(calls).depth /\ c.to = Head(calls).to

Delivers == DeliverVoid \/ DropRef \/ DeliverOwner \/ DeliverRef

LEMMA CallsChange ==
  ASSUME CallInv, [CallNext]_callVars
  PROVE  calls' = calls \/ Rephased \/ Entered \/ Delivers
<1>1. ASSUME NEW x \in Ids, BindDecl(x) PROVE Rephased
  <2>1. calls # << >> /\ task = idle
    BY <1>1 DEF BindDecl, Binding, Innermost
  <2> DEFINE h == Head(calls)
             c == [h EXCEPT !.phase = "bind", !.params = @ \cup {x}]
  <2>2. h \in CallSet
    BY <2>1, PopCallShape DEF CallInv
  <2>3. calls' = <<c>> \o Tail(calls)
    BY <1>1 DEF BindDecl
  <2> HIDE DEF h
  <2>4. c \in CallSet /\ c.depth = h.depth /\ c.to = h.to
    BY <2>2 DEF CallSet
  <2> QED
    BY <2>1, <2>3, <2>4 DEF Rephased, h
<1>2. ASSUME NEW x \in Ids, BindArg(x) PROVE Rephased
  <2>1. calls # << >> /\ task = idle
    BY <1>2 DEF BindArg, Binding, Innermost
  <2> DEFINE h == Head(calls)
             c == [h EXCEPT !.phase = "declare"]
  <2>2. h \in CallSet
    BY <2>1, PopCallShape DEF CallInv
  <2>3. calls' = <<c>> \o Tail(calls)
    BY <1>2 DEF BindArg, NextParam
  <2> HIDE DEF h
  <2>4. c \in CallSet /\ c.depth = h.depth /\ c.to = h.to
    BY <2>2 DEF CallSet
  <2> QED
    BY <2>1, <2>3, <2>4 DEF Rephased, h
<1>3. ASSUME Bound PROVE Rephased
  <2>1. calls # << >> /\ task = idle
    BY <1>3 DEF Bound, Binding, Innermost
  <2> DEFINE h == Head(calls)
             c(t) == [h EXCEPT !.phase = "body", !.type = t]
  <2>2. h \in CallSet
    BY <2>1, PopCallShape DEF CallInv
  <2>3. PICK t \in Type : calls' = <<c(t)>> \o Tail(calls)
    BY <1>3 DEF Bound
  <2> HIDE DEF h
  <2>4. c(t) \in CallSet /\ c(t).depth = h.depth /\ c(t).to = h.to
    BY <2>2 DEF CallSet
  <2> QED
    BY <2>1, <2>3, <2>4 DEF Rephased, h
<1>4. ASSUME (\E x \in Ids : TransferCall(x) \/ BindCall(x)) \/ Call \/ CallVal PROVE Entered
  <2>1. CASE Call \/ CallVal
    BY <2>1, CallEntered
  <2>2. ASSUME NEW x \in Ids, TransferCall(x) PROVE Entered
    BY <2>2, TransferEntered DEF TransferCall
  <2>3. ASSUME NEW x \in Ids, BindCall(x) PROVE Entered
    BY <2>3, BindEntered
  <2> QED
    BY <1>4, <2>1, <2>2, <2>3
<1>5. ASSUME UNCHANGED callVars PROVE calls' = calls
  BY <1>5 DEF callVars
<1> QED
  BY <1>1, <1>2, <1>3, <1>4, <1>5
     DEF CallNext, CallStatement, CallRewrite, Unwind, ValNew, ValOwner, ValRef, Delivers

-----------------------------------------------------------------------------
(* Every call waits for a location that was given out.                     *)

LEMMA ClockSteps == Implements => timer' \in {timer, timer + 1}
BY DEF Implements, U!Next, U!vars, U!Create, U!Lift, U!Land, U!Drop

LEMMA CallResources ==
  ASSUME CallFitInv, [CallNext]_callVars
  PROVE  /\ Fits(store', timer') /\ Carried(task', store', timer')
         /\ timer' \in {timer, timer + 1}
         /\ Implements \/ DeliverOwner
<1>1. CASE UNCHANGED callVars
  BY <1>1, Stutters DEF callVars, vars, CallFitInv, FitInv
<1>2. CASE DeliverOwner
  BY <1>2, DeliverOwnerCarried
<1>3. CASE Resourceful
  BY <1>3, ClockSteps DEF Resourceful
<1> QED
  BY <1>1, <1>2, <1>3, CallCases, StatementResources, RewriteResources,
     EnteredCarried, WaitsCarried, DeliverRefCarried DEF CallFitInv

\* What a call is about to return.
LEMMA RetChange ==
  ASSUME CallFitInv, [CallNext]_callVars
  PROVE  \/ ret' = ret \/ ret' = none
         \/ \E p : ret' = rs(p, timer)
         \/ \E l \in DOMAIN store : IsRes(store[l]) /\ ret' = store[l]
         \/ \E l \in DOMAIN store : IsRef(store[l]) /\ ret' = loc(store[l].to)
<1>1. ASSUME UNCHANGED callVars PROVE ret' = ret
  BY <1>1 DEF callVars
<1>2. ASSUME NEW x, ValOwner(x)
      PROVE  \/ \E p : ret' = rs(p, timer)
             \/ \E l \in DOMAIN store : IsRes(store[l]) /\ ret' = store[l]
  BY <1>2 DEF ValOwner
<1>3. ASSUME NEW x, ValRef(x)
      PROVE  \E l \in DOMAIN store : IsRef(store[l]) /\ ret' = loc(store[l].to)
  BY <1>3 DEF ValRef
<1>4. ASSUME NEW p, ValNew(p) PROVE \E q : ret' = rs(q, timer)
  BY <1>4 DEF ValNew
<1> QED
  BY <1>1, <1>2, <1>3, <1>4
     DEF CallNext, CallStatement, CallRewrite, Call, CallVal, TransferCall, CallInto,
         Enter, BindDecl, BindArg, BindCall, Bound, Unwind, DeliverVoid, DeliverOwner,
         DropRef, DeliverRef

LEMMA NextCallsFit ==
  ASSUME CallFitInv, [CallNext]_callVars
  PROVE  CallsFit'
<1>1. timer \in Nat /\ timer' \in {timer, timer + 1} /\ Given(timer) \subseteq Given(timer')
  BY GivenPlaces, CallResources, GivenLater DEF CallFitInv
<1>2. calls \in Seq(CallSet)
  BY DEF CallFitInv, CallInv
<1>3. ASSUME NEW i \in DOMAIN calls', calls'[i].to \in Nat
      PROVE  calls'[i].to \in Given(timer')
  <2>1. CASE calls' = calls
    BY <1>1, <1>3, <2>1 DEF CallFitInv, CallsFit
  <2>2. CASE Rephased
    <3>1. PICK c \in CallSet : calls' = <<c>> \o Tail(calls) /\ c.to = Head(calls).to
      BY <2>2 DEF Rephased
    <3>2. /\ DOMAIN calls' = DOMAIN calls /\ calls'[1] = c
          /\ \A j \in DOMAIN calls : j # 1 => calls'[j] = calls[j]
          /\ Head(calls) = calls[1]
      BY <1>2, <2>2, <3>1, HeadCallShape, PopCallShape DEF Rephased
    <3>3. calls'[i].to = calls[i].to /\ i \in DOMAIN calls
      BY <1>3, <3>1, <3>2
    <3> QED
      BY <1>1, <1>3, <3>3 DEF CallFitInv, CallsFit
  <2>3. CASE Entered
    <3>1. PICK to \in Nat \cup {Nobody, Val}, pending \in Seq(CallSet) :
            /\ Enter(to, pending)
            /\ to \in Nat => to \in DOMAIN store
            /\ pending = calls \/ (Binding("bind") /\ pending = NextParam)
      BY <2>3 DEF Entered
    <3> DEFINE c == [phase |-> "declare", params |-> {}, type |-> voidTy, to |-> to,
                     depth |-> Depth + 1]
    <3>2. c \in CallSet /\ c.to = to /\ calls' = <<c>> \o pending
      BY <3>1, DepthIsNat, VoidIsType DEF Enter, CallSet, CallFitInv, CallInv
    <3> HIDE DEF c
    <3>3. /\ calls'[1] = c
          /\ \A j \in DOMAIN calls' : j # 1 => j - 1 \in DOMAIN pending
                                              /\ calls'[j] = pending[j - 1]
      BY <3>2, PushCallShape
    <3>4. to \in Nat => to \in Given(timer)
      BY <3>1 DEF CallFitInv, FitInv, Fits
    <3>5. ASSUME NEW j \in DOMAIN pending
          PROVE  j \in DOMAIN calls /\ pending[j].to = calls[j].to
      <4>1. CASE pending = calls
        BY <4>1
      <4>2. CASE Binding("bind") /\ pending = NextParam
        <5> DEFINE h == Head(calls)
                   d == [h EXCEPT !.phase = "declare"]
        <5>1. calls # << >> /\ h \in CallSet /\ h = calls[1]
          BY <1>2, <4>2, PopCallShape DEF Binding, Innermost
        <5>2. pending = <<d>> \o Tail(calls)
          BY <4>2 DEF NextParam
        <5> HIDE DEF h
        <5>3. d \in CallSet /\ d.to = h.to
          BY <5>1 DEF CallSet
        <5> HIDE DEF d
        <5>4. /\ pending[1] = d /\ DOMAIN pending = DOMAIN calls
              /\ \A k \in DOMAIN calls : k # 1 => pending[k] = calls[k]
          BY <1>2, <5>1, <5>2, <5>3, HeadCallShape
        <5> QED
          BY <5>1, <5>3, <5>4
      <4> QED
        BY <3>1, <4>1, <4>2
    <3>6. CASE i = 1
      BY <1>1, <1>3, <3>2, <3>3, <3>4, <3>6
    <3>7. CASE i # 1
      BY <1>1, <1>3, <3>3, <3>5, <3>7 DEF CallFitInv, CallsFit
    <3> QED
      BY <3>6, <3>7
  <2>4. CASE Delivers
    <3>1. calls # << >> /\ calls' = Tail(calls)
      BY <2>4 DEF Delivers, DeliverVoid, DropRef, DeliverOwner, DeliverRef, Ended, Innermost
    <3>2. i + 1 \in DOMAIN calls /\ calls'[i] = calls[i + 1]
      BY <1>2, <1>3, <3>1, PopCallShape
    <3> QED
      BY <1>1, <1>3, <3>2 DEF CallFitInv, CallsFit
  <2> QED
    BY <2>1, <2>2, <2>3, <2>4, CallsChange DEF CallFitInv
<1>4. /\ ret'.kind = "loc" => ret'.to \in Given(timer')
      /\ ret'.kind = "rs" => ret'.id <= timer'
  <2>1. CASE ret' = ret
    <3>1. ret.kind = "rs" => ret.id \in Nat
      BY DEF CallFitInv, CallInv, Returned, Resource, none
    <3> QED
      BY <1>1, <2>1, <3>1 DEF CallFitInv, CallsFit
  <2>2. CASE ret' = none
    BY <2>2 DEF none
  <2>3. ASSUME NEW p, ret' = rs(p, timer)
        PROVE  ret'.kind = "rs" /\ ret'.id = timer
    BY <2>3 DEF rs
  <2>4. ASSUME NEW l \in DOMAIN store, IsRes(store[l]), ret' = store[l]
        PROVE  ret'.kind = "rs" /\ ret'.id \in Given(timer)
    BY <2>4 DEF CallFitInv, FitInv, Fits, IsRes
  <2>5. ASSUME NEW l \in DOMAIN store, IsRef(store[l]), ret' = loc(store[l].to)
        PROVE  ret'.kind = "loc" /\ ret'.to \in Given(timer)
    BY <2>5 DEF CallFitInv, FitInv, Fits, loc
  <2>6. CASE ret'.kind = "rs" /\ ret'.id \in Given(timer)
    BY <1>1, <2>6 DEF Given
  <2> QED
    BY <1>1, <2>1, <2>2, <2>3, <2>4, <2>5, <2>6, RetChange
<1> QED
  BY <1>3, <1>4 DEF CallsFit

LEMMA InitCallFit == CallInit => CallFitInv
<1> SUFFICES ASSUME CallInit PROVE CallFitInv
  OBVIOUS
<1>1. CallInv /\ FitInv
  BY InitCallInv, InitFitInv DEF CallInit
<1>2. DOMAIN calls = {} /\ ret.kind = "none"
  BY DEF CallInit, none
<1> QED
  BY <1>1, <1>2 DEF CallFitInv, CallsFit

LEMMA NextCallFit ==
  ASSUME CallFitInv, [CallNext]_callVars
  PROVE  CallFitInv'
<1>1. CallInv'
  BY NextCallInv DEF CallFitInv
<1>2. FitInv'
  BY <1>1, CallResources DEF FitInv, CallInv
<1> QED
  BY <1>1, <1>2, NextCallsFit DEF CallFitInv

-----------------------------------------------------------------------------
(* Cells and declarations.                                                 *)

CallNameInv == CallFitInv /\ NameInv

LEMMA NextCallName ==
  ASSUME ByName, CallNameInv, [CallNext]_callVars
  PROVE  CallNameInv' /\ CellStep
<1>1. CallFitInv'
  BY NextCallFit DEF CallNameInv
<1>2. Targeted(task', store') /\ CellStep
  <2>1. CASE UNCHANGED callVars
    BY <2>1 DEF callVars, vars, CallNameInv, NameInv, Targeted, AfterReads, CellStep
  <2>2. CASE Statement \/ Rewrite
    BY <2>2, NamedStatement, NamedRewrite DEF CallNameInv
  <2>3. CASE Entered
    <3>1. store' = store /\ stack' = <<saved(env, FALSE)>> \o stack /\ task' = idle
      BY <2>3 DEF Entered, Enter, Running, Binding
    <3>2. env \in EnvSet
      BY EnvInSet DEF CallNameInv, NameInv, FitInv, BlockInv, IInv, Scopes
    <3> QED
      BY <3>1, <3>2, TaskShapes DEF Targeted, CellStep, Pushed
  <2>4. CASE Waits
    <3>1. AfterReads(task') \in {idle, blockendTask}
      BY <2>4, TaskShapes DEF Waits
    <3> QED
      BY <2>4, <3>1, TaskShapes DEF Waits, Targeted, CellStep
  <2>5. CASE DeliverOwner
    <3>1. task'.op = "put" \/ task' = idle
      BY <2>5, TaskShapes DEF DeliverOwner
    <3>2. AfterReads(task').op \notin {"transfer", "share"}
      BY <3>1, TaskShapes DEF AfterReads
    <3> QED
      BY <2>5, <3>2 DEF DeliverOwner, Targeted, CellStep
  <2>6. CASE DeliverRef
    <3>1. DOMAIN store' = DOMAIN store /\ stack' = stack /\ task' = idle
      BY <2>6, UpdInside DEF DeliverRef, Ended
    <3> QED
      BY <3>1, TaskShapes DEF Targeted, CellStep
  <2> QED
    BY <2>1, <2>2, <2>3, <2>4, <2>5, <2>6, CallCases DEF CallNameInv, CallFitInv
<1> QED
  BY <1>1, <1>2 DEF CallNameInv, NameInv, CallFitInv

(***************************************************************************)
(* One cell per pending declaration in programs with functions (call.k:    *)
(* 25-70, block.k:18-29), wherever a body is left with a value: neither    *)
(* the parameters of a call nor the blocks it is left from leave a cell    *)
(* behind, in programs that reach cells by name.                           *)
(***************************************************************************)
THEOREM CallsLeaveNoCell == ASSUME ByName PROVE CallSpec => []NoStrayCells
<1>1. CallInit => CallNameInv /\ CellsCount
  BY InitCallFit, InitNameInv, InitCells DEF CallInit, CallNameInv
<1>2. CallNameInv /\ CellsCount /\ [CallNext]_callVars => CallNameInv' /\ CellsCount'
  BY NextCallName, CellsCounted DEF CallNameInv, NameInv
<1>3. CellsCount => NoStrayCells
  BY DEF CellsCount, NoStrayCells, Declarations, Count, Tagged
<1> QED
  BY <1>1, <1>2, <1>3, PTL DEF CallSpec

-----------------------------------------------------------------------------
(* The levels of the stack.                                                *)

\* The blocks that are open around the frame i.
Level(s, i) == Cardinality({j \in i .. Len(s) : s[j].op = "env"})

LEMMA LeastNumber ==
  ASSUME NEW S \in SUBSET Nat, S # {}
  PROVE  \E m \in S : \A i \in S : m <= i
<1> DEFINE less == OpToRel(<, Nat)
<1>1. IsWellFoundedOn(less, Nat)
  BY NatLessThanWellFounded
<1>2. PICK m \in S : \A i \in S : <<i, m>> \notin less
  <2> HIDE DEF less
  <2> QED
    BY <1>1, WFMin
<1>3. \A i \in S : ~ (i < m)
  BY <1>2 DEF OpToRel
<1> QED
  BY <1>3

LEMMA LevelIsNat ==
  ASSUME NEW s \in Seq(Frames), NEW i \in DOMAIN s
  PROVE  /\ Level(s, i) \in Nat /\ Level(s, i) <= Count(s, "env")
         /\ \A k \in DOMAIN s : k <= i => Level(s, k) >= Level(s, i)
<1> DEFINE S(k) == {j \in k .. Len(s) : s[j].op = "env"}
<1>1. Len(s) \in Nat /\ DOMAIN s = 1 .. Len(s)
  OBVIOUS
<1>2. ASSUME NEW k \in DOMAIN s, k <= i
      PROVE  IsFiniteSet(S(k)) /\ S(i) \in SUBSET S(k) /\ Level(s, k) = Cardinality(S(k))
  <2>1. IsFiniteSet(k .. Len(s)) /\ S(k) \in SUBSET (k .. Len(s))
    BY <1>1, FS_Interval
  <2>2. IsFiniteSet(S(k))
    BY <2>1, FS_Subset
  <2>3. Level(s, k) = Cardinality(S(k))
    BY DEF Level
  <2>4. k \in Nat /\ i \in Nat
    BY <1>1
  <2>5. ASSUME NEW j \in S(i) PROVE j \in S(k)
    <3>1. j \in Int /\ i <= j /\ j <= Len(s) /\ s[j].op = "env"
      BY <1>1, <2>4, <2>5
    <3>2. k <= j
      BY <1>2, <2>4, <3>1
    <3> QED
      BY <1>1, <2>4, <3>1, <3>2
  <2> QED
    BY <2>2, <2>3, <2>5
<1>3. Count(s, "env") = Level(s, 1)
  BY <1>1 DEF Count, Tagged, Level
<1>4. 1 \in DOMAIN s
  BY <1>1
<1>5. \A k \in DOMAIN s : k <= i => Cardinality(S(i)) <= Cardinality(S(k))
  BY <1>2, FS_Subset
<1>6. /\ \A k \in DOMAIN s : k <= i => Level(s, k) \in Nat
      /\ Level(s, i) = Cardinality(S(i)) /\ Level(s, i) \in Nat
  <2>1. \A k \in DOMAIN s : k <= i => Level(s, k) \in Nat
    BY <1>2, FS_CardinalityType
  <2> QED
    BY <1>1, <2>1 DEF Level
<1>7. \A k \in DOMAIN s : k <= i => Level(s, k) >= Level(s, i)
  BY <1>2, <1>5, <1>6
<1>8. Level(s, i) <= Level(s, 1)
  BY <1>4, <1>6, <1>7
<1> QED
  BY <1>3, <1>6, <1>7, <1>8

LEMMA LevelPush ==
  ASSUME NEW s \in Seq(Frames), NEW f \in Frames
  PROVE  LET t == <<f>> \o s
         IN  /\ Level(t, 1) = Count(t, "env")
             /\ \A i \in DOMAIN s : Level(t, i + 1) = Level(s, i)
<1> DEFINE t == <<f>> \o s
<1>1. /\ Len(t) = Len(s) + 1 /\ DOMAIN t = 1 .. Len(t)
      /\ DOMAIN s = 1 .. Len(s) /\ Len(s) \in Nat
      /\ \A i \in DOMAIN t : i # 1 => i - 1 \in DOMAIN s /\ t[i] = s[i - 1]
      /\ \A i \in DOMAIN s : i + 1 \in DOMAIN t /\ t[i + 1] = s[i]
  BY PushShape
<1> HIDE DEF t
<1>2. Level(t, 1) = Count(t, "env")
  BY <1>1 DEF Count, Tagged, Level
<1>3. ASSUME NEW i \in DOMAIN s PROVE Level(t, i + 1) = Level(s, i)
  <2> DEFINE S == {j \in i .. Len(s) : s[j].op = "env"}
             T == {j + 1 : j \in S}
  <2>1. S \in SUBSET (i .. Len(s)) /\ S \in SUBSET Nat /\ i \in Int /\ Len(s) \in Int
    BY <1>1
  <2>2. IsFiniteSet(S)
    BY <2>1, FS_Interval, FS_Subset
  <2>3. Cardinality(T) = Cardinality(S)
    <3> HIDE DEF S
    <3> QED
      BY <2>1, <2>2, ShiftCount
  <2>4. ASSUME NEW j \in i + 1 .. Len(t), t[j].op = "env" PROVE j \in T
    <3>1. j - 1 \in S /\ j = (j - 1) + 1
      BY <1>1, <2>4
    <3> QED
      BY <3>1
  <2>5. \A j \in T : j \in i + 1 .. Len(t) /\ t[j].op = "env"
    BY <1>1
  <2>6. {j \in i + 1 .. Len(t) : t[j].op = "env"} = T
    BY <2>4, <2>5
  <2> QED
    BY <2>3, <2>6 DEF Level
<1> QED
  BY <1>2, <1>3 DEF t

LEMMA LevelPop ==
  ASSUME NEW s \in Seq(Frames), s # << >>, NEW i \in DOMAIN Tail(s)
  PROVE  Level(Tail(s), i) = Level(s, i + 1)
<1> DEFINE f == Head(s)
           r == Tail(s)
<1>1. f \in Frames /\ r \in Seq(Frames) /\ s = <<f>> \o r
  BY HeadTailProperties
<1> HIDE DEF f, r
<1>2. \A k \in DOMAIN r : Level(<<f>> \o r, k + 1) = Level(r, k)
  BY <1>1, LevelPush
<1> QED
  BY <1>1, <1>2 DEF r

LEMMA DepthIs == Depth = Count(stack, "env")
BY DEF Depth, Count, Tagged

-----------------------------------------------------------------------------
(* What a name means in the environments on the stack.                     *)

\* x is declared between the frames k and j.
Shadowed(x, s, k, j) ==
  \E i \in DOMAIN s : k < i /\ i < j /\ IsDeclared(s[i]) /\ s[i].id = x

\* x means the same in e as in f.
Agree(e, f, x) ==
  /\ x \in DOMAIN e <=> x \in DOMAIN f
  /\ x \in DOMAIN f => e[x] = f[x]

\* A name means in e what it meant in a saved environment, unless it was
\* declared since.
Same(e, s) ==
  \A j \in DOMAIN s : IsSaved(s[j]) =>
    \A x \in Ids : Shadowed(x, s, 0, j) \/ Agree(e, s[j].env, x)

Linked(s) ==
  \A k, j \in DOMAIN s : k < j /\ IsSaved(s[k]) /\ IsSaved(s[j]) =>
    \A x \in Ids : Shadowed(x, s, k, j) \/ Agree(s[k].env, s[j].env, x)

EnvInv == Linked(stack) /\ (task.op # "blockend" => Same(env, stack))

LEMMA ShadowPush ==
  ASSUME NEW s \in Seq(Frames), NEW f \in Frames, NEW x, NEW k \in Nat, NEW j \in Nat,
         Shadowed(x, s, k, j)
  PROVE  Shadowed(x, <<f>> \o s, k + 1, j + 1) /\ Shadowed(x, <<f>> \o s, k, j + 1)
<1> DEFINE t == <<f>> \o s
<1>1. DOMAIN s = 1 .. Len(s) /\ Len(s) \in Nat /\
      \A i \in DOMAIN s : i + 1 \in DOMAIN t /\ t[i + 1] = s[i]
  BY PushShape
<1> HIDE DEF t
<1>2. PICK i \in DOMAIN s : k < i /\ i < j /\ IsDeclared(s[i]) /\ s[i].id = x
  BY DEF Shadowed
<1>3. /\ i + 1 \in DOMAIN t /\ k + 1 < i + 1 /\ k < i + 1 /\ i + 1 < j + 1
      /\ IsDeclared(t[i + 1]) /\ t[i + 1].id = x
  BY <1>1, <1>2
<1>4. Shadowed(x, t, k + 1, j + 1) /\ Shadowed(x, t, k, j + 1)
  BY <1>3 DEF Shadowed
<1> QED
  BY <1>4 DEF t

LEMMA ShadowPop ==
  ASSUME NEW s \in Seq(Frames), s # << >>, NEW x, NEW k \in Nat, NEW j \in Nat,
         k >= 1, Shadowed(x, s, k, j)
  PROVE  Shadowed(x, Tail(s), k - 1, j - 1)
<1>1. PICK i \in DOMAIN s : k < i /\ i < j /\ IsDeclared(s[i]) /\ s[i].id = x
  BY DEF Shadowed
<1>2. i \in Nat /\ i # 1
  BY <1>1, PopShape
<1>3. i - 1 \in DOMAIN Tail(s) /\ Tail(s)[i - 1] = s[i]
  BY <1>2, PopShape
<1>4. k - 1 < i - 1 /\ i - 1 < j - 1
  BY <1>1, <1>2
<1> QED
  BY <1>1, <1>3, <1>4 DEF Shadowed

LEMMA SavePush ==
  ASSUME NEW s \in Seq(Frames), NEW e \in EnvSet, NEW u \in BOOLEAN,
         Linked(s), Same(e, s)
  PROVE  Linked(<<saved(e, u)>> \o s) /\ Same(e, <<saved(e, u)>> \o s)
<1> DEFINE f == saved(e, u)
           t == <<f>> \o s
<1>1. f \in Frames /\ IsSaved(f) /\ f.env = e
  BY FrameTypes DEF saved, IsSaved
<1> HIDE DEF f
<1>2. /\ t[1] = f /\ DOMAIN t = 1 .. Len(s) + 1 /\ DOMAIN s = 1 .. Len(s) /\ Len(s) \in Nat
      /\ \A i \in DOMAIN t : i # 1 => i - 1 \in DOMAIN s /\ t[i] = s[i - 1]
  BY <1>1, PushShape
<1>3. \A x : \A k, j \in Nat : Shadowed(x, s, k, j) =>
        Shadowed(x, t, k + 1, j + 1) /\ Shadowed(x, t, k, j + 1)
  BY <1>1, ShadowPush
<1> HIDE DEF t
<1>4. ASSUME NEW j \in DOMAIN t, j # 1, IsSaved(t[j]), NEW x \in Ids
      PROVE  (Shadowed(x, t, 1, j) /\ Shadowed(x, t, 0, j)) \/ Agree(e, t[j].env, x)
  <2>1. j - 1 \in DOMAIN s /\ t[j] = s[j - 1] /\ j - 1 \in Nat /\ (j - 1) + 1 = j
    BY <1>2, <1>4
  <2>2. Shadowed(x, s, 0, j - 1) \/ Agree(e, s[j - 1].env, x)
    BY <1>4, <2>1 DEF Same
  <2>3. CASE Shadowed(x, s, 0, j - 1)
    <3>1. Shadowed(x, t, 0 + 1, (j - 1) + 1) /\ Shadowed(x, t, 0, (j - 1) + 1)
      BY <1>3, <2>1, <2>3
    <3> QED
      BY <2>1, <3>1
  <2> QED
    BY <2>1, <2>2, <2>3
<1>5. Same(e, t)
  BY <1>1, <1>2, <1>4 DEF Same, Agree
<1>6. ASSUME NEW k \in DOMAIN t, NEW j \in DOMAIN t, k < j, IsSaved(t[k]), IsSaved(t[j]),
             NEW x \in Ids
      PROVE  Shadowed(x, t, k, j) \/ Agree(t[k].env, t[j].env, x)
  <2>1. j # 1
    BY <1>2, <1>6
  <2>2. CASE k = 1
    BY <1>1, <1>2, <1>4, <1>6, <2>1, <2>2
  <2>3. CASE k # 1
    <3>1. /\ j - 1 \in DOMAIN s /\ t[j] = s[j - 1] /\ k - 1 \in DOMAIN s /\ t[k] = s[k - 1]
          /\ j - 1 \in Nat /\ (j - 1) + 1 = j /\ k - 1 \in Nat /\ (k - 1) + 1 = k
          /\ k - 1 < j - 1
      BY <1>2, <1>6, <2>1, <2>3
    <3>2. Shadowed(x, s, k - 1, j - 1) \/ Agree(s[k - 1].env, s[j - 1].env, x)
      BY <1>6, <3>1 DEF Linked
    <3>3. CASE Shadowed(x, s, k - 1, j - 1)
      <4>1. Shadowed(x, t, (k - 1) + 1, (j - 1) + 1)
        BY <1>3, <3>1, <3>3
      <4> QED
        BY <3>1, <4>1
    <3> QED
      BY <3>1, <3>2, <3>3
  <2> QED
    BY <2>2, <2>3
<1>7. Linked(t)
  BY <1>6 DEF Linked
<1> QED
  BY <1>5, <1>7 DEF t, f

LEMMA DeclPush ==
  ASSUME NEW s \in Seq(Frames), NEW e, NEW y \in Ids, NEW l, Linked(s), Same(e, s)
  PROVE  Linked(<<declared(y)>> \o s) /\ Same(Upd(e, y, l), <<declared(y)>> \o s)
<1> DEFINE f == declared(y)
           t == <<f>> \o s
           g == Upd(e, y, l)
<1>1. f \in Frames /\ ~IsSaved(f) /\ IsDeclared(f) /\ f.id = y
  BY FrameTypes DEF declared, IsSaved, IsDeclared
<1>2. DOMAIN g = DOMAIN e \cup {y} /\ \A x \in DOMAIN g : x # y => g[x] = e[x]
  BY DEF Upd
<1> HIDE DEF f, g
<1>3. /\ t[1] = f /\ DOMAIN t = 1 .. Len(s) + 1 /\ DOMAIN s = 1 .. Len(s) /\ Len(s) \in Nat
      /\ \A i \in DOMAIN t : i # 1 => i - 1 \in DOMAIN s /\ t[i] = s[i - 1]
  BY <1>1, PushShape
<1>4. \A x : \A k, j \in Nat : Shadowed(x, s, k, j) =>
        Shadowed(x, t, k + 1, j + 1) /\ Shadowed(x, t, k, j + 1)
  BY <1>1, ShadowPush
<1> HIDE DEF t
<1>5. ASSUME NEW j \in DOMAIN t, IsSaved(t[j]), NEW x \in Ids
      PROVE  Shadowed(x, t, 0, j) \/ Agree(g, t[j].env, x)
  <2>1. j - 1 \in DOMAIN s /\ t[j] = s[j - 1] /\ j - 1 \in Nat /\ (j - 1) + 1 = j /\ 1 < j
    BY <1>1, <1>3, <1>5
  <2>2. CASE x = y
    <3>1. 1 \in DOMAIN t /\ 0 < 1 /\ 1 < j /\ IsDeclared(t[1]) /\ t[1].id = x
      BY <1>1, <1>3, <2>1, <2>2
    <3> QED
      BY <3>1 DEF Shadowed
  <2>3. CASE x # y
    <3>1. Shadowed(x, s, 0, j - 1) \/ Agree(e, s[j - 1].env, x)
      BY <1>5, <2>1 DEF Same
    <3>2. CASE Shadowed(x, s, 0, j - 1)
      <4>1. Shadowed(x, t, 0, (j - 1) + 1)
        BY <1>4, <2>1, <3>2
      <4> QED
        BY <2>1, <4>1
    <3>3. CASE Agree(e, s[j - 1].env, x)
      BY <1>2, <2>1, <2>3, <3>3 DEF Agree
    <3> QED
      BY <3>1, <3>2, <3>3
  <2> QED
    BY <2>2, <2>3
<1>6. Same(g, t)
  BY <1>5 DEF Same
<1>7. ASSUME NEW k \in DOMAIN t, NEW j \in DOMAIN t, k < j, IsSaved(t[k]), IsSaved(t[j]),
             NEW x \in Ids
      PROVE  Shadowed(x, t, k, j) \/ Agree(t[k].env, t[j].env, x)
  <2>1. /\ j - 1 \in DOMAIN s /\ t[j] = s[j - 1] /\ k - 1 \in DOMAIN s /\ t[k] = s[k - 1]
        /\ j - 1 \in Nat /\ (j - 1) + 1 = j /\ k - 1 \in Nat /\ (k - 1) + 1 = k
        /\ k - 1 < j - 1
    BY <1>1, <1>3, <1>7
  <2>2. Shadowed(x, s, k - 1, j - 1) \/ Agree(s[k - 1].env, s[j - 1].env, x)
    BY <1>7, <2>1 DEF Linked
  <2>3. CASE Shadowed(x, s, k - 1, j - 1)
    <3>1. Shadowed(x, t, (k - 1) + 1, (j - 1) + 1)
      BY <1>4, <2>1, <2>3
    <3> QED
      BY <2>1, <3>1
  <2> QED
    BY <2>1, <2>2, <2>3
<1>8. Linked(t)
  BY <1>7 DEF Linked
<1> QED
  BY <1>6, <1>8 DEF t, f, g

LEMMA PopLinked ==
  ASSUME NEW s \in Seq(Frames), s # << >>, Linked(s)
  PROVE  Linked(Tail(s)) /\ (IsSaved(Head(s)) => Same(Head(s).env, Tail(s)))
<1> DEFINE t == Tail(s)
<1>1. /\ Head(s) = s[1] /\ 1 \in DOMAIN s /\ DOMAIN s = 1 .. Len(s) /\ Len(s) \in Nat
      /\ \A i \in DOMAIN t : i + 1 \in DOMAIN s /\ t[i] = s[i + 1] /\ i \in Nat /\ i >= 1
  BY PopShape
<1>2. \A x : \A k, j \in Nat : k >= 1 /\ Shadowed(x, s, k, j) => Shadowed(x, t, k - 1, j - 1)
  <2> SUFFICES ASSUME NEW x, NEW k \in Nat, NEW j \in Nat, k >= 1, Shadowed(x, s, k, j)
               PROVE  Shadowed(x, t, k - 1, j - 1)
    OBVIOUS
  <2> QED
    BY ShadowPop
<1> HIDE DEF t
<1>3. ASSUME NEW j \in DOMAIN t, IsSaved(t[j]), IsSaved(s[1]), NEW x \in Ids
      PROVE  Shadowed(x, t, 0, j) \/ Agree(s[1].env, t[j].env, x)
  <2>1. /\ j + 1 \in DOMAIN s /\ t[j] = s[j + 1] /\ 1 < j + 1 /\ j + 1 \in Nat
        /\ (j + 1) - 1 = j /\ 1 - 1 = 0
    BY <1>1
  <2>2. Shadowed(x, s, 1, j + 1) \/ Agree(s[1].env, s[j + 1].env, x)
    BY <1>1, <1>3, <2>1 DEF Linked
  <2>3. CASE Shadowed(x, s, 1, j + 1)
    <3>1. Shadowed(x, t, 1 - 1, (j + 1) - 1)
      BY <1>2, <2>1, <2>3
    <3> QED
      BY <2>1, <3>1
  <2> QED
    BY <2>1, <2>2, <2>3
<1>4. ASSUME NEW k \in DOMAIN t, NEW j \in DOMAIN t, k < j, IsSaved(t[k]), IsSaved(t[j]),
             NEW x \in Ids
      PROVE  Shadowed(x, t, k, j) \/ Agree(t[k].env, t[j].env, x)
  <2>1. /\ j + 1 \in DOMAIN s /\ t[j] = s[j + 1] /\ k + 1 \in DOMAIN s /\ t[k] = s[k + 1]
        /\ j + 1 \in Nat /\ (j + 1) - 1 = j /\ k + 1 \in Nat /\ (k + 1) - 1 = k
        /\ k + 1 < j + 1 /\ k + 1 >= 1
    BY <1>1, <1>4
  <2>2. Shadowed(x, s, k + 1, j + 1) \/ Agree(s[k + 1].env, s[j + 1].env, x)
    BY <1>4, <2>1 DEF Linked
  <2>3. CASE Shadowed(x, s, k + 1, j + 1)
    <3>1. Shadowed(x, t, (k + 1) - 1, (j + 1) - 1)
      BY <1>2, <2>1, <2>3
    <3> QED
      BY <2>1, <3>1
  <2> QED
    BY <2>1, <2>2, <2>3
<1> QED
  BY <1>1, <1>3, <1>4 DEF t, Linked, Same

-----------------------------------------------------------------------------
(* What a step does to the stack.                                          *)

\* It stays, and a block that ends goes on ending.
Still == /\ stack' = stack /\ env' = env
         /\ task.op = "blockend" <=> task'.op = "blockend"

\* A block begins to end.
Leaving == stack' = stack /\ env' = env /\ task = idle /\ task' = blockendTask

\* A block begins.
Opening == /\ \E u \in BOOLEAN : stack' = <<saved(env, u)>> \o stack
           /\ env' = env /\ task = idle /\ task' = idle

LEMMA StatementStack ==
  ASSUME Statement
  PROVE  Still \/ LeaveBlock \/ Opening \/ \E x \in Ids : Decl(x)
<1>1. ASSUME NEW x \in Ids, Rd(x) PROVE Still
  BY <1>1, TaskShapes DEF Rd, Idle, Still
<1>2. ASSUME NEW p \in PropLists, NEW t \in LValue, TransferNew(p, t) PROVE Still
  BY <1>2, TaskShapes DEF TransferNew, Idle, Still
<1>3. ASSUME NEW e \in LValue, NEW t \in LValue, Transfer(e, t) PROVE Still
  BY <1>3, TaskShapes DEF Transfer, Idle, Still
<1>4. ASSUME NEW x \in Ids, NEW y \in Ids, Borrow(x, y) \/ MBorrow(x, y) PROVE Still
  BY <1>4 DEF Borrow, MBorrow, NewRef, Still
<1>5. ASSUME NEW e \in LValue, Deallocate(e) PROVE Still
  BY <1>5 DEF Deallocate, Still
<1>6. ASSUME EnterBlock \/ EnterUnsafe PROVE Opening
  BY <1>6 DEF EnterBlock, EnterUnsafe, Idle, Opening
<1> QED
  BY <1>1, <1>2, <1>3, <1>4, <1>5, <1>6 DEF Statement

LEMMA RewriteStack ==
  ASSUME IInv, Rewrite
  PROVE  Still \/ PopDecl \/ RestoreEnv
<1>1. ASSUME MoveOwner \/ CopyOwner \/ TransferRef PROVE Still
  BY <1>1, TaskShapes DEF MoveOwner, CopyOwner, TransferRef, Moving, Still
<1>2. ASSUME PutOwner \/ PutThrough PROVE Still
  BY <1>2, TaskShapes DEF PutOwner, PutThrough, Still
<1>3. ASSUME ReadRef PROVE Still
  BY <1>3, TaskShapes DEF ReadRef, Still
<1>4. ASSUME ReadOwner PROVE Still
  BY <1>4, ReadNext DEF ReadOwner, Still, IInv
<1>5. ASSUME ShareImm \/ MoveMut PROVE Still
  BY <1>5, TaskShapes DEF ShareImm, MoveMut, Still
<1> QED
  BY <1>1, <1>2, <1>3, <1>4, <1>5 DEF Rewrite

LEMMA DeliverStack == ASSUME Delivers PROVE Still /\ task = idle
<1>1. task = idle /\ stack' = stack /\ env' = env
  BY DEF Delivers, DeliverVoid, DropRef, DeliverOwner, DeliverRef, Ended, vars
<1>2. task' = idle \/ \E r, t : task' = putTask(r, t)
  BY <1>1 DEF Delivers, DeliverVoid, DropRef, DeliverOwner, DeliverRef, vars
<1> QED
  BY <1>1, <1>2, TaskShapes DEF Still

LEMMA WaitsStack == ASSUME Waits PROVE Still \/ Leaving
BY TaskShapes DEF Waits, Still, Leaving

LEMMA EnteredStack == ASSUME Entered PROVE Opening
BY DEF Entered, Enter, Opening, Running, Binding

LEMMA NextEnvInv ==
  ASSUME CallInv, EnvInv, [CallNext]_callVars
  PROVE  EnvInv'
<1>1. IInv /\ stack \in Seq(Frames) /\ env \in EnvSet
  BY EnvInSet DEF CallInv, BlockInv, IInv, Scopes
<1>2. CASE Still
  BY <1>2 DEF Still, EnvInv
<1>3. CASE Leaving \/ LeaveBlock
  BY <1>3, TaskShapes DEF Leaving, LeaveBlock, EnvInv
<1>4. CASE Opening
  BY <1>1, <1>4, SavePush, TaskShapes DEF Opening, EnvInv
<1>5. ASSUME NEW x \in Ids, Decl(x) PROVE EnvInv'
  BY <1>1, <1>5, DeclPush, TaskShapes DEF Decl, Idle, EnvInv
<1>6. CASE PopDecl
  BY <1>1, <1>6, PopLinked DEF PopDecl, EnvInv
<1>7. CASE RestoreEnv
  BY <1>1, <1>7, PopLinked DEF RestoreEnv, IsSaved, EnvInv
<1>8. CASE UNCHANGED callVars
  BY <1>8 DEF callVars, vars, EnvInv
<1>9. CASE DeliverOwner \/ DeliverRef
  BY <1>2, <1>9, DeliverStack DEF Delivers
<1> QED
  BY <1>1, <1>2, <1>3, <1>4, <1>5, <1>6, <1>7, <1>8, <1>9, CallCases, StatementStack,
     RewriteStack, WaitsStack, EnteredStack

LEMMA InitEnvInv == Init => EnvInv
BY DEF Init, EnvInv, Linked, Same

-----------------------------------------------------------------------------
(* How calls nest.                                                         *)

\* A call is inside the blocks of its caller, and right inside them when it is
\* an argument; what val(..) returns goes to a body.
Nests(cs) ==
  \A k \in DOMAIN cs :
    /\ cs[k].depth >= 1
    /\ \A m \in DOMAIN cs : k < m => cs[m].depth < cs[k].depth
    /\ k + 1 \in DOMAIN cs /\ cs[k + 1].phase # "body" => cs[k].depth = cs[k + 1].depth + 1
    /\ cs[k].to = Val => k + 1 \in DOMAIN cs /\ cs[k + 1].phase = "body"

\* What is declared in the block of a call that binds its arguments is a
\* parameter of it.
Framed(cs, s) ==
  \A k \in DOMAIN cs : cs[k].phase # "body" =>
    \A i \in DOMAIN s :
      IsDeclared(s[i]) /\ Level(s, i) = cs[k].depth => s[i].id \in cs[k].params

\* The innermost call is in its block, or that has just ended.
Placed ==
  /\ calls # << >> =>
       /\ Depth >= Head(calls).depth - 1
       /\ Head(calls).phase # "body" => Depth = Head(calls).depth
       /\ task.op = "blockend" => Head(calls).phase = "body" /\ Depth >= Head(calls).depth
  /\ ret # none => Innermost("body")

NestInv == Nests(calls) /\ Framed(calls, stack) /\ Placed

LEMMA FramedPush ==
  ASSUME NEW cs \in Seq(CallSet), NEW s \in Seq(Frames), NEW f \in Frames, Framed(cs, s),
         \A k \in DOMAIN cs :
           cs[k].phase # "body" /\ IsDeclared(f) /\ Count(<<f>> \o s, "env") = cs[k].depth
             => f.id \in cs[k].params
  PROVE  Framed(cs, <<f>> \o s)
<1> DEFINE t == <<f>> \o s
<1>1. /\ t[1] = f /\ DOMAIN t = 1 .. Len(s) + 1
      /\ \A i \in DOMAIN t : i # 1 => i - 1 \in DOMAIN s /\ t[i] = s[i - 1]
  BY PushShape
<1>2. Level(t, 1) = Count(t, "env") /\ \A i \in DOMAIN s : Level(t, i + 1) = Level(s, i)
  BY LevelPush
<1> SUFFICES ASSUME NEW k \in DOMAIN cs, cs[k].phase # "body", NEW i \in DOMAIN t,
                    IsDeclared(t[i]), Level(t, i) = cs[k].depth
             PROVE  t[i].id \in cs[k].params
  BY DEF Framed
<1>3. CASE i = 1
  BY <1>1, <1>2, <1>3
<1>4. CASE i # 1
  <2>1. i - 1 \in DOMAIN s /\ t[i] = s[i - 1] /\ (i - 1) + 1 = i
    BY <1>1, <1>4
  <2>2. Level(t, (i - 1) + 1) = Level(s, i - 1)
    BY <1>2, <2>1
  <2> HIDE DEF t
  <2>3. Level(s, i - 1) = cs[k].depth
    BY <2>1, <2>2
  <2> QED
    BY <2>1, <2>3 DEF Framed
<1> QED
  BY <1>3, <1>4

LEMMA FramedPop ==
  ASSUME NEW cs, NEW s \in Seq(Frames), s # << >>, Framed(cs, s)
  PROVE  Framed(cs, Tail(s))
<1>1. \A i \in DOMAIN Tail(s) :
        i + 1 \in DOMAIN s /\ Tail(s)[i] = s[i + 1] /\ Level(Tail(s), i) = Level(s, i + 1)
  BY PopShape, LevelPop
<1> QED
  BY <1>1 DEF Framed

\* The innermost call goes on: it keeps its place and its parameters.
LEMMA HeadNests ==
  ASSUME NEW cs \in Seq(CallSet), cs # << >>, NEW c \in CallSet, NEW s,
         Nests(cs), Framed(cs, s), c.depth = Head(cs).depth, c.to = Head(cs).to,
         c.phase # "body" => Head(cs).phase # "body" /\ Head(cs).params \subseteq c.params
  PROVE  Nests(<<c>> \o Tail(cs)) /\ Framed(<<c>> \o Tail(cs), s)
<1> DEFINE t == <<c>> \o Tail(cs)
<1>1. /\ t[1] = c /\ DOMAIN t = DOMAIN cs /\ Head(cs) = cs[1] /\ 1 \in DOMAIN cs
      /\ \A i \in DOMAIN cs : i # 1 => t[i] = cs[i]
      /\ \A i \in DOMAIN cs : i \in Nat /\ i >= 1
  BY HeadCallShape, PopCallShape
<1> HIDE DEF t
<1>2. \A i \in DOMAIN cs : t[i].depth = cs[i].depth /\ t[i].to = cs[i].to
  BY <1>1
<1>3. \A i \in DOMAIN cs : i + 1 \in DOMAIN cs => t[i + 1] = cs[i + 1]
  BY <1>1
<1>4. Nests(t)
  BY <1>1, <1>2, <1>3 DEF Nests
<1>5. Framed(t, s)
  BY <1>1 DEF Framed
<1> QED
  BY <1>4, <1>5 DEF t

LEMMA TailNests ==
  ASSUME NEW cs \in Seq(CallSet), cs # << >>, NEW s, Nests(cs), Framed(cs, s)
  PROVE  Nests(Tail(cs)) /\ Framed(Tail(cs), s)
<1> DEFINE t == Tail(cs)
<1>1. /\ \A i \in DOMAIN t : i \in Nat /\ i + 1 \in DOMAIN cs /\ t[i] = cs[i + 1]
      /\ \A i \in DOMAIN cs : i # 1 => i - 1 \in DOMAIN t
      /\ DOMAIN cs = 1 .. Len(cs)
  BY PopCallShape
<1> HIDE DEF t
<1>2. ASSUME NEW k \in DOMAIN t
      PROVE  /\ t[k].depth >= 1
             /\ \A m \in DOMAIN t : k < m => t[m].depth < t[k].depth
             /\ k + 1 \in DOMAIN t /\ t[k + 1].phase # "body" => t[k].depth = t[k + 1].depth + 1
             /\ t[k].to = Val => k + 1 \in DOMAIN t /\ t[k + 1].phase = "body"
  <2>1. k + 1 \in DOMAIN cs /\ t[k] = cs[k + 1] /\ k \in Nat
    BY <1>1
  <2>2. t[k].depth >= 1
    BY <2>1 DEF Nests
  <2>3. ASSUME NEW m \in DOMAIN t, k < m PROVE t[m].depth < t[k].depth
    <3>1. m + 1 \in DOMAIN cs /\ t[m] = cs[m + 1] /\ k + 1 < m + 1
      BY <1>1, <2>1, <2>3
    <3> QED
      BY <2>1, <3>1 DEF Nests
  <2>4. ASSUME k + 1 \in DOMAIN t, t[k + 1].phase # "body"
        PROVE  t[k].depth = t[k + 1].depth + 1
    <3>1. (k + 1) + 1 \in DOMAIN cs /\ t[k + 1] = cs[(k + 1) + 1]
      BY <1>1, <2>4
    <3> QED
      BY <2>1, <2>4, <3>1 DEF Nests
  <2>5. ASSUME t[k].to = Val PROVE k + 1 \in DOMAIN t /\ t[k + 1].phase = "body"
    <3>1. (k + 1) + 1 \in DOMAIN cs /\ cs[(k + 1) + 1].phase = "body"
      BY <2>1, <2>5 DEF Nests
    <3>2. (k + 1) + 1 # 1 /\ ((k + 1) + 1) - 1 = k + 1
      BY <2>1
    <3>3. k + 1 \in DOMAIN t
      BY <1>1, <3>1, <3>2
    <3> QED
      BY <1>1, <3>1, <3>3
  <2> QED
    BY <2>2, <2>3, <2>4, <2>5
<1>3. Nests(t)
  BY <1>2 DEF Nests
<1>4. Framed(t, s)
  BY <1>1 DEF Framed
<1> QED
  BY <1>3, <1>4 DEF t

\* A call begins.
LEMMA EnterNests ==
  ASSUME NEW cs \in Seq(CallSet), NEW c \in CallSet, NEW s \in Seq(Frames), NEW f \in Frames,
         Nests(cs), Framed(cs, s), IsSaved(f), ~IsDeclared(f),
         c.depth = Count(s, "env") + 1,
         cs # << >> => /\ Head(cs).depth < c.depth
                       /\ Head(cs).phase # "body" => c.depth = Head(cs).depth + 1,
         c.to = Val => cs # << >> /\ Head(cs).phase = "body"
  PROVE  Nests(<<c>> \o cs) /\ Framed(<<c>> \o cs, <<f>> \o s)
<1> DEFINE t == <<c>> \o cs
           z == <<f>> \o s
<1>1. /\ t[1] = c /\ DOMAIN t = 1 .. Len(cs) + 1 /\ DOMAIN cs = 1 .. Len(cs)
      /\ Len(cs) \in Nat
      /\ \A i \in DOMAIN t : i # 1 => i - 1 \in DOMAIN cs /\ t[i] = cs[i - 1]
  BY PushCallShape
<1>2. /\ \A i \in DOMAIN cs : i \in Nat /\ i >= 1 /\ cs[i].depth \in Nat
      /\ cs # << >> => Head(cs) = cs[1] /\ 1 \in DOMAIN cs
      /\ DOMAIN cs # {} => cs # << >>
  <2>1. \A i \in DOMAIN cs : i \in Nat /\ i >= 1 /\ cs[i] \in CallSet
    BY <1>1
  <2>2. DOMAIN cs # {} => cs # << >>
    OBVIOUS
  <2> QED
    BY <2>1, <2>2, CallFields, PopCallShape
<1>3. c.depth \in Nat /\ Count(s, "env") \in Nat /\ c.depth >= 1
  BY TaggedFinite, CallFields
<1>4. \A m \in DOMAIN cs : cs[m].depth < c.depth
  <2> SUFFICES ASSUME NEW m \in DOMAIN cs PROVE cs[m].depth < c.depth
    OBVIOUS
  <2>1. cs # << >> /\ Head(cs) = cs[1] /\ 1 \in DOMAIN cs /\ cs[1].depth < c.depth
    BY <1>2
  <2>2. m = 1 \/ cs[m].depth < cs[1].depth
    BY <1>2, <2>1 DEF Nests
  <2> QED
    BY <1>2, <1>3, <2>1, <2>2
<1> HIDE DEF t, z
<1>5. ASSUME NEW k \in DOMAIN t
      PROVE  /\ t[k].depth >= 1
             /\ \A m \in DOMAIN t : k < m => t[m].depth < t[k].depth
             /\ k + 1 \in DOMAIN t /\ t[k + 1].phase # "body" => t[k].depth = t[k + 1].depth + 1
             /\ t[k].to = Val => k + 1 \in DOMAIN t /\ t[k + 1].phase = "body"
  <2>1. CASE k = 1
    <3>1. \A m \in DOMAIN t : k < m => m - 1 \in DOMAIN cs /\ t[m] = cs[m - 1]
      BY <1>1, <2>1
    <3>2. \A m \in DOMAIN t : k < m => t[m].depth < t[k].depth
      BY <1>1, <1>4, <2>1, <3>1
    <3>3. k + 1 \in DOMAIN t => cs # << >> /\ t[k + 1] = Head(cs)
      BY <1>1, <1>2, <2>1
    <3>4. cs # << >> => k + 1 \in DOMAIN t
      BY <1>1, <1>2, <2>1
    <3> QED
      BY <1>1, <1>3, <2>1, <3>2, <3>3, <3>4
  <2>2. CASE k # 1
    <3>1. k - 1 \in DOMAIN cs /\ t[k] = cs[k - 1] /\ k \in Nat /\ (k - 1) + 1 = k
      BY <1>1, <2>2
    <3>2. t[k].depth >= 1
      BY <3>1 DEF Nests
    <3>3. ASSUME NEW m \in DOMAIN t, k < m PROVE t[m].depth < t[k].depth
      <4>1. m - 1 \in DOMAIN cs /\ t[m] = cs[m - 1] /\ k - 1 < m - 1
        BY <1>1, <3>1, <3>3
      <4> QED
        BY <3>1, <4>1 DEF Nests
    <3>4. k \in DOMAIN cs <=> k + 1 \in DOMAIN t
      BY <1>1, <3>1
    <3>5. k + 1 \in DOMAIN t => t[k + 1] = cs[k]
      <4>1. k + 1 # 1 /\ (k + 1) - 1 = k
        BY <3>1
      <4> QED
        BY <1>1, <4>1
    <3>6. /\ k \in DOMAIN cs /\ cs[k].phase # "body" => cs[k - 1].depth = cs[k].depth + 1
          /\ cs[k - 1].to = Val => k \in DOMAIN cs /\ cs[k].phase = "body"
      BY <3>1 DEF Nests
    <3> QED
      BY <3>1, <3>2, <3>3, <3>4, <3>5, <3>6
  <2> QED
    BY <2>1, <2>2
<1>6. Nests(t)
  BY <1>5 DEF Nests
<1>7. Framed(cs, z)
  BY FramedPush DEF z
<1>8. ASSUME NEW i \in DOMAIN z, IsDeclared(z[i]) PROVE Level(z, i) # c.depth
  <2>1. /\ z[1] = f /\ DOMAIN z = 1 .. Len(s) + 1
        /\ (i # 1 => i - 1 \in DOMAIN s /\ z[i] = s[i - 1])
    BY PushShape DEF z
  <2>2. i - 1 \in DOMAIN s /\ (i - 1) + 1 = i
    BY <1>8, <2>1
  <2>3. Level(z, (i - 1) + 1) = Level(s, i - 1)
    BY <2>2, LevelPush DEF z
  <2>4. Level(s, i - 1) \in Nat /\ Level(s, i - 1) <= Count(s, "env")
    BY <2>2, LevelIsNat
  <2> QED
    BY <1>3, <2>2, <2>3, <2>4
<1>9. Framed(t, z)
  BY <1>1, <1>7, <1>8 DEF Framed
<1> QED
  BY <1>6, <1>9 DEF t, z

LEMMA PlaceFacts ==
  ASSUME CallInv
  PROVE  /\ stack \in Seq(Frames) /\ calls \in Seq(CallSet) /\ env \in EnvSet
         /\ Depth = Count(stack, "env") /\ Depth \in Nat
         /\ calls # << >> => /\ Head(calls) = calls[1] /\ Head(calls) \in CallSet
                             /\ Head(calls).depth \in Nat /\ 1 \in DOMAIN calls
<1>1. stack \in Seq(Frames) /\ calls \in Seq(CallSet) /\ env \in EnvSet
  BY EnvInSet DEF CallInv, BlockInv, IInv, Scopes
<1>2. Depth \in Nat
  BY DepthIsNat DEF CallInv
<1> QED
  BY <1>1, <1>2, DepthIs, PopCallShape, CallFields

\* The blocks of the next state.
LEMMA DepthThen ==
  ASSUME CallInv
  PROVE  /\ stack' = stack => Depth' = Depth
         /\ \A f \in Frames : stack' = <<f>> \o stack =>
              /\ f.op = "env" => Depth' = Depth + 1
              /\ f.op # "env" => Depth' = Depth
         /\ stack # << >> /\ stack' = Tail(stack) =>
              /\ Head(stack).op = "env" => Depth = Depth' + 1 /\ Depth' \in Nat
              /\ Head(stack).op # "env" => Depth' = Depth
<1>1. Depth' = Count(stack', "env")
  BY DEF Depth, Count, Tagged
<1>2. stack \in Seq(Frames) /\ Depth = Count(stack, "env") /\ Depth \in Nat
  BY PlaceFacts
<1> HIDE DEF Depth
<1>3. ASSUME stack' = stack PROVE Depth' = Depth
  BY <1>1, <1>2, <1>3
<1>4. ASSUME NEW f \in Frames, stack' = <<f>> \o stack
      PROVE  /\ f.op = "env" => Depth' = Depth + 1
             /\ f.op # "env" => Depth' = Depth
  <2>1. Count(stack', "env") = Count(stack, "env") + (IF f.op = "env" THEN 1 ELSE 0)
    BY <1>2, <1>4, PushCount
  <2>2. f.op = "env" => Depth' = Depth + 1
    BY <1>1, <1>2, <2>1
  <2>3. f.op # "env" => Count(stack', "env") = Count(stack, "env") + 0
    BY <2>1
  <2> QED
    BY <1>1, <1>2, <2>2, <2>3
<1>5. ASSUME stack # << >>, stack' = Tail(stack)
      PROVE  /\ Head(stack).op = "env" => Depth = Depth' + 1 /\ Depth' \in Nat
             /\ Head(stack).op # "env" => Depth' = Depth
  <2>1. Count(stack, "env") = Count(stack', "env") + (IF Head(stack).op = "env" THEN 1 ELSE 0)
    BY <1>2, <1>5, PopCount
  <2>2. Count(stack', "env") \in Nat
    BY <1>2, <1>5, PopShape, TaggedFinite
  <2>3. Head(stack).op # "env" => Count(stack, "env") = Count(stack', "env") + 0
    BY <2>1
  <2> QED
    BY <1>1, <1>2, <2>1, <2>2, <2>3
<1> QED
  BY <1>3, <1>4, <1>5

LEMMA StillNests ==
  ASSUME CallInv, NestInv, Still, calls' = calls, ret' # none => Innermost("body")
  PROVE  NestInv'
<1>1. Depth' = Depth
  BY DepthThen DEF Still
<1> QED
  BY <1>1 DEF NestInv, Placed, Still, Innermost

LEMMA LeavingNests ==
  ASSUME CallInv, NestInv, stack' = stack, calls' = calls, ret' = ret,
         calls # << >> => Innermost("body") /\ Depth >= Head(calls).depth
  PROVE  NestInv'
<1>1. Depth' = Depth
  BY DepthThen
<1> QED
  BY <1>1 DEF NestInv, Placed, Innermost

LEMMA OpeningNests ==
  ASSUME CallInv, NestInv, Running, Opening, UNCHANGED <<calls, ret>>
  PROVE  NestInv'
<1>1. PICK u \in BOOLEAN : stack' = <<saved(env, u)>> \o stack
  BY DEF Opening
<1> DEFINE f == saved(env, u)
<1>2. f \in Frames /\ f.op = "env" /\ ~IsDeclared(f)
  BY PlaceFacts, FrameTypes DEF saved, IsDeclared
<1>3. stack' = <<f>> \o stack
  BY <1>1
<1> HIDE DEF f
<1>4. Depth' = Depth + 1
  BY <1>2, <1>3, DepthThen
<1>5. Framed(calls, stack')
  BY <1>2, <1>3, PlaceFacts, FramedPush DEF NestInv
<1>6. Placed'
  BY <1>4, PlaceFacts, TaskShapes DEF Running, Opening, Innermost, Placed
<1> QED
  BY <1>5, <1>6 DEF NestInv

LEMMA DeclNests ==
  ASSUME CallInv, NestInv, Running, NEW x \in Ids, Decl(x), UNCHANGED <<calls, ret>>
  PROVE  NestInv'
<1> DEFINE f == declared(x)
<1>1. f \in Frames /\ f.op # "env" /\ stack' = <<f>> \o stack
  BY FrameTypes DEF declared, Decl
<1> HIDE DEF f
<1>2. Depth' = Depth /\ Depth' = Count(stack', "env")
  <2>1. Depth' = Count(stack', "env")
    BY DEF Depth, Count, Tagged
  <2> QED
    BY <1>1, <2>1, DepthThen, PlaceFacts
<1>3. ASSUME NEW k \in DOMAIN calls, calls[k].phase # "body"
      PROVE  Depth # calls[k].depth
  <2>1. /\ calls # << >> /\ Head(calls).phase = "body" /\ Depth >= Head(calls).depth
        /\ k \in Nat /\ k >= 1 /\ calls[k] \in CallSet
    BY <1>3, PlaceFacts DEF Running, Innermost
  <2>2. k # 1 /\ 1 < k
    BY <1>3, <2>1, PlaceFacts
  <2>3. calls[k].depth < Head(calls).depth
    BY <2>1, <2>2, PlaceFacts DEF NestInv, Nests
  <2> QED
    BY <2>1, <2>3, PlaceFacts, CallFields
<1>4. Framed(calls, stack')
  BY <1>1, <1>2, <1>3, PlaceFacts, FramedPush DEF NestInv
<1>5. Placed'
  BY <1>2, TaskShapes DEF Running, Decl, Idle, Innermost, NestInv, Placed
<1> QED
  BY <1>4, <1>5 DEF NestInv

LEMMA PopNests ==
  ASSUME CallInv, NestInv, PopDecl \/ RestoreEnv, UNCHANGED <<calls, ret>>
  PROVE  NestInv'
<1>1. stack # << >> /\ stack' = Tail(stack) /\ task.op = "blockend"
  BY DEF PopDecl, RestoreEnv
<1>2. Framed(calls, stack')
  BY <1>1, PlaceFacts, FramedPop DEF NestInv
<1>3. CASE PopDecl
  <2>1. Depth' = Depth
    BY <1>1, <1>3, DepthThen DEF PopDecl
  <2> QED
    BY <1>2, <1>3, <2>1 DEF PopDecl, NestInv, Placed, Innermost
<1>4. CASE RestoreEnv
  <2>1. Depth = Depth' + 1 /\ Depth' \in Nat
    BY <1>1, <1>4, DepthThen DEF RestoreEnv
  <2>2. Placed'
    BY <1>1, <1>4, <2>1, PlaceFacts, TaskShapes
       DEF RestoreEnv, NestInv, Placed, Innermost
  <2> QED
    BY <1>2, <2>2 DEF NestInv
<1> QED
  BY <1>3, <1>4

LEMMA EnteredNests ==
  ASSUME CallInv, NestInv, Entered
  PROVE  NestInv'
<1>1. PICK to \in Nat \cup {Nobody, Val}, pending \in Seq(CallSet) :
        /\ Enter(to, pending)
        /\ \/ Running /\ pending = calls /\ (to = Val => calls # << >>)
           \/ Binding("bind") /\ pending = NextParam /\ to \in Nat
  BY DEF Entered
<1> DEFINE f == saved(env, FALSE)
           c == [phase |-> "declare", params |-> {}, type |-> voidTy, to |-> to,
                 depth |-> Depth + 1]
<1>2. f \in Frames /\ f.op = "env" /\ IsSaved(f) /\ ~IsDeclared(f) /\ stack' = <<f>> \o stack
  BY <1>1, PlaceFacts, FrameTypes DEF saved, IsSaved, IsDeclared, Enter
<1>3. /\ c \in CallSet /\ c.depth = Depth + 1 /\ c.to = to /\ c.phase = "declare"
      /\ calls' = <<c>> \o pending
  BY <1>1, PlaceFacts, VoidIsType DEF Enter, CallSet
<1> HIDE DEF f, c
<1>4. /\ Nests(pending) /\ Framed(pending, stack)
      /\ pending # << >> => /\ Head(pending).depth < c.depth
                            /\ Head(pending).phase # "body" => c.depth = Head(pending).depth + 1
      /\ c.to = Val => pending # << >> /\ Head(pending).phase = "body"
  <2>1. CASE Running /\ pending = calls /\ (to = Val => calls # << >>)
    <3>1. calls # << >> => Head(calls).phase = "body" /\ Depth >= Head(calls).depth
      BY <2>1 DEF Running, Innermost
    <3> QED
      BY <1>3, <2>1, <3>1, PlaceFacts DEF NestInv
  <2>2. CASE Binding("bind") /\ pending = NextParam /\ to \in Nat
    <3> DEFINE h == Head(calls)
               d == [h EXCEPT !.phase = "declare"]
    <3>1. /\ calls # << >> /\ h \in CallSet /\ h.phase = "bind" /\ h.depth = Depth
          /\ pending = <<d>> \o Tail(calls)
      BY <2>2, PlaceFacts DEF Binding, Innermost, NextParam, NestInv, Placed
    <3> HIDE DEF h
    <3>2. d \in CallSet /\ d.to = h.to /\ d.depth = h.depth /\ d.params = h.params
      BY <3>1 DEF CallSet
    <3> HIDE DEF d
    <3>3. Nests(pending) /\ Framed(pending, stack)
      BY <3>1, <3>2, PlaceFacts, HeadNests DEF NestInv, h
    <3>4. pending # << >> /\ Head(pending) = d
      BY <3>1, <3>2, PlaceFacts, HeadCallShape
    <3>5. to # Val
      BY <2>2 DEF Val
    <3> QED
      BY <1>3, <3>1, <3>2, <3>3, <3>4, <3>5, PlaceFacts
  <2> QED
    BY <1>1, <2>1, <2>2
<1>5. Nests(calls') /\ Framed(calls', stack')
  BY <1>2, <1>3, <1>4, PlaceFacts, EnterNests
<1>6. calls' # << >> /\ Head(calls') = c
  BY <1>3, PushCallShape
<1>7. ret' = none /\ task' = idle
  BY <1>1 DEF Enter, Running, Binding
<1>8. Depth' = Depth + 1
  BY <1>2, DepthThen, PlaceFacts
<1>9. Placed'
  BY <1>3, <1>6, <1>7, <1>8, PlaceFacts, TaskShapes DEF Placed
<1> QED
  BY <1>5, <1>9 DEF NestInv

\* The innermost call goes on where it is.
LEMMA OnwardNests ==
  ASSUME CallInv, NestInv, calls # << >>, Head(calls).phase # "body", ret = none,
         NEW c \in CallSet, calls' = <<c>> \o Tail(calls),
         c.depth = Head(calls).depth, c.to = Head(calls).to,
         Head(calls).params \subseteq c.params, ret' = ret,
         Depth' = Depth, task'.op # "blockend", Framed(calls', stack) => Framed(calls', stack')
  PROVE  NestInv'
<1>1. Nests(calls') /\ Framed(calls', stack')
  BY PlaceFacts, HeadNests DEF NestInv
<1>2. calls' # << >> /\ Head(calls') = c
  BY PlaceFacts, HeadCallShape
<1>3. Placed'
  BY <1>2, PlaceFacts DEF Placed, NestInv
<1> QED
  BY <1>1, <1>3 DEF NestInv

LEMMA BindDeclNests ==
  ASSUME CallInv, NestInv, NEW x \in Ids, BindDecl(x)
  PROVE  NestInv'
<1> DEFINE f == declared(x)
           h == Head(calls)
           c == [h EXCEPT !.phase = "bind", !.params = @ \cup {x}]
<1>1. /\ calls # << >> /\ h \in CallSet /\ h.phase = "declare" /\ ret = none /\ ret' = ret
      /\ calls' = <<c>> \o Tail(calls) /\ task' = idle
  BY PlaceFacts DEF BindDecl, Binding, Innermost, Decl
<1>2. f \in Frames /\ f.op # "env" /\ f.id = x /\ stack' = <<f>> \o stack
  BY FrameTypes DEF declared, BindDecl, Decl
<1> HIDE DEF f, h
<1>3. /\ c \in CallSet /\ c.to = h.to /\ c.depth = h.depth /\ h.params \subseteq c.params
      /\ x \in c.params
  BY <1>1 DEF CallSet
<1> HIDE DEF c
<1>4. Depth' = Depth /\ Depth' = Count(stack', "env")
  <2>1. Depth' = Count(stack', "env")
    BY DEF Depth, Count, Tagged
  <2> QED
    BY <1>2, <2>1, DepthThen, PlaceFacts
<1>5. ASSUME Framed(calls', stack) PROVE Framed(calls', stack')
  <2>1. /\ calls' \in Seq(CallSet) /\ calls'[1] = c /\ DOMAIN calls' = DOMAIN calls
        /\ \A i \in DOMAIN calls : i # 1 => calls'[i] = calls[i]
        /\ \A i \in DOMAIN calls : i \in Nat /\ i >= 1 /\ calls[i] \in CallSet
    <3>1. calls' \in Seq(CallSet)
      BY <1>1, <1>3, PlaceFacts, PopCallShape, PushCall
    <3> QED
      BY <1>1, <1>3, <3>1, PlaceFacts, HeadCallShape, PopCallShape
  <2>2. ASSUME NEW k \in DOMAIN calls', k # 1 PROVE calls'[k].depth # Depth
    <3>1. calls[k].depth < h.depth
      BY <1>1, <2>1, <2>2, PlaceFacts DEF NestInv, Nests, h
    <3>2. h.depth = Depth
      BY <1>1 DEF NestInv, Placed, h
    <3> QED
      BY <2>1, <2>2, <3>1, <3>2, PlaceFacts, CallFields
  <2> QED
    BY <1>2, <1>3, <1>4, <1>5, <2>1, <2>2, PlaceFacts, FramedPush
<1> QED
  BY <1>1, <1>3, <1>4, <1>5, TaskShapes, OnwardNests DEF h

LEMMA BindArgNests ==
  ASSUME CallInv, NestInv, NEW x \in Ids, BindArg(x)
  PROVE  NestInv'
<1> DEFINE h == Head(calls)
           c == [h EXCEPT !.phase = "declare"]
<1>1. /\ calls # << >> /\ h \in CallSet /\ h.phase = "bind" /\ ret = none /\ ret' = ret
      /\ calls' = <<c>> \o Tail(calls) /\ task = idle
  BY PlaceFacts DEF BindArg, Binding, Innermost, NextParam
<1> HIDE DEF h
<1>2. c \in CallSet /\ c.to = h.to /\ c.depth = h.depth /\ c.params = h.params
  BY <1>1 DEF CallSet
<1> HIDE DEF c
<1>3. stack' = stack /\ task'.op # "blockend"
  BY <1>1, TaskShapes DEF BindArg, Transfer, TransferNew, Borrow, MBorrow, NewRef
<1> QED
  BY <1>1, <1>2, <1>3, DepthThen, OnwardNests DEF h

LEMMA BoundNests ==
  ASSUME CallInv, NestInv, Bound
  PROVE  NestInv'
<1> DEFINE h == Head(calls)
           c(t) == [h EXCEPT !.phase = "body", !.type = t]
<1>1. /\ calls # << >> /\ h \in CallSet /\ h.phase = "declare" /\ ret = none /\ ret' = ret
      /\ task' = idle /\ stack' = stack
  BY PlaceFacts DEF Bound, Binding, Innermost, vars
<1>2. PICK t \in Type : calls' = <<c(t)>> \o Tail(calls)
  BY DEF Bound
<1> HIDE DEF h
<1>3. c(t) \in CallSet /\ c(t).to = h.to /\ c(t).depth = h.depth /\ c(t).params = h.params
  BY <1>1 DEF CallSet
<1> HIDE DEF c
<1> QED
  BY <1>1, <1>2, <1>3, DepthThen, TaskShapes, OnwardNests DEF h

LEMMA DeliversNests ==
  ASSUME CallInv, NestInv, Delivers
  PROVE  NestInv'
<1>1. calls # << >> /\ calls' = Tail(calls) /\ Depth < Head(calls).depth
  BY DEF Delivers, DeliverVoid, DropRef, DeliverOwner, DeliverRef, Ended, Innermost
<1>2. stack' = stack /\ task'.op # "blockend"
  BY DeliverStack, TaskShapes DEF Still
<1>3. ret' # none => Head(calls).to = Val
  BY DEF Delivers, DeliverVoid, DropRef, DeliverOwner, DeliverRef
<1>4. Depth' = Depth
  BY <1>2, DepthThen
<1>5. Nests(calls') /\ Framed(calls', stack')
  BY <1>1, <1>2, PlaceFacts, TailNests DEF NestInv
<1>6. Head(calls) = calls[1] /\ 1 \in DOMAIN calls /\ Head(calls).depth = Depth + 1
  BY <1>1, PlaceFacts DEF NestInv, Placed
<1>7. 2 \in DOMAIN calls => calls' # << >> /\ Head(calls') = calls[2]
  BY <1>1, PlaceFacts, PopCallShape
<1>8. calls' # << >> => 2 \in DOMAIN calls /\ Head(calls') = calls[2]
  BY <1>1, PlaceFacts, PopCallShape
<1>9. 2 \in DOMAIN calls => /\ calls[2].depth < Head(calls).depth
                            /\ calls[2].phase # "body" => Head(calls).depth = calls[2].depth + 1
                            /\ calls[2] \in CallSet
  <2>1. 1 \in DOMAIN calls /\ 1 < 2 /\ 1 + 1 = 2
    BY <1>6
  <2> QED
    BY <1>6, <2>1, PlaceFacts DEF NestInv, Nests
<1>10. Head(calls).to = Val => 2 \in DOMAIN calls /\ calls[2].phase = "body"
  <2>1. 1 \in DOMAIN calls /\ 1 + 1 = 2
    BY <1>6
  <2> QED
    BY <1>6, <2>1 DEF NestInv, Nests
<1>11. Placed'
  <2>1. ASSUME calls' # << >>
        PROVE  /\ Depth' >= Head(calls').depth - 1
               /\ Head(calls').phase # "body" => Depth' = Head(calls').depth
    <3>1. Head(calls') = calls[2] /\ calls[2].depth \in Nat
      BY <1>8, <1>9, <2>1, CallFields
    <3> QED
      BY <1>4, <1>6, <1>8, <1>9, <2>1, <3>1, PlaceFacts
  <2>2. ret' # none => calls' # << >> /\ Head(calls').phase = "body"
    BY <1>3, <1>7, <1>10
  <2> QED
    BY <1>2, <2>1, <2>2 DEF Placed, Innermost
<1> QED
  BY <1>5, <1>11 DEF NestInv

LEMMA NextNestInv ==
  ASSUME CallInv, NestInv, [CallNext]_callVars
  PROVE  NestInv'
<1>1. CASE Running /\ Statement /\ UNCHANGED <<calls, ret>>
  <2>1. CASE Still
    BY <1>1, <2>1, StillNests DEF NestInv, Placed
  <2>2. CASE LeaveBlock
    BY <1>1, <2>2, LeavingNests DEF LeaveBlock, Running
  <2>3. CASE Opening
    BY <1>1, <2>3, OpeningNests
  <2>4. ASSUME NEW x \in Ids, Decl(x) PROVE NestInv'
    BY <1>1, <2>4, DeclNests
  <2> QED
    BY <1>1, <2>1, <2>2, <2>3, <2>4, StatementStack
<1>2. CASE Rewrite /\ UNCHANGED <<calls, ret>>
  <2>1. CASE Still
    BY <1>2, <2>1, StillNests DEF NestInv, Placed
  <2>2. CASE PopDecl \/ RestoreEnv
    BY <1>2, <2>2, PopNests
  <2> QED
    BY <1>2, <2>1, <2>2, RewriteStack DEF CallInv, BlockInv
<1>3. CASE Call \/ CallVal \/ \E x \in Ids : TransferCall(x) \/ BindCall(x)
  <2>1. ASSUME NEW x \in Ids, TransferCall(x) PROVE Entered
    BY <2>1, TransferEntered DEF TransferCall
  <2>2. Entered
    BY <1>3, <2>1, CallEntered, BindEntered
  <2> QED
    BY <2>2, EnteredNests
<1>4. ASSUME (\E p : ValNew(p)) \/ \E x : ValOwner(x) \/ ValRef(x) PROVE NestInv'
  <2>1. stack' = stack /\ env' = env /\ calls' = calls /\ task = idle /\ Innermost("body")
    BY <1>4 DEF ValNew, ValOwner, ValRef, Returning, Running, vars
  <2>2. task' = idle \/ \E l : task' = readTask(l, idle)
    BY <1>4, <2>1 DEF ValNew, ValOwner, ValRef, vars
  <2>3. Still
    BY <2>1, <2>2, TaskShapes DEF Still
  <2> QED
    BY <2>1, <2>3, StillNests
<1>5. CASE Unwind
  BY <1>5, LeavingNests DEF Unwind, NestInv, Placed
<1>6. CASE Delivers
  BY <1>6, DeliversNests
<1>7. CASE UNCHANGED callVars
  <2>1. Still /\ calls' = calls /\ ret' = ret
    BY <1>7 DEF callVars, vars, Still
  <2> QED
    BY <2>1, StillNests DEF NestInv, Placed
<1>8. ASSUME NEW x \in Ids, BindDecl(x) \/ BindArg(x) PROVE NestInv'
  BY <1>8, BindDeclNests, BindArgNests
<1>9. CASE Bound
  BY <1>9, BoundNests
<1> QED
  BY <1>1, <1>2, <1>3, <1>4, <1>5, <1>6, <1>7, <1>8, <1>9
     DEF CallNext, CallStatement, CallRewrite, Delivers

LEMMA InitNestInv == CallInit => NestInv
<1> SUFFICES ASSUME CallInit PROVE NestInv
  OBVIOUS
<1>1. calls = << >> /\ ret = none /\ DOMAIN calls = {}
  BY DEF CallInit
<1> QED
  BY <1>1 DEF NestInv, Nests, Framed, Placed

-----------------------------------------------------------------------------
(* Arguments.                                                              *)

NestedInv == CallInv /\ EnvInv /\ NestInv

\* Where the innermost block begins.
LEMMA InnermostBlock ==
  ASSUME NEW s \in Seq(Frames), Count(s, "env") >= 1
  PROVE  \E m \in DOMAIN s :
           /\ IsSaved(s[m]) /\ s[m].env \in EnvSet
           /\ \A j \in DOMAIN s : s[j].op = "env" => m <= j
           /\ \A i \in DOMAIN s : i < m => Level(s, i) = Count(s, "env")
<1> DEFINE S == {i \in DOMAIN s : s[i].op = "env"}
<1>1. DOMAIN s = 1 .. Len(s) /\ Len(s) \in Nat /\ S \in SUBSET Nat
  OBVIOUS
<1>2. S # {}
  <2>1. S = Tagged(s, "env")
    BY DEF Tagged
  <2>2. S = {} => Count(s, "env") = 0
    BY <2>1, FS_EmptySet DEF Count
  <2> QED
    BY <2>2
<1>3. PICK m \in S : \A i \in S : m <= i
  <2> HIDE DEF S
  <2> QED
    BY <1>1, <1>2, LeastNumber
<1>4. ASSUME NEW i \in DOMAIN s, i < m PROVE Level(s, i) = Count(s, "env")
  <2>1. {j \in i .. Len(s) : s[j].op = "env"} = {j \in DOMAIN s : s[j].op = "env"}
    BY <1>1, <1>3, <1>4
  <2> QED
    BY <2>1 DEF Level, Count, Tagged
<1>5. s[m].env \in EnvSet
  BY <1>3 DEF Frames
<1> QED
  BY <1>3, <1>4, <1>5 DEF IsSaved

LEMMA NestedMeans == NestedInv => ArgumentsMeant
<1> SUFFICES ASSUME NestedInv, Arguing, NEW x \in DOMAIN CallerEnv \ Head(calls).params
             PROVE  MeansSame(x)
  BY DEF ArgumentsMeant
<1>1. calls # << >> /\ Head(calls).phase # "body" /\ task = idle
  BY DEF Arguing, Binding, Innermost
<1>2. /\ stack \in Seq(Frames) /\ Depth = Count(stack, "env") /\ Depth \in Nat
      /\ Head(calls) = calls[1] /\ 1 \in DOMAIN calls
  BY <1>1, PlaceFacts DEF NestedInv
<1>3. Depth = calls[1].depth /\ Depth >= 1
  BY <1>1, <1>2 DEF NestedInv, NestInv, Nests, Placed
<1>4. PICK m \in DOMAIN stack :
        /\ IsSaved(stack[m]) /\ stack[m].env \in EnvSet
        /\ \A j \in DOMAIN stack : stack[j].op = "env" => m <= j
        /\ \A i \in DOMAIN stack : i < m => Level(stack, i) = Depth
  BY <1>2, <1>3, InnermostBlock
<1>5. CallerEnv = stack[m].env
  <2> DEFINE blocks == {i \in DOMAIN stack : stack[i].op = "env"}
  <2>1. m \in blocks /\ \A j \in blocks : m <= j /\ j \in Nat
    BY <1>2, <1>4 DEF IsSaved
  <2>2. \A i \in blocks : (\A j \in blocks : i <= j) => i = m
    BY <2>1
  <2>3. (CHOOSE i \in blocks : \A j \in blocks : i <= j) = m
    <3> HIDE DEF blocks
    <3> QED
      BY <2>1, <2>2
  <2> QED
    BY <2>3 DEF CallerEnv
<1>6. x \in Ids
  BY <1>4, <1>5 DEF EnvSet
<1>7. Shadowed(x, stack, 0, m) \/ Agree(env, stack[m].env, x)
  BY <1>1, <1>4, <1>6, TaskShapes DEF NestedInv, EnvInv, Same
<1>8. ~Shadowed(x, stack, 0, m)
  <2> SUFFICES ASSUME NEW i \in DOMAIN stack, i < m, IsDeclared(stack[i]), stack[i].id = x
               PROVE  FALSE
    BY DEF Shadowed
  <2>1. Level(stack, i) = calls[1].depth
    BY <1>3, <1>4
  <2> QED
    BY <1>1, <1>2, <2>1 DEF NestedInv, NestInv, Framed
<1> QED
  BY <1>5, <1>7, <1>8 DEF Agree, MeansSame

(***************************************************************************)
(* Arguments mean what the caller meant (call.k:25-70): while the          *)
(* parameters of a call are bound, one by one and with other calls among   *)
(* the arguments, a name that is not one of the parameters declared so     *)
(* far leads to the caller's variable.                                     *)
(***************************************************************************)
THEOREM ArgumentsKeepTheirMeaning == CallSpec => []ArgumentsMeant
<1>1. CallInit => NestedInv
  BY InitCallInv, InitEnvInv, InitNestInv DEF CallInit, NestedInv
<1>2. NestedInv /\ [CallNext]_callVars => NestedInv'
  BY NextCallInv, NextEnvInv, NextNestInv DEF NestedInv
<1> QED
  BY <1>1, <1>2, NestedMeans, PTL DEF CallSpec

-----------------------------------------------------------------------------
(* One owner.                                                              *)

\* A resource is in one place.
Unique == \A g, h \in Held : g[2] = h[2] => g = h

(***************************************************************************)
(* The cell c goes before the innermost call has ended: a declaration in   *)
(* its blocks gave it, and the name still leads to it when that            *)
(* declaration is unwound.                                                 *)
(***************************************************************************)
Doomed(c) ==
  \E i \in DOMAIN stack :
    /\ IsDeclared(stack[i]) /\ Level(stack, i) >= Head(calls).depth
    /\ env[stack[i].id] = c
    /\ \A j \in DOMAIN stack :
         j < i /\ IsSaved(stack[j]) => stack[j].env[stack[i].id] = c

\* The cells of a returned resource go before it is delivered.
RetInv ==
  IsRes(ret) =>
    /\ task.op \in {"idle", "blockend"}
    /\ \A c \in DOMAIN store : IsRes(store[c]) /\ store[c].id = ret.id => Doomed(c)

OwnInv == CallFitInv /\ EnvInv /\ Unique /\ RetInv

LEMMA UniqueImplemented == ASSUME Unique, Implements PROVE Unique'
<1> DEFINE Only(H) == \A g, h \in H : g[2] = h[2] => g = h
<1>1. \A H, K : K \subseteq H /\ Only(H) => Only(K)
  OBVIOUS
<1>2. Only(Held)
  BY DEF Unique
<1>3. ASSUME Only(Held') PROVE Unique'
  BY <1>3 DEF Unique
<1>4. CASE U!Create
  <2>1. /\ \A h \in Held : h[2] # timer
        /\ Held' = Held \cup {<<-1, timer>>}
    BY <1>4 DEF U!Create, U!Transit
  <2>2. <<-1, timer>>[2] = timer
    OBVIOUS
  <2>3. Only(Held')
    BY <1>2, <2>1, <2>2
  <2> QED
    BY <1>3, <2>3
<1>5. ASSUME NEW p \in Held, U!Lift(p[1], p[2]) PROVE Unique'
  <2> DEFINE q == <<p[1], p[2]>>
             r == <<-1, p[2]>>
  <2>1. q \in Held /\ Held' = (Held \ {q}) \cup {r}
    BY <1>5 DEF U!Lift, U!Transit
  <2>2. q[2] = p[2] /\ r[2] = p[2]
    OBVIOUS
  <2> HIDE DEF q, r
  <2>3. \A h \in Held \ {q} : h[2] # p[2]
    BY <1>2, <2>1, <2>2
  <2>4. Only(Held')
    BY <1>2, <2>1, <2>2, <2>3
  <2> QED
    BY <1>3, <2>4
<1>6. ASSUME NEW l \in Nat, NEW p \in Held, U!Land(l, p[2]) PROVE Unique'
  <2> DEFINE q == <<-1, p[2]>>
             r == <<l, p[2]>>
             K == {h \in Held : h[1] \notin {l, -1}}
  <2>1. q \in Held /\ Held' = K \cup {r}
    BY <1>6 DEF U!Land, U!Transit
  <2>2. q[2] = p[2] /\ r[2] = p[2] /\ q[1] = -1
    OBVIOUS
  <2> HIDE DEF q, r
  <2>3. K \subseteq Held \ {q}
    BY <2>2
  <2> HIDE DEF K
  <2>4. \A h \in K : h[2] # p[2]
    BY <1>2, <2>1, <2>2, <2>3
  <2>5. Only(Held')
    BY <1>2, <2>1, <2>2, <2>3, <2>4
  <2> QED
    BY <1>3, <2>5
<1>7. ASSUME NEW l \in Nat, U!Drop(l) PROVE Unique'
  <2>1. Held' \subseteq Held
    BY <1>7 DEF U!Drop
  <2> QED
    BY <1>1, <1>2, <1>3, <2>1
<1>8. CASE UNCHANGED U!vars
  <2>1. Held' = Held
    BY <1>8 DEF U!vars
  <2> QED
    BY <1>2, <1>3, <2>1
<1> QED
  BY <1>4, <1>5, <1>6, <1>7, <1>8 DEF Implements, U!Next
LEMMA OwnedIn ==
  ASSUME NEW c \in DOMAIN store, IsRes(store[c])
  PROVE  <<c, store[c].id>> \in Held
BY DEF Held

LEMMA UniqueOwner == Unique => OneOwner
<1> SUFFICES ASSUME Unique, NEW a \in DOMAIN store, NEW b \in DOMAIN store,
                    IsRes(store[a]), IsRes(store[b]), store[a].id = store[b].id
             PROVE  a = b
  BY DEF OneOwner
<1>1. <<a, store[a].id>> \in Held /\ <<b, store[b].id>> \in Held
  BY OwnedIn
<1>2. <<a, store[a].id>>[2] = <<b, store[b].id>>[2]
  OBVIOUS
<1>3. <<a, store[a].id>> = <<b, store[b].id>>
  BY <1>1, <1>2 DEF Unique
<1> QED
  BY <1>3

LEMMA RetKinds == ~IsRes(none) /\ \A l : ~IsRes(loc(l))
BY DEF none, loc, IsRes

\* A returned variable leads to a cell of the function.
LEMMA LocalDoomed ==
  ASSUME OwnInv, NEW x \in Ids, x \in DOMAIN env, task = idle, calls # << >>, Local(x)
  PROVE  Doomed(env[x])
<1>1. /\ stack \in Seq(Frames) /\ DOMAIN stack = 1 .. Len(stack) /\ Len(stack) \in Nat
      /\ calls \in Seq(CallSet)
  BY PlaceFacts DEF OwnInv, CallFitInv
<1>2. PICK i \in DOMAIN stack : stack[i] = declared(x) /\ Level(stack, i) >= Head(calls).depth
  BY DEF Local, Level
<1> DEFINE S == {k \in DOMAIN stack : IsDeclared(stack[k]) /\ stack[k].id = x}
<1>3. i \in S /\ S \in SUBSET Nat
  BY <1>1, <1>2 DEF declared, IsDeclared
<1>4. PICK m \in S : \A k \in S : m <= k
  <2> HIDE DEF S
  <2> QED
    BY <1>3, LeastNumber
<1>5. m \in DOMAIN stack /\ m <= i /\ IsDeclared(stack[m]) /\ stack[m].id = x
  BY <1>3, <1>4
<1>6. Level(stack, m) >= Level(stack, i) /\ Level(stack, m) \in Nat /\ Level(stack, i) \in Nat
  BY <1>1, <1>5, LevelIsNat
<1>7. ASSUME NEW j \in DOMAIN stack, j < m, IsSaved(stack[j])
      PROVE  stack[j].env[x] = env[x]
  <2>1. Shadowed(x, stack, 0, j) \/ Agree(env, stack[j].env, x)
    BY <1>7, TaskShapes DEF OwnInv, EnvInv, Same
  <2>2. ~Shadowed(x, stack, 0, j)
    <3> SUFFICES ASSUME NEW k \in DOMAIN stack, k < j, IsDeclared(stack[k]), stack[k].id = x
                 PROVE  FALSE
      BY DEF Shadowed
    <3>1. k \in S
      OBVIOUS
    <3> QED
      BY <1>1, <1>4, <1>5, <1>7, <3>1
  <2> QED
    BY <2>1, <2>2 DEF Agree
<1>8. Head(calls).depth \in Nat
  BY PlaceFacts DEF OwnInv, CallFitInv
<1>9. Level(stack, m) >= Head(calls).depth
  BY <1>2, <1>6, <1>8
<1> QED
  BY <1>5, <1>7, <1>9 DEF Doomed

\* A cell that is left while blocks end.
LEMMA StillDoomed ==
  ASSUME OwnInv, PopDecl \/ RestoreEnv, UNCHANGED <<calls, ret>>,
         NEW c \in DOMAIN store', Doomed(c)
  PROVE  Doomed(c)'
<1>1. /\ stack \in Seq(Frames) /\ stack # << >> /\ stack' = Tail(stack)
      /\ DOMAIN stack = 1 .. Len(stack) /\ Len(stack) \in Nat
  <2>1. stack \in Seq(Frames)
    BY PlaceFacts DEF OwnInv, CallFitInv
  <2>2. stack # << >> /\ stack' = Tail(stack)
    BY DEF PopDecl, RestoreEnv
  <2> QED
    BY <2>1, <2>2
<1>2. /\ Head(stack) = stack[1]
      /\ \A k \in DOMAIN stack' : k \in Nat /\ k >= 1 /\ k + 1 \in DOMAIN stack
                                  /\ stack'[k] = stack[k + 1]
      /\ \A k \in DOMAIN stack : k # 1 => k - 1 \in DOMAIN stack' /\ stack'[k - 1] = stack[k]
  <2>1. stack' \in Seq(Frames)
    BY <1>1, PopShape
  <2>2. \A k \in DOMAIN stack' : k \in Nat /\ k >= 1
    BY <2>1
  <2> QED
    BY <1>1, <2>2, PopShape
<1>3. PICK i \in DOMAIN stack :
        /\ IsDeclared(stack[i]) /\ Level(stack, i) >= Head(calls).depth
        /\ env[stack[i].id] = c
        /\ \A j \in DOMAIN stack :
             j < i /\ IsSaved(stack[j]) => stack[j].env[stack[i].id] = c
  BY DEF Doomed
<1>4. i # 1
  <2> SUFFICES ASSUME i = 1 PROVE FALSE
    OBVIOUS
  <2>1. Head(stack).op = "decl" /\ Head(stack) = stack[1]
    BY <1>2, <1>3 DEF IsDeclared
  <2>2. PopDecl
    BY <2>1 DEF RestoreEnv
  <2>3. store' = Without(store, env[Head(stack).id])
    BY <2>2 DEF PopDecl
  <2>4. env[Head(stack).id] \notin DOMAIN store'
    BY <2>3 DEF Without
  <2> QED
    BY <1>3, <2>1, <2>4
<1>5. i - 1 \in DOMAIN stack' /\ stack'[i - 1] = stack[i] /\ (i - 1) + 1 = i
  BY <1>1, <1>2, <1>4
<1>6. Level(stack', i - 1) = Level(stack, i)
  BY <1>1, <1>5, LevelPop
<1>7. env'[stack[i].id] = c
  <2>1. CASE PopDecl
    BY <1>3, <2>1 DEF PopDecl
  <2>2. CASE RestoreEnv
    <3>1. IsSaved(stack[1]) /\ env' = stack[1].env
      BY <1>2, <2>2 DEF RestoreEnv, IsSaved
    <3>2. 1 \in DOMAIN stack /\ 1 < i
      BY <1>1, <1>4
    <3> QED
      BY <1>3, <3>1, <3>2
  <2> QED
    BY <2>1, <2>2
<1>8. ASSUME NEW j \in DOMAIN stack', j < i - 1, IsSaved(stack'[j])
      PROVE  stack'[j].env[stack[i].id] = c
  <2>1. j + 1 \in DOMAIN stack /\ stack'[j] = stack[j + 1] /\ j + 1 < i
    BY <1>1, <1>2, <1>8
  <2> QED
    BY <1>3, <1>8, <2>1
<1>9. Level(stack', i - 1) >= Head(calls').depth
  BY <1>3, <1>6
<1> QED
  BY <1>3, <1>5, <1>7, <1>8, <1>9 DEF Doomed

\* At the end of a call, none of its cells is left.
LEMMA NoneDoomed ==
  ASSUME OwnInv, Ended, NEW c PROVE ~Doomed(c)
<1>1. /\ stack \in Seq(Frames) /\ calls # << >> /\ Head(calls).depth \in Nat
      /\ Depth = Count(stack, "env") /\ Depth \in Nat /\ Depth < Head(calls).depth
  BY PlaceFacts DEF OwnInv, CallFitInv, Ended, Innermost
<1>2. \A i \in DOMAIN stack : Level(stack, i) \in Nat /\ Level(stack, i) <= Count(stack, "env")
  BY <1>1, LevelIsNat
<1>3. \A i \in DOMAIN stack : ~(Level(stack, i) >= Head(calls).depth)
  BY <1>1, <1>2
<1> QED
  BY <1>3 DEF Doomed

LEMMA DeliverOwnerUnique == ASSUME OwnInv, DeliverOwner PROVE Unique'
<1>1. /\ store' = store /\ task = idle
      /\ task' = idle \/ task' = putTask(ret, Head(calls).to)
  BY DeliverOwnerCarried DEF OwnInv
<1>2. Ended /\ IsRes(ret)
  BY DEF DeliverOwner
<1>3. \A c \in DOMAIN store : IsRes(store[c]) => store[c].id # ret.id
  BY <1>2, NoneDoomed DEF OwnInv, RetInv
<1>4. Held = Owned(store)
  BY <1>1, HeldIs, TaskShapes DEF Moved
<1>5. \A h \in Held : h[2] # ret.id
  BY <1>3, <1>4 DEF Owned
<1>6. Held' = Owned(store) \/ Held' = Owned(store) \cup {<<-1, ret.id>>}
  BY <1>1, TaskShapes DEF Held, Owned
<1>7. <<-1, ret.id>>[2] = ret.id
  OBVIOUS
<1>8. \A g, h \in Held' : g[2] = h[2] => g = h
  BY <1>4, <1>5, <1>6, <1>7 DEF OwnInv, Unique
<1> QED
  BY <1>8 DEF Unique

\* The value that is returned.
LEMMA NextRet ==
  ASSUME "outer" \notin CallForms, OwnInv, [CallNext]_callVars
  PROVE  RetInv'
<1>1. ASSUME ~IsRes(ret') PROVE RetInv'
  BY <1>1 DEF RetInv
<1>2. ASSUME ret = none, ret' = ret PROVE RetInv'
  BY <1>1, <1>2, RetKinds
<1>3. CASE UNCHANGED callVars
  BY <1>3 DEF callVars, vars, OwnInv, RetInv, Doomed, Level
<1>4. ASSUME task' = idle, store' = store, ret'.id = timer PROVE RetInv'
  <2>1. \A c \in DOMAIN store : IsRes(store[c]) => store[c].id < timer
    BY GivenPlaces DEF OwnInv, CallFitInv, FitInv, Fits, Given
  <2>2. \A c \in DOMAIN store' : IsRes(store'[c]) => store'[c].id # ret'.id
    BY <1>4, <2>1, GivenPlaces DEF OwnInv, CallFitInv
  <2> QED
    BY <1>4, <2>2, TaskShapes DEF RetInv
<1>5. ASSUME NEW p, ValNew(p) PROVE RetInv'
  <2>1. task' = idle /\ store' = store /\ ret' = rs(p, timer)
    BY <1>5 DEF ValNew, Returning, Running, vars
  <2> QED
    BY <1>4, <2>1, RsFields
<1>6. ASSUME NEW x \in Ids, ValOwner(x) PROVE RetInv'
  <2> DEFINE r == store[env[x]]
  <2>1. /\ UNCHANGED <<env, store, stack, calls>> /\ task = idle /\ task' = idle
        /\ x \in DOMAIN env /\ env[x] \in DOMAIN store /\ IsRes(r) /\ calls # << >>
        /\ Local(x)
    BY <1>6 DEF ValOwner, Returning, Running, vars
  <2>2. ret' = rs(r.props, timer) \/ ret' = r
    BY <1>6 DEF ValOwner
  <2>3. CASE ret' = rs(r.props, timer)
    BY <1>4, <2>1, <2>3, RsFields
  <2>4. CASE ret' = r
    <3>1. Doomed(env[x])
      BY <2>1, LocalDoomed
    <3>2. ASSUME NEW c \in DOMAIN store, IsRes(store[c]), store[c].id = r.id
          PROVE  c = env[x]
      <4>1. /\ <<c, store[c].id>> \in Held /\ <<env[x], r.id>> \in Held
        BY <2>1, <3>2, OwnedIn
      <4>2. <<c, store[c].id>>[2] = <<env[x], r.id>>[2]
        BY <3>2
      <4>3. <<c, store[c].id>> = <<env[x], r.id>>
        BY <4>1, <4>2 DEF OwnInv, Unique
      <4> QED
        BY <4>3
    <3>3. \A c \in DOMAIN store : IsRes(store[c]) /\ store[c].id = ret'.id => Doomed(c)
      BY <2>4, <3>1, <3>2
    <3>4. \A c : Doomed(c) => Doomed(c)'
      BY <2>1 DEF Doomed, Level
    <3> QED
      BY <2>1, <3>3, <3>4, TaskShapes DEF RetInv
  <2> QED
    BY <2>2, <2>3, <2>4
<1>7. ASSUME NEW x, ValRef(x) PROVE RetInv'
  BY <1>1, <1>7, RetKinds DEF ValRef
<1>8. CASE Rewrite /\ UNCHANGED <<calls, ret>>
  <2>1. CASE ~IsRes(ret)
    BY <1>1, <1>8, <2>1
  <2>2. CASE IsRes(ret)
    <3>1. task.op \in {"idle", "blockend"}
      BY <2>2 DEF OwnInv, RetInv
    <3>2. PopDecl \/ RestoreEnv
      BY <1>8, <3>1
         DEF Rewrite, MoveOwner, CopyOwner, TransferRef, Moving, PutOwner, PutThrough,
             ReadRef, ReadOwner, ShareImm, MoveMut
    <3>3. /\ task' = task \/ task' = idle
          /\ DOMAIN store' \subseteq DOMAIN store
          /\ \A c \in DOMAIN store' : store'[c] = store[c]
      BY <3>2 DEF PopDecl, RestoreEnv, Without
    <3>4. ASSUME NEW c \in DOMAIN store', IsRes(store'[c]), store'[c].id = ret'.id
          PROVE  Doomed(c)'
      <4>1. c \in DOMAIN store /\ IsRes(store[c]) /\ store[c].id = ret.id
        BY <1>8, <3>3, <3>4
      <4>2. Doomed(c)
        BY <2>2, <4>1 DEF OwnInv, RetInv
      <4> QED
        BY <1>8, <3>2, <4>2, StillDoomed
    <3> QED
      BY <3>1, <3>3, <3>4, TaskShapes DEF RetInv
  <2> QED
    BY <2>1, <2>2
<1>9. CASE Unwind
  <2>1. UNCHANGED <<env, store, stack, calls, ret>> /\ task'.op = "blockend"
    BY <1>9, TaskShapes DEF Unwind
  <2>2. \A c : Doomed(c) => Doomed(c)'
    BY <2>1 DEF Doomed, Level
  <2> QED
    BY <2>1, <2>2 DEF OwnInv, RetInv
<1>10. CASE DeliverOwner
  <2>1. CASE ret' = none
    BY <1>1, <2>1, RetKinds
  <2>2. CASE ret' = ret /\ task' = idle
    <3>1. store' = store /\ IsRes(ret)
      BY <1>10 DEF DeliverOwner
    <3>2. \A c \in DOMAIN store : IsRes(store[c]) => store[c].id # ret.id
      BY <1>10, <3>1, NoneDoomed DEF DeliverOwner, OwnInv, RetInv
    <3> QED
      BY <2>2, <3>1, <3>2, TaskShapes DEF RetInv
  <2>3. ret' = none \/ (ret' = ret /\ task' = idle)
    BY <1>10 DEF DeliverOwner, Val
  <2> QED
    BY <2>1, <2>2, <2>3
<1>11. CASE DeliverVoid
  BY <1>2, <1>11 DEF DeliverVoid
<1>12. CASE DropRef \/ DeliverRef
  BY <1>1, <1>12, RetKinds DEF DropRef, DeliverRef
<1>13. CASE Running /\ Statement /\ UNCHANGED <<calls, ret>>
  BY <1>2, <1>13 DEF Running
<1>14. CASE Call \/ CallVal \/ \E x \in Ids : TransferCall(x) \/ BindCall(x)
  BY <1>2, <1>14
     DEF Call, CallVal, TransferCall, BindCall, CallInto, Enter, Running, Binding
<1>15. CASE Bound \/ \E x \in Ids : BindDecl(x) \/ BindArg(x)
  BY <1>2, <1>15 DEF Bound, BindDecl, BindArg, Binding
<1> QED
  BY <1>3, <1>5, <1>6, <1>7, <1>8, <1>9, <1>10, <1>11, <1>12, <1>13, <1>14, <1>15
     DEF CallNext, CallStatement, CallRewrite

LEMMA NextOwnInv ==
  ASSUME "outer" \notin CallForms, OwnInv, [CallNext]_callVars
  PROVE  OwnInv'
<1>1. CallFitInv'
  BY NextCallFit DEF OwnInv
<1>2. EnvInv'
  BY NextEnvInv DEF OwnInv, CallFitInv
<1>3. Unique'
  BY CallResources, UniqueImplemented, DeliverOwnerUnique DEF OwnInv
<1> QED
  BY <1>1, <1>2, <1>3, NextRet DEF OwnInv

LEMMA InitOwnInv == CallInit => OwnInv
<1> SUFFICES ASSUME CallInit PROVE OwnInv
  OBVIOUS
<1>1. CallFitInv /\ EnvInv
  BY InitCallFit, InitEnvInv DEF CallInit
<1>2. DOMAIN store = {} /\ task.op = "idle" /\ ret = none
  BY TaskShapes DEF CallInit, Init
<1>3. Held = {}
  BY <1>2 DEF Held
<1>4. Unique
  BY <1>3 DEF Unique
<1> QED
  BY <1>1, <1>2, <1>4, RetKinds DEF OwnInv, RetInv

(***************************************************************************)
(* There exists only one owner at a time for a resource (concepts.tex:13), *)
(* also when val(x) hands the resource of a variable to the caller         *)
(* (call.k:53-70): the cell it leaves is gone before the caller gets the   *)
(* resource.  This is true of functions that return what they own; one     *)
(* that returns the variable of another leaves the resource behind.        *)
(***************************************************************************)
THEOREM CallsKeepOneOwner == ASSUME "outer" \notin CallForms PROVE CallSpec => []OneOwner
<1>1. OwnInv /\ [CallNext]_callVars => OwnInv'
  BY NextOwnInv
<1>2. OwnInv => OneOwner
  BY UniqueOwner DEF OwnInv
<1> QED
  BY <1>1, <1>2, InitOwnInv, PTL DEF CallSpec

=============================================================================
