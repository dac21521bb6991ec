----------------------------- MODULE Ownership -----------------------------
(***************************************************************************)
(* One <state> of the OSL configuration executing a program.               *)
(*                                                                         *)
(* The program is the environment: whenever the previous statement is      *)
(* done it offers any statement of the forms in Forms.  A statement K      *)
(* cannot rewrite leaves the state stuck, which is how OSL rejects a       *)
(* program; here the action is not enabled, so a behaviour is a prefix of  *)
(* an accepted execution and what the invariants say is said of every      *)
(* accepted program.  A statement that takes several rewrites leaves the   *)
(* rest of its work in "task", the head of the <k> cell.                   *)
(***************************************************************************)
EXTENDS Borrows, Sequences, FiniteSets

CONSTANTS
  Ids,       (* the identifiers of the program                             *)
  Forms,     (* the statement forms the program uses                       *)
  PropLists, (* the property lists of the resources it creates             *)
  MaxTime,   (* bound: clock ticks of an execution                         *)
  MaxDepth   (* bound: nested blocks                                       *)

(***************************************************************************)
(* Forms of statements; "deref" lets an lvalue be *x and "through" lets a  *)
(* transfer reach its target by a mutable reference.                       *)
(***************************************************************************)
AllForms == {"decl", "new", "transfer", "borrow", "mborrow", "rd", "deallocate",
             "block", "unsafe", "deref", "through"}

ASSUME FormsAssumption == Forms \subseteq AllForms
ASSUME PropsAssumption == PropLists \subseteq SUBSET Prop
ASSUME BoundsAssumption == MaxTime \in Nat /\ MaxDepth \in Nat

VARIABLES
  env,        (* <env>: identifiers in scope to locations                  *)
  store,      (* <store>: locations to values                              *)
  stack,      (* <stack>: declarations, and the environments of blocks     *)
  write,      (* <write>: the log of #writev(location, time)               *)
  timer,      (* <timer>                                                   *)
  index,      (* first component of <indexes>                              *)
  unsafe,     (* <unsafe-mode>                                             *)
  task,       (* what is left of the current statement                     *)
  wasUnsafe   (* history: the program has entered an unsafe block          *)

vars == <<env, store, stack, write, timer, index, unsafe, task, wasUnsafe>>

-----------------------------------------------------------------------------
(* What the head of <k> can be between two rewrites. *)

idle == [op |-> "idle"]
transferTask(from, to) == [op |-> "transfer", from |-> from, to |-> to]
putTask(res, to) == [op |-> "put", res |-> res, to |-> to]
shareTask(kind, target, from, to) ==
  [op |-> "share", kind |-> kind, target |-> target, from |-> from, to |-> to]
readTask(at, next) == [op |-> "read", at |-> at, next |-> next]
blockendTask == [op |-> "blockend"]

declared(x) == [op |-> "decl", id |-> x]
saved(e, u) == [op |-> "env", env |-> e, unsafe |-> u]

LValue == [id : Ids, deref : IF "deref" \in Forms THEN BOOLEAN ELSE {FALSE}]

Idle(form) == task = idle /\ form \in Forms

\* Mutant: a borrow counts its index but not its time.
Tick_indexOnly == index' = index + 1 /\ timer' = timer

\* #increaseIndex ~> #increaseTimer
Tick == index' = index + 1 /\ timer' = timer + 1

\* Mutant: an immutable reference is used without looking at the writes.
Usable_noWrites(l, kind, st, ws) ==
  \/ unsafe
  \/ IF kind = "imm"
       THEN ~borrowimmck(l, st, st[l].beg, timer, st[l].to)
       ELSE ~borrowmutck(l, st, st[l].beg, timer, st[l].to)

(***************************************************************************)
(* The checks #borrowImmCK and #borrowMutCK make before a reference at l   *)
(* is used, and the new lifetime they give it.                             *)
(***************************************************************************)
Usable(l, kind, st, ws) ==
  \/ unsafe
  \/ /\ IF kind = "imm"
          THEN ~borrowimmck(l, st, st[l].beg, timer, st[l].to)
          ELSE ~borrowmutck(l, st, st[l].beg, timer, st[l].to)
     /\ writeCK(st[l].to, st[l].beg, timer, ws)

Used(l, kind, st) ==
  Upd(st, l, br(kind, st[l].beg, timer, st[l].to, st[l].saw))

(***************************************************************************)
(* #lv: the results of evaluating an lvalue, a location and the store.     *)
(* The two rules for *x both match an immutable reference only; the second *)
(* checks and rewrites it as a mutable one.                                *)
(***************************************************************************)
Lv(e, st, ws) ==
  LET l == env[e.id]
  IN  IF e.id \notin DOMAIN env THEN {}
      ELSE IF ~e.deref THEN {[loc |-> l, store |-> st]}
      ELSE {[loc |-> st[l].to, store |-> Used(l, kind, st)] :
              kind \in {k \in {"imm", "mut"} :
                          /\ l \in DOMAIN st
                          /\ st[l].kind = "imm"
                          /\ Usable(l, k, st, ws)}}

\* The strict arguments of #Transfer, evaluated in either order.
Operands(e, t, ws) ==
  LET left(f) == {[from |-> f.loc, to |-> d.loc, store |-> d.store] :
                    d \in Lv(t, f.store, ws)}
      right(d) == {[from |-> f.loc, to |-> d.loc, store |-> f.store] :
                     f \in Lv(e, d.store, ws)}
  IN  (UNION {left(f) : f \in Lv(e, store, ws)})
        \cup (UNION {right(d) : d \in Lv(t, store, ws)})

-----------------------------------------------------------------------------
Init ==
  /\ env = << >>
  /\ store = << >>
  /\ stack = << >>
  /\ write = {}
  /\ timer = 0
  /\ index = 0
  /\ unsafe = FALSE
  /\ task = idle
  /\ wasUnsafe = FALSE

\* Mutant: the new location is the number of cells there are.
Decl_reuse(x) ==
  /\ Idle("decl")
  /\ timer < MaxTime
  /\ env' = Upd(env, x, Cardinality(DOMAIN store))
  /\ store' = Upd(store, Cardinality(DOMAIN store), uninit)
  /\ stack' = <<declared(x)>> \o stack
  /\ Tick
  /\ UNCHANGED <<write, unsafe, task, wasUnsafe>>

\* decl X: a new location, named by the index.
Decl(x) ==
  /\ Idle("decl")
  /\ timer < MaxTime
  /\ env' = Upd(env, x, index)
  /\ store' = Upd(store, index, uninit)
  /\ stack' = <<declared(x)>> \o stack
  /\ Tick
  /\ UNCHANGED <<write, unsafe, task, wasUnsafe>>

\* Mutant: the target of a transfer is not logged.
Logged_not(t) == write

\* The write that a transfer to t logs before it evaluates anything.
Logged(t) == write \cup {[loc |-> env[t.id], at |-> timer]}

\* transfer newResource(props) t
TransferNew(props, t) ==
  /\ Idle("new")
  /\ timer < MaxTime
  /\ t.id \in DOMAIN env
  /\ write' = Logged(t)
  /\ \E d \in Lv(t, store, write') :
       /\ store' = d.store
       /\ task' = putTask(rs(props, timer), d.loc)
  /\ UNCHANGED <<env, stack, timer, index, unsafe, wasUnsafe>>

\* transfer e t, up to #Transfer(#loc(from), #loc(to)).
Transfer(e, t) ==
  /\ Idle("transfer")
  /\ timer < MaxTime
  /\ {e.id, t.id} \subseteq DOMAIN env
  /\ write' = Logged(t)
  /\ \E o \in Operands(e, t, write') :
       /\ store' = o.store
       /\ task' = transferTask(o.from, o.to)
  /\ UNCHANGED <<env, stack, timer, index, unsafe, wasUnsafe>>

\* The condition of #Transfer => #TransferV: no reference is in use now.
Unborrowed(l) ==
  \A kind \in {"imm", "mut"} : FALSE \in existRef(kind, l, store, index)

Moving(kinds) ==
  /\ task.op = "transfer"
  /\ Unborrowed(task.from)
  /\ task.from \in DOMAIN store
  /\ store[task.from].kind \in kinds

\* Mutant: the old owner keeps the resource it moved.
MoveOwner_keep ==
  /\ Moving({"rs"})
  /\ "copy" \notin store[task.from].props
  /\ store' = store
  /\ task' = putTask(store[task.from], task.to)
  /\ UNCHANGED <<env, stack, write, timer, index, unsafe, wasUnsafe>>

\* #TransferV of a resource without copy: its owner loses it.
MoveOwner ==
  /\ Moving({"rs"})
  /\ "copy" \notin store[task.from].props
  /\ store' = Upd(store, task.from, uninit)
  /\ task' = putTask(store[task.from], task.to)
  /\ UNCHANGED <<env, stack, write, timer, index, unsafe, wasUnsafe>>

\* #TransferV of a resource with copy: a new resource of the same properties.
CopyOwner ==
  /\ Moving({"rs"})
  /\ "copy" \in store[task.from].props
  /\ task' = putTask(rs(store[task.from].props, timer), task.to)
  /\ UNCHANGED <<env, store, stack, write, timer, index, unsafe, wasUnsafe>>

\* #TransferV of a reference: it is read first (#TransferIB, #TransferMB).
TransferRef ==
  /\ Moving({"imm", "mut"})
  /\ LET r == store[task.from]
     IN  task' = readTask(task.from, shareTask(r.kind, r.to, task.from, task.to))
  /\ UNCHANGED <<env, store, stack, write, timer, index, unsafe, wasUnsafe>>

\* #Transfer(#rs, #loc) into a cell that is uninitialised or an owner.
PutOwner ==
  /\ task.op = "put"
  /\ task.to \in DOMAIN store
  /\ ~IsRef(store[task.to])
  /\ store' = Upd(store, task.to, task.res)
  /\ task' = idle
  /\ Tick
  /\ UNCHANGED <<env, stack, write, unsafe, wasUnsafe>>

\* #Transfer(#rs, #loc) into a mutable reference: on to its target.
PutThrough ==
  /\ task.op = "put"
  /\ "through" \in Forms
  /\ task.to \in DOMAIN store
  /\ store[task.to].kind = "mut"
  /\ task' = putTask(task.res, store[task.to].to)
  /\ UNCHANGED <<env, store, stack, write, timer, index, unsafe, wasUnsafe>>

\* Mutant: after the check the same reference is read again.
ReadRef_again ==
  /\ task.op = "read"
  /\ task.at \in DOMAIN store
  /\ IsRef(store[task.at])
  /\ Usable(task.at, store[task.at].kind, store, write)
  /\ store' = Used(task.at, store[task.at].kind, store)
  /\ UNCHANGED <<env, stack, write, timer, index, unsafe, task, wasUnsafe>>

\* rd of a location that holds a reference: check it, then read its target.
ReadRef ==
  /\ task.op = "read"
  /\ task.at \in DOMAIN store
  /\ IsRef(store[task.at])
  /\ Usable(task.at, store[task.at].kind, store, write)
  /\ store' = Used(task.at, store[task.at].kind, store)
  /\ task' = readTask(store[task.at].to, task.next)
  /\ UNCHANGED <<env, stack, write, timer, index, unsafe, wasUnsafe>>

\* rd of a location that holds a resource: nothing is checked or recorded.
ReadOwner ==
  /\ task.op = "read"
  /\ task.at \in DOMAIN store
  /\ IsRes(store[task.at])
  /\ task' = task.next
  /\ UNCHANGED <<env, store, stack, write, timer, index, unsafe, wasUnsafe>>

\* #TransferIB: a second immutable reference to the same target.
ShareImm ==
  /\ task.op = "share" /\ task.kind = "imm"
  /\ task.to \in DOMAIN store
  /\ store' = Upd(store, task.to,
                br("imm", index, index, task.target, ResAt(task.target, store)))
  /\ task' = idle
  /\ Tick
  /\ UNCHANGED <<env, stack, write, unsafe, wasUnsafe>>

\* #TransferMB ~> #uninitialize: the mutable reference moves.
MoveMut ==
  /\ task.op = "share" /\ task.kind = "mut"
  /\ task.from \in DOMAIN store
  /\ store' = Upd(Upd(store, task.to,
                    br("mut", index, index, task.target, ResAt(task.target, store))),
                  task.from, uninit)
  /\ task' = idle
  /\ Tick
  /\ UNCHANGED <<env, stack, write, unsafe, wasUnsafe>>

\* rd(x);
Rd(x) ==
  /\ Idle("rd")
  /\ x \in DOMAIN env
  /\ task' = readTask(env[x], idle)
  /\ UNCHANGED <<env, store, stack, write, timer, index, unsafe, wasUnsafe>>

\* Mutant: the lifetime of a new reference has no end yet.
NewRef_open(kind, x, y) ==
  /\ timer < MaxTime
  /\ {x, y} \subseteq DOMAIN env
  /\ env[y] \in DOMAIN store
  /\ checkInit(env[y], store)
  /\ store' = Upd(store, env[x],
                br(kind, index, -1, env[y], ResAt(env[y], store)))
  /\ Tick
  /\ UNCHANGED <<env, stack, write, unsafe, task, wasUnsafe>>

\* A new reference at x to the location of y: x borrow y, x mborrow y.
NewRef(kind, x, y) ==
  /\ timer < MaxTime
  /\ {x, y} \subseteq DOMAIN env
  /\ env[y] \in DOMAIN store
  /\ checkInit(env[y], store)
  /\ store' = Upd(store, env[x],
                br(kind, index, index, env[y], ResAt(env[y], store)))
  /\ Tick
  /\ UNCHANGED <<env, stack, write, unsafe, task, wasUnsafe>>

Borrow(x, y) == Idle("borrow") /\ NewRef("imm", x, y)

MBorrow(x, y) ==
  /\ Idle("mborrow")
  /\ NewRef("mut", x, y)
  /\ IsRes(store[env[y]])
  /\ "mut" \in store[env[y]].props

\* deallocate e: the owner at e (or at the target of e) gives it back.
Deallocate(e) ==
  /\ Idle("deallocate")
  /\ e.id \in DOMAIN env
  /\ \E d \in Lv(e, store, write) :
       /\ d.loc \in DOMAIN d.store
       /\ IsRes(d.store[d.loc])
       /\ store' = Upd(d.store, d.loc, uninit)
  /\ UNCHANGED <<env, stack, write, timer, index, unsafe, task, wasUnsafe>>

\* The blocks that are open.
Depth == Cardinality({i \in DOMAIN stack : stack[i].op = "env"})

\* { ... and unsafe { ...; the saved environment remembers which it was.
EnterBlock ==
  /\ Idle("block")
  /\ Depth < MaxDepth
  /\ stack' = <<saved(env, FALSE)>> \o stack
  /\ UNCHANGED <<env, store, write, timer, index, unsafe, task, wasUnsafe>>

EnterUnsafe ==
  /\ Idle("unsafe")
  /\ Depth < MaxDepth
  /\ stack' = <<saved(env, TRUE)>> \o stack
  /\ unsafe' = TRUE
  /\ wasUnsafe' = TRUE
  /\ UNCHANGED <<env, store, write, timer, index, task>>

\* ... }
LeaveBlock ==
  /\ task = idle
  /\ Depth > 0
  /\ task' = blockendTask
  /\ UNCHANGED <<env, store, stack, write, timer, index, unsafe, wasUnsafe>>

\* Mutant: the location of a local is left in the store.
PopDecl_leak ==
  /\ task.op = "blockend" /\ stack # << >>
  /\ Head(stack).op = "decl"
  /\ LET x == Head(stack).id
     IN  x \in DOMAIN env /\ env[x] \in DOMAIN store
  /\ stack' = Tail(stack)
  /\ UNCHANGED <<env, store, write, timer, index, unsafe, task, wasUnsafe>>

\* #blockend with a declaration on the stack: its location goes.
PopDecl ==
  /\ task.op = "blockend" /\ stack # << >>
  /\ Head(stack).op = "decl"
  /\ LET x == Head(stack).id
     IN  /\ x \in DOMAIN env
         /\ env[x] \in DOMAIN store
         /\ store' = Without(store, env[x])
  /\ stack' = Tail(stack)
  /\ UNCHANGED <<env, write, timer, index, unsafe, task, wasUnsafe>>

\* Mutant: the environment of the block that ends stays.
RestoreEnv_not ==
  /\ task.op = "blockend" /\ stack # << >>
  /\ Head(stack).op = "env"
  /\ unsafe' = IF Head(stack).unsafe THEN FALSE ELSE unsafe
  /\ stack' = Tail(stack)
  /\ task' = idle
  /\ UNCHANGED <<env, store, write, timer, index, wasUnsafe>>

\* Mutant: the end of an unsafe block does not switch the checks on again.
RestoreEnv_unsafe ==
  /\ task.op = "blockend" /\ stack # << >>
  /\ Head(stack).op = "env"
  /\ env' = Head(stack).env
  /\ stack' = Tail(stack)
  /\ task' = idle
  /\ UNCHANGED <<store, write, timer, index, unsafe, wasUnsafe>>

\* #blockend with an environment on the stack, then #unsafeBlockend.
RestoreEnv ==
  /\ task.op = "blockend" /\ stack # << >>
  /\ Head(stack).op = "env"
  /\ env' = Head(stack).env
  /\ unsafe' = IF Head(stack).unsafe THEN FALSE ELSE unsafe
  /\ stack' = Tail(stack)
  /\ task' = idle
  /\ UNCHANGED <<store, write, timer, index, wasUnsafe>>

-----------------------------------------------------------------------------
\* The program's next statement.
Statement ==
  \/ \E x \in Ids : Decl(x) \/ Rd(x)
  \/ \E p \in PropLists, t \in LValue : TransferNew(p, t)
  \/ \E e, t \in LValue : Transfer(e, t)
  \/ \E x, y \in Ids : Borrow(x, y) \/ MBorrow(x, y)
  \/ \E e \in LValue : Deallocate(e)
  \/ EnterBlock \/ EnterUnsafe \/ LeaveBlock

\* The rewrites that carry on with the current one.
Rewrite ==
  \/ MoveOwner \/ CopyOwner \/ TransferRef
  \/ PutOwner \/ PutThrough
  \/ ReadRef \/ ReadOwner
  \/ ShareImm \/ MoveMut
  \/ PopDecl \/ RestoreEnv

Next == Statement \/ Rewrite

\* krun applies rules as long as one applies; the program owes nothing.
Spec == Init /\ [][Next]_vars /\ WF_vars(Rewrite)

-----------------------------------------------------------------------------
Task ==
  LET share == [op : {"share"}, kind : {"imm", "mut"}, target : Nat, from : Nat, to : Nat]
  IN  {idle, blockendTask}
        \cup [op : {"transfer"}, from : Nat, to : Nat]
        \cup [op : {"put"}, res : Resource, to : Nat]
        \cup share
        \cup [op : {"read"}, at : Nat, next : {idle} \cup share]

IsEnv(e) == \E D \in SUBSET Ids : e \in [D -> Nat]

IsFrame(f) ==
  \/ f \in [op : {"decl"}, id : Ids]
  \/ /\ DOMAIN f = {"op", "env", "unsafe"}
     /\ f.op = "env" /\ IsEnv(f.env) /\ f.unsafe \in BOOLEAN

\* The types of the cells of a <state>.
TypeOK ==
  /\ IsEnv(env)
  /\ DOMAIN store \subseteq Nat /\ \A l \in DOMAIN store : store[l] \in Value
  /\ \A i \in 1 .. Len(stack) : IsFrame(stack[i])
  /\ write \subseteq [loc : Nat, at : Nat]
  /\ timer \in Nat /\ index \in Nat
  /\ unsafe \in BOOLEAN /\ wasUnsafe \in BOOLEAN
  /\ task \in Task

-----------------------------------------------------------------------------
RefLocs == {l \in DOMAIN store : IsRef(store[l])}

Disjoint(r, s) == r.end <= s.beg \/ s.end <= r.beg

(***************************************************************************)
(* Data-race freedom (osl.k:212-340).  Two references to one target, one   *)
(* of them mutable, are never in use at the same time: of their lifetimes, *)
(* one has ended when the other starts.  Whatever the order of borrows,    *)
(* uses and moves; only an unsafe block switches the checks off.           *)
(***************************************************************************)
NoDataRace ==
  ~wasUnsafe =>
    \A a, b \in RefLocs :
      /\ a # b
      /\ store[a].to = store[b].to
      /\ "mut" \in {store[a].kind, store[b].kind}
      => Disjoint(store[a], store[b])

(***************************************************************************)
(* Writes respect lifetimes (osl.k:49-67, 196-208): no transfer to a       *)
(* variable is logged between the creation of a reference to it and the    *)
(* last use of that reference.                                             *)
(***************************************************************************)
WritesExclusive ==
  ~wasUnsafe =>
    \A l \in RefLocs, w \in write :
      w.loc = store[l].to => ~(store[l].beg <= w.at /\ w.at < store[l].end)

(***************************************************************************)
(* A reference that passes the checks leads to the resource its target     *)
(* held when it was created, or to none (osl.k:173-232): not to one that   *)
(* took its place after a move, a deallocation or an assignment.           *)
(***************************************************************************)
SameResource ==
  \A l \in RefLocs :
    /\ ~unsafe
    /\ Usable(l, store[l].kind, store, write)
    /\ ResAt(store[l].to, store) # NoRes
    => ResAt(store[l].to, store) = store[l].saw

(***************************************************************************)
(* Lifetimes are measured on one clock although two cells count it         *)
(* (osl.k:28-33, 74-78, 352-379): references start on <indexes> and end on *)
(* <timer>, the log of writes is stamped with <timer>.                     *)
(***************************************************************************)
OneClock ==
  /\ timer = index
  /\ \A l \in RefLocs : store[l].beg <= store[l].end /\ store[l].end <= timer
  /\ \A w \in write : w.at <= timer

(***************************************************************************)
(* Scopes (block.k:14-33): between two statements every variable in scope, *)
(* of this block and of the blocks around it, has its cell.                *)
(***************************************************************************)
ScopesLive ==
  task = idle =>
    /\ \A x \in DOMAIN env : env[x] \in DOMAIN store
    /\ \A i \in DOMAIN stack :
         stack[i].op = "env" =>
           \A x \in DOMAIN stack[i].env : stack[i].env[x] \in DOMAIN store

\* The declarations whose blocks have not ended.
Declarations == {i \in DOMAIN stack : stack[i].op = "decl"}

\* A block gives back the cells it declared (block.k:26-29): there is one cell
\* per pending declaration, also half-way through the unwinding.
NoStrayCells == Cardinality(DOMAIN store) = Cardinality(Declarations)

(***************************************************************************)
(* A dangling reference stays one (osl.k:28-33, block.k:26-29): the cell   *)
(* of a variable that left its scope is never given to another variable.   *)
(***************************************************************************)
StaysDangling ==
  [][\A l \in RefLocs :
       store[l].to \notin DOMAIN store => store[l].to \notin DOMAIN store']_vars

(***************************************************************************)
(* Only a transfer that names a cell fills it when it is empty: a resource *)
(* given back is not brought back by a reference that is left.             *)
(***************************************************************************)
NoRevival ==
  [][task.op = "put" /\ task.to \in DOMAIN store /\ store[task.to] = uninit
       => store'[task.to] = uninit \/ [loc |-> task.to, at |-> timer] \in write]_vars

(***************************************************************************)
(* A resource is not moved while a reference to its owner is in use.       *)
(***************************************************************************)
NoMoveInUse ==
  [][task.op = "transfer" /\ task'.op = "put"
       => \A l \in RefLocs : store[l].to = task.from => store[l].end < index]_vars

\* References that lead to each other in a circle.
Cyclic == \E C \in SUBSET RefLocs : C # {} /\ \A l \in C : store[l].to \in C

\* No rule applies to what is left of the statement.
Stuck == ~ENABLED Rewrite

(***************************************************************************)
(* A read comes to an end: it reaches a resource or is stuck, unless the   *)
(* references have been tied into a cycle (osl.k:173-193).                 *)
(***************************************************************************)
ReadEnds == task.op = "read" ~> (task.op # "read" \/ Cyclic \/ Stuck)

\* One of the open blocks is unsafe.
InUnsafe == \E i \in DOMAIN stack : stack[i].op = "env" /\ stack[i].unsafe

\* The checks are off only inside an unsafe block, however blocks are nested
\* and wherever they are left (block.k:36-40).
UnsafeInside == unsafe => InUnsafe

-----------------------------------------------------------------------------
\* Where resources are: in a cell, or in transit while #Transfer(#rs, _) is on <k>.
Held ==
  {<<l, store[l].id>> : l \in {c \in DOMAIN store : IsRes(store[c])}}
    \cup (IF task.op = "put" THEN {<<-1, task.res.id>>} ELSE {})

R == INSTANCE Resources WITH Loc <- 0 .. MaxTime, holds <- Held, clock <- timer

(***************************************************************************)
(* The rules implement Resources (osl.k:107-171): a resource is created    *)
(* once, is in one place at a time and does not come back once it is gone. *)
(***************************************************************************)
ResourcesImplemented == R!Spec

=============================================================================
