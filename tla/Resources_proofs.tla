-------------------------- MODULE Resources_proofs --------------------------
(***************************************************************************)
(* Resources, for every set of identifiers, every class of programs and    *)
(* every bound: the rules of a <state> implement Resources.  And, for      *)
(* programs that reach a cell by its name only: a reference that passes    *)
(* its checks leads to the resource it was made for, a dangling one stays  *)
(* so, and every cell belongs to a declaration.                            *)
(***************************************************************************)
EXTENDS Blocks_proofs, FiniteSetTheorems

\* What is left of a statement when its reads are done.
AfterReads(t) == IF t.op = "read" THEN t.next ELSE t

\* A store of the locations and the resources given out so far.
Fits(st, now) ==
  /\ DOMAIN st \subseteq Given(now)
  /\ \A l \in DOMAIN st :
       /\ IsRef(st[l]) => st[l].to \in Given(now)
       /\ IsRes(st[l]) => st[l].id \in Given(now)

(***************************************************************************)
(* A statement half-way: it names locations that were given out, and a     *)
(* mutable reference it moves is still there.                              *)
(***************************************************************************)
Carried(t, st, now) ==
  LET s == AfterReads(t)
  IN  /\ s.op \in {"transfer", "put", "share"} => s.to \in Given(now)
      /\ s.op \in {"transfer", "share"} => s.from \in Given(now)
      /\ s.op = "put" => s.res.id <= now
      /\ s.op = "share" => /\ s.target \in Given(now)
                           /\ s.from \in DOMAIN st /\ IsRef(st[s.from])

FitInv == BlockInv /\ Fits(store, timer) /\ Carried(task, store, timer)

\* The owners of a store, and the resource that is on its way.
Owned(st) == {<<l, st[l].id>> : l \in {c \in DOMAIN st : IsRes(st[c])}}
Moved(t) == IF t.op = "put" THEN {<<-1, t.res.id>>} ELSE {}

-----------------------------------------------------------------------------
(* Stores.                                                                 *)

LEMMA HeldIs == Held = Owned(store) \cup Moved(task)
BY DEF Held, Owned, Moved

LEMMA UninitIsNone == ~IsRes(uninit) /\ ~IsRef(uninit)
BY DEF uninit, IsRes, IsRef

LEMMA RefIsNoRes == \A v : ~(IsRef(v) /\ IsRes(v))
BY DEF IsRef, IsRes

LEMMA BrFields ==
  \A kind \in {"imm", "mut"} : \A beg, end, to, saw :
    LET v == br(kind, beg, end, to, saw)
    IN  /\ IsRef(v) /\ ~IsRes(v)
        /\ v.kind = kind /\ v.beg = beg /\ v.end = end /\ v.to = to /\ v.saw = saw
BY DEF br, IsRef, IsRes

LEMMA RsFields ==
  \A props, id : IsRes(rs(props, id)) /\ ~IsRef(rs(props, id)) /\ rs(props, id).id = id
BY DEF rs, IsRef, IsRes

LEMMA UpdIs ==
  ASSUME NEW st, NEW l, NEW v
  PROVE  /\ DOMAIN Upd(st, l, v) = DOMAIN st \cup {l} /\ Upd(st, l, v)[l] = v
         /\ \A m \in DOMAIN Upd(st, l, v) :
              m # l => m \in DOMAIN st /\ Upd(st, l, v)[m] = st[m]
BY DEF Upd

LEMMA WithoutIs ==
  ASSUME NEW st, NEW l
  PROVE  /\ DOMAIN Without(st, l) = DOMAIN st \ {l}
         /\ \A m \in DOMAIN Without(st, l) : Without(st, l)[m] = st[m]
BY DEF Without

LEMMA GivenLater == \A now \in Nat : Given(now) \subseteq Given(now + 1)
BY DEF Given

LEMMA OwnedPairs ==
  ASSUME NEW st
  PROVE  /\ \A l \in DOMAIN st : IsRes(st[l]) => <<l, st[l].id>> \in Owned(st)
         /\ \A h \in Owned(st) :
              h[1] \in DOMAIN st /\ IsRes(st[h[1]]) /\ h = <<h[1], st[h[1]].id>>
BY DEF Owned

LEMMA OwnedFits ==
  ASSUME NEW now \in Nat, NEW st, Fits(st, now)
  PROVE  \A h \in Owned(st) : h[1] \in Given(now) /\ h[1] # -1 /\ h[2] \in Given(now)
BY OwnedPairs DEF Fits, Given

\* A cell that is given a value that is no resource.
LEMMA OwnedClear ==
  ASSUME NEW st, NEW l, NEW v, ~IsRes(v)
  PROVE  Owned(Upd(st, l, v)) = {h \in Owned(st) : h[1] # l}
<1> DEFINE n == Upd(st, l, v)
<1>1. /\ DOMAIN n = DOMAIN st \cup {l} /\ n[l] = v
      /\ \A m \in DOMAIN n : m # l => m \in DOMAIN st /\ n[m] = st[m]
  BY DEF Upd
<1> HIDE DEF n
<1>2. ASSUME NEW h \in Owned(n) PROVE h \in Owned(st) /\ h[1] # l
  BY <1>1, OwnedPairs
<1>3. ASSUME NEW h \in Owned(st), h[1] # l PROVE h \in Owned(n)
  BY <1>1, <1>3, OwnedPairs
<1> QED
  BY <1>2, <1>3 DEF n

\* A cell that is given a resource.
LEMMA OwnedPut ==
  ASSUME NEW st, NEW l, NEW v, IsRes(v)
  PROVE  Owned(Upd(st, l, v)) = {h \in Owned(st) : h[1] # l} \cup {<<l, v.id>>}
<1> DEFINE n == Upd(st, l, v)
<1>1. /\ DOMAIN n = DOMAIN st \cup {l} /\ n[l] = v
      /\ \A m \in DOMAIN n : m # l => m \in DOMAIN st /\ n[m] = st[m]
  BY DEF Upd
<1> HIDE DEF n
<1>2. ASSUME NEW h \in Owned(n) PROVE (h \in Owned(st) /\ h[1] # l) \/ h = <<l, v.id>>
  BY <1>1, OwnedPairs
<1>3. ASSUME NEW h \in Owned(st), h[1] # l PROVE h \in Owned(n)
  BY <1>1, <1>3, OwnedPairs
<1>4. <<l, v.id>> \in Owned(n)
  BY <1>1, OwnedPairs
<1> QED
  BY <1>2, <1>3, <1>4 DEF n

\* A cell that leaves the store.
LEMMA OwnedDrop ==
  ASSUME NEW st, NEW l
  PROVE  Owned(Without(st, l)) = {h \in Owned(st) : h[1] # l}
<1> DEFINE n == Without(st, l)
<1>1. DOMAIN n = DOMAIN st \ {l} /\ \A m \in DOMAIN n : n[m] = st[m]
  BY WithoutIs
<1> HIDE DEF n
<1>2. ASSUME NEW h \in Owned(n) PROVE h \in Owned(st) /\ h[1] # l
  BY <1>1, OwnedPairs
<1>3. ASSUME NEW h \in Owned(st), h[1] # l PROVE h \in Owned(n)
  BY <1>1, <1>3, OwnedPairs
<1> QED
  BY <1>2, <1>3 DEF n

LEMMA UpdFits ==
  ASSUME NEW st, NEW now, Fits(st, now), NEW l \in Given(now), NEW v,
         IsRef(v) => v.to \in Given(now), IsRes(v) => v.id \in Given(now)
  PROVE  Fits(Upd(st, l, v), now)
<1> DEFINE n == Upd(st, l, v)
<1>1. /\ DOMAIN n = DOMAIN st \cup {l} /\ n[l] = v
      /\ \A m \in DOMAIN n : m # l => m \in DOMAIN st /\ n[m] = st[m]
  BY DEF Upd
<1> HIDE DEF n
<1>2. Fits(n, now)
  BY <1>1 DEF Fits
<1> QED
  BY <1>2 DEF n

LEMMA DropFits ==
  ASSUME NEW st, NEW now, Fits(st, now), NEW l
  PROVE  Fits(Without(st, l), now)
BY DEF Without, Fits

LEMMA FitsLater ==
  ASSUME NEW st, NEW now \in Nat, Fits(st, now)
  PROVE  Fits(st, now + 1)
BY GivenLater DEF Fits

\* Using a reference changes neither the owners nor where references lead.
LEMMA UsedFits ==
  ASSUME NEW st, NEW now, Fits(st, now), NEW l \in DOMAIN st, IsRef(st[l]),
         NEW kind \in {"imm", "mut"}
  PROVE  /\ Fits(Used(l, kind, st), now) /\ Owned(Used(l, kind, st)) = Owned(st)
         /\ DOMAIN Used(l, kind, st) = DOMAIN st
         /\ \A m \in DOMAIN st : IsRef(Used(l, kind, st)[m]) <=> IsRef(st[m])
<1> DEFINE v == br(kind, st[l].beg, timer, st[l].to, st[l].saw)
<1>1. Used(l, kind, st) = Upd(st, l, v)
  BY DEF Used
<1>2. IsRef(v) /\ ~IsRes(v) /\ v.to = st[l].to
  BY BrFields
<1> HIDE DEF v
<1>3. l \in Given(now) /\ st[l].to \in Given(now)
  BY DEF Fits
<1>4. Fits(Upd(st, l, v), now)
  BY <1>2, <1>3, UpdFits
<1>5. Owned(Upd(st, l, v)) = {h \in Owned(st) : h[1] # l}
  BY <1>2, OwnedClear
<1>6. \A h \in Owned(st) : h[1] # l
  BY OwnedPairs, RefIsNoRes
<1>7. Owned(Upd(st, l, v)) = Owned(st)
  BY <1>5, <1>6
<1>8. /\ DOMAIN Upd(st, l, v) = DOMAIN st
      /\ \A m \in DOMAIN st : IsRef(Upd(st, l, v)[m]) <=> IsRef(st[m])
  BY <1>2 DEF Upd
<1> QED
  BY <1>1, <1>4, <1>7, <1>8

LEMMA LvFits ==
  ASSUME NEW st, NEW ws, NEW now, Fits(st, now), Leads(env, Given(now)),
         NEW e, NEW d \in Lv(e, st, ws)
  PROVE  /\ d.loc \in Given(now) /\ Fits(d.store, now) /\ Owned(d.store) = Owned(st)
         /\ DOMAIN d.store = DOMAIN st
<1>1. e.id \in DOMAIN env
  BY DEF Lv
<1>2. CASE ~e.deref
  <2>1. d = [loc |-> env[e.id], store |-> st]
    BY <1>1, <1>2 DEF Lv
  <2> QED
    BY <1>1, <2>1 DEF Leads
<1>3. CASE e.deref
  <2> DEFINE l == env[e.id]
  <2>1. PICK kind \in {"imm", "mut"} :
          /\ l \in DOMAIN st /\ st[l].kind = "imm"
          /\ d = [loc |-> st[l].to, store |-> Used(l, kind, st)]
    BY <1>1, <1>3 DEF Lv
  <2>2. IsRef(st[l])
    BY <2>1 DEF IsRef
  <2> HIDE DEF l
  <2>3. st[l].to \in Given(now)
    BY <2>1, <2>2 DEF Fits
  <2> QED
    BY <2>1, <2>2, <2>3, UsedFits
<1> QED
  BY <1>2, <1>3

LEMMA OperandsFit ==
  ASSUME NEW ws, NEW now, Fits(store, now), Leads(env, Given(now)),
         NEW e, NEW t, NEW o \in Operands(e, t, ws)
  PROVE  /\ o.from \in Given(now) /\ o.to \in Given(now)
         /\ Fits(o.store, now) /\ Owned(o.store) = Owned(store)
         /\ DOMAIN o.store = DOMAIN store
<1> DEFINE left(f) == {[from |-> f.loc, to |-> d.loc, store |-> d.store] :
                         d \in Lv(t, f.store, ws)}
           right(d) == {[from |-> f.loc, to |-> d.loc, store |-> f.store] :
                          f \in Lv(e, d.store, ws)}
<1>1. \/ \E f \in Lv(e, store, ws) : o \in left(f)
      \/ \E d \in Lv(t, store, ws) : o \in right(d)
  BY Zenon DEF Operands
<1>2. ASSUME NEW f \in Lv(e, store, ws), o \in left(f)
      PROVE  /\ o.from \in Given(now) /\ o.to \in Given(now)
             /\ Fits(o.store, now) /\ Owned(o.store) = Owned(store)
             /\ DOMAIN o.store = DOMAIN store
  <2>1. PICK d \in Lv(t, f.store, ws) :
          o = [from |-> f.loc, to |-> d.loc, store |-> d.store]
    BY <1>2
  <2>2. /\ f.loc \in Given(now) /\ Fits(f.store, now) /\ Owned(f.store) = Owned(store)
        /\ DOMAIN f.store = DOMAIN store
    BY LvFits
  <2>3. /\ d.loc \in Given(now) /\ Fits(d.store, now) /\ Owned(d.store) = Owned(f.store)
        /\ DOMAIN d.store = DOMAIN f.store
    BY <2>2, LvFits
  <2> QED
    BY <2>1, <2>2, <2>3
<1>3. ASSUME NEW d \in Lv(t, store, ws), o \in right(d)
      PROVE  /\ o.from \in Given(now) /\ o.to \in Given(now)
             /\ Fits(o.store, now) /\ Owned(o.store) = Owned(store)
             /\ DOMAIN o.store = DOMAIN store
  <2>1. PICK f \in Lv(e, d.store, ws) :
          o = [from |-> f.loc, to |-> d.loc, store |-> f.store]
    BY <1>3
  <2>2. /\ d.loc \in Given(now) /\ Fits(d.store, now) /\ Owned(d.store) = Owned(store)
        /\ DOMAIN d.store = DOMAIN store
    BY LvFits
  <2>3. /\ f.loc \in Given(now) /\ Fits(f.store, now) /\ Owned(f.store) = Owned(d.store)
        /\ DOMAIN f.store = DOMAIN d.store
    BY <2>2, LvFits
  <2> QED
    BY <2>1, <2>2, <2>3
<1> QED
  BY <1>1, <1>2, <1>3, Zenon

-----------------------------------------------------------------------------
(* The steps of Resources.                                                 *)

\* Resources with any number of places: the bound on the clock comes last.
U == INSTANCE Resources WITH Loc <- Nat, holds <- Held, clock <- timer

Implements == [U!Next]_(U!vars)

LEMMA GivenPlaces ==
  ASSUME FitInv
  PROVE  timer \in Nat /\ Given(timer) \subseteq Nat /\ index = timer
BY DEF FitInv, BlockInv, IInv, Clock, Given

LEMMA NotInTransit ==
  ASSUME FitInv, task.op # "put"
  PROVE  Held = Owned(store) /\ ~U!InTransit
<1>1. Held = Owned(store)
  BY HeldIs DEF Moved
<1>2. \A h \in Owned(store) : h[1] # -1
  BY GivenPlaces, OwnedFits DEF FitInv
<1> QED
  BY <1>1, <1>2 DEF U!InTransit, U!Transit

LEMMA Creates ==
  ASSUME FitInv, task.op # "put", task'.op = "put", task'.res.id = timer,
         Owned(store') = Owned(store), timer' = timer
  PROVE  Implements
<1>1. Held' = Owned(store) \cup {<<-1, timer>>}
  BY HeldIs DEF Moved, Held, Owned
<1>2. \A h \in Owned(store) : h[2] # timer
  BY GivenPlaces, OwnedFits DEF FitInv, Given
<1>3. U!Create
  BY <1>1, <1>2, NotInTransit DEF U!Create, U!Transit
<1> QED
  BY <1>3 DEF Implements, U!Next

LEMMA Lifts ==
  ASSUME FitInv, task.op # "put", task'.op = "put",
         NEW l \in DOMAIN store, IsRes(store[l]), task'.res = store[l],
         Owned(store') = {h \in Owned(store) : h[1] # l}, timer' = timer
  PROVE  Implements
<1> DEFINE n == store[l].id
<1>1. <<l, n>> \in Owned(store)
  BY OwnedPairs
<1>2. \A h \in Owned(store) : h[1] = l => h = <<l, n>>
  BY OwnedPairs
<1> HIDE DEF n
<1>3. Held' = {h \in Owned(store) : h[1] # l} \cup {<<-1, n>>}
  BY DEF Moved, Held, Owned, n
<1>4. <<l, n>>[1] = l /\ <<l, n>>[2] = n
  OBVIOUS
<1>5. {h \in Owned(store) : h[1] # l} = Owned(store) \ {<<l, n>>}
  BY <1>2, <1>4
<1>6. U!Lift(l, n)
  BY <1>1, <1>3, <1>5, NotInTransit DEF U!Lift, U!Transit
<1>7. U!Lift(<<l, n>>[1], <<l, n>>[2])
  BY <1>4, <1>6
<1>8. \E h \in Held : U!Lift(h[1], h[2])
  BY <1>1, <1>7, NotInTransit
<1> QED
  BY <1>8 DEF Implements, U!Next

LEMMA Lands ==
  ASSUME FitInv, task.op = "put", task'.op # "put", task.to \in Given(timer),
         Owned(store') = {h \in Owned(store) : h[1] # task.to}
                           \cup {<<task.to, task.res.id>>},
         timer' = timer + 1
  PROVE  Implements
<1> DEFINE l == task.to
           n == task.res.id
<1>1. Held = Owned(store) \cup {<<-1, n>>} /\ <<-1, n>>[1] = -1 /\ <<-1, n>>[2] = n
  BY HeldIs DEF Moved
<1>2. Held' = {h \in Owned(store) : h[1] # l} \cup {<<l, n>>}
  BY DEF Moved, Held, Owned
<1>3. \A h \in Owned(store) : h[1] # -1
  BY GivenPlaces, OwnedFits DEF FitInv
<1> HIDE DEF l, n
<1>4. {h \in Held : h[1] \notin {l, -1}} = {h \in Owned(store) : h[1] # l}
  BY <1>1, <1>3
<1>5. U!Land(l, n)
  BY <1>1, <1>2, <1>4 DEF U!Land, U!Transit
<1>6. l \in Nat
  BY GivenPlaces DEF l
<1>7. \E p \in Nat, h \in Held : U!Land(p, h[2])
  BY <1>1, <1>5, <1>6
<1> QED
  BY <1>7 DEF Implements, U!Next

LEMMA Drops ==
  ASSUME FitInv, task.op # "put", task'.op # "put", NEW l \in Nat,
         Owned(store') = {h \in Owned(store) : h[1] # l},
         timer' \in {timer, timer + 1}
  PROVE  Implements
<1>1. Held' = {h \in Owned(store) : h[1] # l}
  BY DEF Moved, Held, Owned
<1>2. U!Drop(l)
  BY <1>1, NotInTransit DEF U!Drop
<1> QED
  BY <1>2 DEF Implements, U!Next

LEMMA Stutters ==
  ASSUME Owned(store') = Owned(store), Moved(task') = Moved(task), timer' = timer
  PROVE  Implements
BY DEF Implements, U!vars, Held, Owned, Moved

-----------------------------------------------------------------------------
(* The actions: each keeps the invariant and is a step of Resources.       *)

Resourceful ==
  Fits(store', timer') /\ Carried(task', store', timer') /\ Implements

LEMMA TaskShapes ==
  /\ idle.op = "idle" /\ AfterReads(idle) = idle
  /\ blockendTask.op = "blockend" /\ AfterReads(blockendTask) = blockendTask
  /\ \A f, t : LET s == transferTask(f, t)
               IN  s.op = "transfer" /\ s.from = f /\ s.to = t /\ AfterReads(s) = s
  /\ \A r, t : LET s == putTask(r, t)
               IN  s.op = "put" /\ s.res = r /\ s.to = t /\ AfterReads(s) = s
  /\ \A k, g, f, t : LET s == shareTask(k, g, f, t)
                     IN  /\ s.op = "share" /\ s.kind = k /\ s.target = g
                         /\ s.from = f /\ s.to = t /\ AfterReads(s) = s
  /\ \A l, n : LET s == readTask(l, n)
               IN  s.op = "read" /\ s.at = l /\ s.next = n /\ AfterReads(s) = n
BY DEF idle, blockendTask, transferTask, putTask, shareTask, readTask, AfterReads

\* Nothing is carried between two statements and at the end of a block.
LEMMA NothingCarried ==
  \A t, st, now : t \in {idle, blockendTask} => Carried(t, st, now)
BY TaskShapes DEF Carried

\* A statement that ticks once and empties a cell, or makes it a reference.
LEMMA TickAndDrop ==
  ASSUME FitInv, task.op # "put", Tick, task' = idle,
         NEW l \in Given(timer + 1), NEW v, ~IsRes(v),
         IsRef(v) => v.to \in Given(timer), store' = Upd(store, l, v)
  PROVE  Resourceful
<1>1. timer \in Nat /\ timer' = timer + 1
  BY GivenPlaces DEF Tick
<1>2. Fits(store, timer + 1) /\ Given(timer) \subseteq Given(timer + 1)
  BY <1>1, FitsLater, GivenLater DEF FitInv
<1>3. Fits(store', timer')
  BY <1>1, <1>2, UpdFits
<1>4. Carried(task', store', timer')
  BY NothingCarried
<1>5. Owned(store') = {h \in Owned(store) : h[1] # l}
  BY OwnedClear
<1>6. l \in Nat
  BY <1>1 DEF Given
<1>7. task'.op # "put"
  BY TaskShapes
<1>8. Implements
  BY <1>1, <1>5, <1>6, <1>7, Drops
<1> QED
  BY <1>1, <1>3, <1>4, <1>8 DEF Resourceful

LEMMA DeclResources == ASSUME FitInv, NEW x \in Ids, Decl(x) PROVE Resourceful
<1>1. timer \in Nat /\ index = timer /\ index \in Given(timer + 1)
  BY GivenPlaces DEF Given
<1>2. task = idle /\ task' = idle /\ Tick
      /\ store' = Upd(store, index, uninit)
  BY DEF Decl, Idle
<1> QED
  BY <1>1, <1>2, TaskShapes, UninitIsNone, TickAndDrop

LEMMA EnvGiven == ASSUME FitInv PROVE Leads(env, Given(timer))
BY GivenPlaces DEF FitInv, BlockInv

LEMMA TransferNewResources ==
  ASSUME FitInv, NEW p \in PropLists, NEW t \in LValue, TransferNew(p, t)
  PROVE  Resourceful
<1>1. PICK d \in Lv(t, store, write') :
        store' = d.store /\ task' = putTask(rs(p, timer), d.loc)
  BY DEF TransferNew
<1>2. /\ d.loc \in Given(timer) /\ Fits(d.store, timer)
      /\ Owned(d.store) = Owned(store)
  BY EnvGiven, LvFits DEF FitInv
<1>3. task = idle /\ timer' = timer
  BY DEF TransferNew, Idle
<1>4. /\ task'.op = "put" /\ task'.res.id = timer /\ task'.to = d.loc
      /\ AfterReads(task') = task'
  BY <1>1, TaskShapes, RsFields
<1>5. Carried(task', store', timer')
  BY <1>2, <1>3, <1>4, GivenPlaces DEF Carried
<1>6. Implements
  BY <1>1, <1>2, <1>3, <1>4, TaskShapes, Creates
<1> QED
  BY <1>1, <1>2, <1>3, <1>5, <1>6 DEF Resourceful

LEMMA TransferResources ==
  ASSUME FitInv, NEW e \in LValue, NEW t \in LValue, Transfer(e, t)
  PROVE  Resourceful
<1>1. PICK o \in Operands(e, t, write') :
        store' = o.store /\ task' = transferTask(o.from, o.to)
  BY DEF Transfer
<1>2. /\ o.from \in Given(timer) /\ o.to \in Given(timer) /\ Fits(o.store, timer)
      /\ Owned(o.store) = Owned(store)
  BY EnvGiven, OperandsFit DEF FitInv
<1>3. task = idle /\ timer' = timer
  BY DEF Transfer, Idle
<1>4. /\ task'.op = "transfer" /\ task'.from = o.from /\ task'.to = o.to
      /\ AfterReads(task') = task'
  BY <1>1, TaskShapes
<1>5. Carried(task', store', timer')
  BY <1>2, <1>3, <1>4, GivenPlaces DEF Carried
<1>6. Implements
  BY <1>1, <1>2, <1>3, <1>4, TaskShapes, Stutters DEF Moved
<1> QED
  BY <1>1, <1>2, <1>3, <1>5, <1>6 DEF Resourceful

\* A transfer under way, before the resource is taken.
LEMMA MovingCarried ==
  ASSUME FitInv, NEW kinds, Moving(kinds)
  PROVE  /\ task.from \in Given(timer) /\ task.to \in Given(timer)
         /\ task.op = "transfer" /\ AfterReads(task) = task
         /\ task.from \in DOMAIN store /\ store[task.from].kind \in kinds
BY DEF Moving, FitInv, Carried, AfterReads

LEMMA MoveOwnerResources == ASSUME FitInv, MoveOwner PROVE Resourceful
<1> DEFINE l == task.from
           r == store[l]
<1>1. /\ l \in Given(timer) /\ task.to \in Given(timer)
      /\ task.op = "transfer" /\ l \in DOMAIN store /\ IsRes(r)
  BY MovingCarried DEF MoveOwner, IsRes
<1>2. store' = Upd(store, l, uninit) /\ task' = putTask(r, task.to) /\ timer' = timer
  BY DEF MoveOwner
<1>3. r.id \in Given(timer)
  BY <1>1 DEF FitInv, Fits
<1> HIDE DEF l, r
<1>4. /\ task'.op = "put" /\ task'.res = r /\ task'.to = task.to
      /\ AfterReads(task') = task'
  BY <1>2, TaskShapes
<1>5. Fits(store', timer')
  BY <1>1, <1>2, UninitIsNone, UpdFits DEF FitInv
<1>6. Carried(task', store', timer')
  BY <1>1, <1>2, <1>3, <1>4, GivenPlaces DEF Carried, Given
<1>7. Owned(store') = {h \in Owned(store) : h[1] # l}
  BY <1>2, UninitIsNone, OwnedClear
<1>8. Implements
  BY <1>1, <1>2, <1>4, <1>7, Lifts DEF l, r
<1> QED
  BY <1>5, <1>6, <1>8 DEF Resourceful

LEMMA CopyOwnerResources == ASSUME FitInv, CopyOwner PROVE Resourceful
<1>1. /\ task.to \in Given(timer) /\ task.op = "transfer"
  BY MovingCarried DEF CopyOwner
<1>2. store' = store /\ timer' = timer
      /\ \E p : task' = putTask(rs(p, timer), task.to)
  BY DEF CopyOwner
<1>3. /\ task'.op = "put" /\ task'.res.id = timer /\ task'.to = task.to
      /\ AfterReads(task') = task'
  BY <1>2, TaskShapes, RsFields
<1>4. Carried(task', store', timer')
  BY <1>1, <1>2, <1>3, GivenPlaces DEF Carried
<1>5. Implements
  BY <1>1, <1>2, <1>3, Creates
<1> QED
  BY <1>2, <1>4, <1>5 DEF Resourceful, FitInv

LEMMA TransferRefResources == ASSUME FitInv, TransferRef PROVE Resourceful
<1> DEFINE r == store[task.from]
           s == shareTask(r.kind, r.to, task.from, task.to)
<1>1. /\ task.from \in Given(timer) /\ task.to \in Given(timer)
      /\ task.op = "transfer" /\ task.from \in DOMAIN store /\ IsRef(r)
  BY MovingCarried DEF TransferRef, IsRef
<1>2. store' = store /\ timer' = timer /\ task' = readTask(task.from, s)
  BY DEF TransferRef
<1>3. r.to \in Given(timer)
  BY <1>1 DEF FitInv, Fits
<1>4. /\ s.op = "share" /\ s.target = r.to /\ s.from = task.from /\ s.to = task.to
      /\ task'.op = "read" /\ AfterReads(task') = s
  BY <1>2, TaskShapes
<1> HIDE DEF s
<1>5. Carried(task', store', timer')
  BY <1>1, <1>2, <1>3, <1>4 DEF Carried
<1>6. Implements
  BY <1>1, <1>2, <1>4, Stutters DEF Moved
<1> QED
  BY <1>2, <1>5, <1>6 DEF Resourceful, FitInv

LEMMA PutCarried ==
  ASSUME FitInv, task.op = "put"
  PROVE  task.to \in Given(timer) /\ task.res.id <= timer
         /\ task.res \in Resource /\ IsRes(task.res)
<1>1. task.res \in Resource
  BY TaskFields DEF FitInv, BlockInv, IInv
<1>2. IsRes(task.res)
  BY <1>1 DEF Resource, IsRes
<1> QED
  BY <1>1, <1>2 DEF FitInv, Carried, AfterReads

LEMMA PutOwnerResources == ASSUME FitInv, PutOwner PROVE Resourceful
<1> DEFINE l == task.to
           v == task.res
<1>1. /\ l \in Given(timer) /\ v.id <= timer /\ IsRes(v)
      /\ v.id \in Nat /\ ~IsRef(v) /\ task.op = "put"
  BY PutCarried, RefIsNoRes DEF PutOwner, Resource
<1>2. /\ store' = Upd(store, l, v) /\ task' = idle /\ timer' = timer + 1
  BY DEF PutOwner, Tick
<1> HIDE DEF l, v
<1>3. timer \in Nat
  BY <1>1, <1>2, GivenPlaces
<1>4. Fits(store, timer + 1) /\ l \in Given(timer + 1) /\ v.id \in Given(timer + 1)
  BY <1>1, <1>3, FitsLater DEF FitInv, Given
<1>5. Fits(store', timer')
  BY <1>1, <1>2, <1>4, UpdFits
<1>6. Carried(task', store', timer') /\ task'.op # "put"
  BY <1>2, NothingCarried, TaskShapes
<1>7. Owned(store') = {h \in Owned(store) : h[1] # l} \cup {<<l, v.id>>}
  BY <1>1, <1>2, OwnedPut
<1>8. Implements
  BY <1>1, <1>2, <1>6, <1>7, Lands DEF l, v
<1> QED
  BY <1>3, <1>5, <1>6, <1>8 DEF Resourceful

LEMMA PutThroughResources == ASSUME FitInv, PutThrough PROVE Resourceful
<1>1. /\ task.res.id <= timer /\ task.op = "put"
      /\ task.to \in DOMAIN store /\ IsRef(store[task.to])
  BY PutCarried DEF PutThrough, IsRef
<1>2. /\ store' = store /\ timer' = timer
      /\ task' = putTask(task.res, store[task.to].to)
  BY DEF PutThrough
<1>3. store[task.to].to \in Given(timer)
  BY <1>1 DEF FitInv, Fits
<1>4. /\ task'.op = "put" /\ task'.res = task.res /\ task'.to = store[task.to].to
      /\ AfterReads(task') = task'
  BY <1>2, TaskShapes
<1>5. Carried(task', store', timer')
  BY <1>1, <1>2, <1>3, <1>4 DEF Carried
<1>6. Implements
  BY <1>1, <1>2, <1>4, Stutters DEF Moved
<1> QED
  BY <1>2, <1>5, <1>6 DEF Resourceful, FitInv

LEMMA ReadRefResources == ASSUME FitInv, ReadRef PROVE Resourceful
<1> DEFINE l == task.at
<1>1. l \in DOMAIN store /\ IsRef(store[l]) /\ store[l].kind \in {"imm", "mut"}
      /\ task.op = "read"
  BY DEF ReadRef, IsRef
<1>2. /\ store' = Used(l, store[l].kind, store) /\ timer' = timer
      /\ task' = readTask(store[l].to, task.next)
  BY DEF ReadRef
<1> HIDE DEF l
<1>3. /\ Fits(store', timer') /\ Owned(store') = Owned(store)
      /\ DOMAIN store' = DOMAIN store
      /\ \A m \in DOMAIN store : IsRef(store'[m]) <=> IsRef(store[m])
  BY <1>1, <1>2, UsedFits DEF FitInv
<1>4. task'.op = "read" /\ AfterReads(task') = AfterReads(task)
  BY <1>1, <1>2, TaskShapes DEF AfterReads
<1>5. Carried(task', store', timer')
  BY <1>2, <1>3, <1>4 DEF FitInv, Carried
<1>6. Implements
  BY <1>1, <1>2, <1>3, <1>4, Stutters DEF Moved
<1> QED
  BY <1>2, <1>3, <1>5, <1>6 DEF Resourceful, FitInv

\* What follows a read is the end of the statement or a share.
LEMMA ReadNext ==
  ASSUME NEW t \in Task, t.op = "read"
  PROVE  t.next.op \in {"idle", "share"}
BY DEF Task, idle, blockendTask

LEMMA ReadOwnerResources == ASSUME FitInv, ReadOwner PROVE Resourceful
<1>1. task.op = "read" /\ task' = task.next /\ store' = store /\ timer' = timer
  BY DEF ReadOwner
<1>2. task.next.op \in {"idle", "share"}
  BY <1>1, ReadNext DEF FitInv, BlockInv, IInv
<1>3. AfterReads(task') = AfterReads(task) /\ task'.op # "put"
  BY <1>1, <1>2 DEF AfterReads
<1>4. Carried(task', store', timer')
  BY <1>1, <1>3 DEF FitInv, Carried
<1>5. Implements
  BY <1>1, <1>3, Stutters DEF Moved
<1> QED
  BY <1>1, <1>4, <1>5 DEF Resourceful, FitInv

LEMMA ShareCarried ==
  ASSUME FitInv, task.op = "share"
  PROVE  /\ task.to \in Given(timer) /\ task.from \in Given(timer)
         /\ task.target \in Given(timer)
         /\ task.from \in DOMAIN store /\ IsRef(store[task.from])
BY DEF FitInv, Carried, AfterReads

LEMMA ShareImmResources == ASSUME FitInv, ShareImm PROVE Resourceful
<1> DEFINE v == br("imm", index, index, task.target, ResAt(task.target, store))
<1>1. /\ task.to \in Given(timer) /\ task.target \in Given(timer)
      /\ task.op = "share"
  BY ShareCarried DEF ShareImm
<1>2. Tick /\ task' = idle /\ store' = Upd(store, task.to, v)
  BY DEF ShareImm
<1>3. ~IsRes(v) /\ v.to = task.target
  BY BrFields
<1> HIDE DEF v
<1>4. task.to \in Given(timer + 1)
  BY <1>1, GivenPlaces, GivenLater
<1> QED
  BY <1>1, <1>2, <1>3, <1>4, TickAndDrop

\* The reference at from is overwritten too, and is no owner.
LEMMA MoveMutResources == ASSUME FitInv, MoveMut PROVE Resourceful
<1> DEFINE v == br("mut", index, index, task.target, ResAt(task.target, store))
           mid == Upd(store, task.to, v)
<1>1. /\ task.to \in Given(timer) /\ task.from \in Given(timer)
      /\ task.target \in Given(timer) /\ task.op = "share"
      /\ task.from \in DOMAIN store /\ IsRef(store[task.from])
  BY ShareCarried DEF MoveMut
<1>2. task' = idle /\ store' = Upd(mid, task.from, uninit) /\ timer' = timer + 1
  BY DEF MoveMut, Tick
<1>3. ~IsRes(v) /\ v.to = task.target
  BY BrFields
<1> HIDE DEF v
<1>4. timer \in Nat /\ task.to \in Nat
  BY <1>1, <1>2, GivenPlaces
<1>5. Fits(mid, timer)
  BY <1>1, <1>3, UpdFits DEF FitInv
<1>6. Owned(mid) = {h \in Owned(store) : h[1] # task.to}
  BY <1>3, OwnedClear
<1> HIDE DEF mid
<1>7. Fits(store', timer')
  BY <1>1, <1>2, <1>4, <1>5, UninitIsNone, UpdFits, FitsLater
<1>8. Owned(store') = {h \in Owned(mid) : h[1] # task.from}
  BY <1>2, UninitIsNone, OwnedClear
<1>9. \A h \in Owned(store) : h[1] # task.from
  BY <1>1, OwnedPairs, RefIsNoRes
<1>10. Owned(store') = {h \in Owned(store) : h[1] # task.to}
  BY <1>6, <1>8, <1>9
<1>11. Carried(task', store', timer') /\ task'.op # "put"
  BY <1>2, NothingCarried, TaskShapes
<1>12. Implements
  BY <1>1, <1>2, <1>4, <1>10, <1>11, Drops
<1> QED
  BY <1>4, <1>7, <1>11, <1>12 DEF Resourceful

LEMMA NewRefResources ==
  ASSUME FitInv, task = idle, NEW kind \in {"imm", "mut"}, NEW x, NEW y,
         NewRef(kind, x, y)
  PROVE  Resourceful
<1> DEFINE v == br(kind, index, index, env[y], ResAt(env[y], store))
<1>1. /\ env[x] \in Given(timer) /\ env[y] \in Given(timer)
  BY EnvGiven DEF NewRef, Leads
<1>2. Tick /\ task' = idle /\ store' = Upd(store, env[x], v)
  BY DEF NewRef
<1>3. ~IsRes(v) /\ v.to = env[y]
  BY BrFields
<1> HIDE DEF v
<1>4. env[x] \in Given(timer + 1)
  BY <1>1, GivenPlaces, GivenLater
<1> QED
  BY <1>1, <1>2, <1>3, <1>4, TaskShapes, TickAndDrop

LEMMA DeallocateResources ==
  ASSUME FitInv, NEW e \in LValue, Deallocate(e) PROVE Resourceful
<1>1. PICK d \in Lv(e, store, write) : store' = Upd(d.store, d.loc, uninit)
  BY DEF Deallocate
<1>2. /\ d.loc \in Given(timer) /\ Fits(d.store, timer) /\ Owned(d.store) = Owned(store)
  BY EnvGiven, LvFits DEF FitInv
<1>3. task = idle /\ task' = idle /\ timer' = timer
  BY DEF Deallocate, Idle
<1>4. Fits(store', timer')
  BY <1>1, <1>2, <1>3, UninitIsNone, UpdFits
<1>5. Owned(store') = {h \in Owned(store) : h[1] # d.loc}
  BY <1>1, <1>2, UninitIsNone, OwnedClear
<1>6. Carried(task', store', timer')
  BY <1>3, NothingCarried
<1>7. d.loc \in Nat
  BY <1>2, GivenPlaces
<1>8. Implements
  BY <1>3, <1>5, <1>7, TaskShapes, Drops
<1> QED
  BY <1>3, <1>4, <1>6, <1>8 DEF Resourceful, FitInv

LEMMA PopDeclResources == ASSUME FitInv, PopDecl PROVE Resourceful
<1> DEFINE l == env[Head(stack).id]
<1>1. l \in DOMAIN store /\ store' = Without(store, l) /\ timer' = timer
      /\ task' = task /\ task.op = "blockend"
  BY DEF PopDecl
<1>2. l \in Nat
  BY <1>1, GivenPlaces DEF FitInv, Fits
<1> HIDE DEF l
<1>3. Fits(store', timer') /\ Owned(store') = {h \in Owned(store) : h[1] # l}
  BY <1>1, DropFits, OwnedDrop DEF FitInv
<1>4. Carried(task', store', timer')
  BY <1>1 DEF Carried, AfterReads
<1>5. Implements
  BY <1>1, <1>2, <1>3, Drops
<1> QED
  BY <1>1, <1>3, <1>4, <1>5 DEF Resourceful, FitInv

\* Reads that begin, and blocks that begin and end.
LEMMA QuietResources ==
  ASSUME FitInv,
         (\E x \in Ids : Rd(x)) \/ EnterBlock \/ EnterUnsafe \/ LeaveBlock \/ RestoreEnv
  PROVE  Resourceful
<1>1. /\ store' = store /\ timer' = timer /\ task.op # "put"
      /\ task' \in {idle, blockendTask} \/ \E l : task' = readTask(l, idle)
  BY TaskShapes DEF Rd, EnterBlock, EnterUnsafe, LeaveBlock, RestoreEnv, Idle
<1>2. task'.op # "put" /\ AfterReads(task') \in {idle, blockendTask}
  BY <1>1, TaskShapes
<1>3. Carried(task', store', timer')
  BY <1>2, TaskShapes DEF Carried
<1>4. Implements
  BY <1>1, <1>2, Stutters DEF Moved
<1> QED
  BY <1>1, <1>3, <1>4 DEF Resourceful, FitInv

-----------------------------------------------------------------------------
LEMMA StatementResources == ASSUME FitInv, Statement PROVE Resourceful
<1>1. CASE \E x \in Ids : Decl(x) \/ Rd(x)
  BY <1>1, DeclResources, QuietResources
<1>2. CASE \E p \in PropLists, t \in LValue : TransferNew(p, t)
  BY <1>2, TransferNewResources
<1>3. CASE \E e, t \in LValue : Transfer(e, t)
  BY <1>3, TransferResources
<1>4. CASE \E x, y \in Ids : Borrow(x, y) \/ MBorrow(x, y)
  BY <1>4, NewRefResources DEF Borrow, MBorrow, Idle
<1>5. CASE \E e \in LValue : Deallocate(e)
  BY <1>5, DeallocateResources
<1>6. CASE EnterBlock \/ EnterUnsafe \/ LeaveBlock
  BY <1>6, QuietResources
<1> QED
  BY <1>1, <1>2, <1>3, <1>4, <1>5, <1>6 DEF Statement

LEMMA RewriteResources == ASSUME FitInv, Rewrite PROVE Resourceful
BY MoveOwnerResources, CopyOwnerResources, TransferRefResources, PutOwnerResources,
   PutThroughResources, ReadRefResources, ReadOwnerResources, ShareImmResources,
   MoveMutResources, PopDeclResources, QuietResources DEF Rewrite

LEMMA InitFitInv == Init => FitInv
<1> SUFFICES ASSUME Init PROVE FitInv
  OBVIOUS
<1>1. BlockInv
  BY InitBlockInv
<1>2. DOMAIN store = {} /\ timer = 0 /\ task = idle
  BY DEF Init
<1> QED
  BY <1>1, <1>2, NothingCarried, BoundsAssumption DEF FitInv, Fits

LEMMA InitImplements == Init => R!Init
<1> SUFFICES ASSUME Init PROVE R!Init
  OBVIOUS
<1>1. DOMAIN store = {} /\ timer = 0 /\ task.op # "put"
  BY TaskShapes DEF Init
<1>2. Owned(store) = {} /\ Moved(task) = {}
  BY <1>1, OwnedPairs DEF Moved
<1> QED
  BY <1>1, <1>2, HeldIs DEF R!Init

LEMMA NextResources == FitInv /\ [Next]_vars => FitInv' /\ Implements
<1> SUFFICES ASSUME FitInv, [Next]_vars PROVE FitInv' /\ Implements
  OBVIOUS
<1>1. BlockInv'
  BY NextBlockInv DEF FitInv
<1>2. CASE UNCHANGED vars
  <2>1. UNCHANGED <<store, timer, task>>
    BY <1>2 DEF vars
  <2> QED
    BY <1>1, <2>1, Stutters DEF FitInv
<1>3. CASE Next
  BY <1>1, <1>3, StatementResources, RewriteResources DEF Next, Resourceful, FitInv
<1> QED
  BY <1>2, <1>3

-----------------------------------------------------------------------------
(* The bound on the clock.                                                 *)

\* A statement that will tick has a tick left.
Timely(t, now) == AfterReads(t).op \in {"transfer", "put", "share"} => now < MaxTime

ResInv == FitInv /\ timer <= MaxTime /\ Timely(task, timer)

LEMMA StatementTimely ==
  ASSUME ResInv, Statement
  PROVE  timer' <= MaxTime /\ Timely(task', timer')
<1>1. timer \in Nat /\ timer <= MaxTime /\ MaxTime \in Nat
  BY GivenPlaces, BoundsAssumption DEF ResInv
<1>2. ASSUME timer < MaxTime, timer' \in {timer, timer + 1}, timer' = timer \/ task' = idle
      PROVE  timer' <= MaxTime /\ Timely(task', timer')
  BY <1>1, <1>2, TaskShapes DEF Timely
<1>3. ASSUME timer' = timer, AfterReads(task') \in {idle, blockendTask}
      PROVE  timer' <= MaxTime /\ Timely(task', timer')
  BY <1>1, <1>3, TaskShapes DEF Timely
<1>4. CASE \E x \in Ids : Decl(x) \/ Rd(x)
  BY <1>2, <1>3, <1>4, TaskShapes DEF Decl, Rd, Tick, Idle
<1>5. CASE \/ \E p \in PropLists, t \in LValue : TransferNew(p, t)
           \/ \E e, t \in LValue : Transfer(e, t)
  BY <1>2, <1>5 DEF TransferNew, Transfer
<1>6. CASE \E x, y \in Ids : Borrow(x, y) \/ MBorrow(x, y)
  BY <1>2, <1>6 DEF Borrow, MBorrow, NewRef, Tick, Idle
<1>7. CASE (\E e \in LValue : Deallocate(e)) \/ EnterBlock \/ EnterUnsafe \/ LeaveBlock
  BY <1>3, <1>7, TaskShapes DEF Deallocate, EnterBlock, EnterUnsafe, LeaveBlock, Idle
<1> QED
  BY <1>4, <1>5, <1>6, <1>7 DEF Statement

LEMMA RewriteTimely ==
  ASSUME ResInv, Rewrite
  PROVE  timer' <= MaxTime /\ Timely(task', timer')
<1>1. timer \in Nat /\ timer <= MaxTime /\ MaxTime \in Nat
  BY GivenPlaces, BoundsAssumption DEF ResInv
<1>2. ASSUME timer' = timer, AfterReads(task') = AfterReads(task) \/ timer < MaxTime
      PROVE  timer' <= MaxTime /\ Timely(task', timer')
  BY <1>1, <1>2 DEF ResInv, Timely
<1>3. ASSUME task.op \in {"transfer", "put", "share"} PROVE timer < MaxTime
  BY <1>3 DEF ResInv, Timely, AfterReads
<1>4. CASE MoveOwner \/ CopyOwner \/ TransferRef \/ PutThrough
  BY <1>2, <1>3, <1>4 DEF MoveOwner, CopyOwner, TransferRef, PutThrough, Moving
<1>5. CASE PutOwner \/ ShareImm \/ MoveMut
  <2>1. timer < MaxTime /\ timer' = timer + 1 /\ task' = idle
    BY <1>3, <1>5 DEF PutOwner, ShareImm, MoveMut, Tick
  <2> QED
    BY <1>1, <2>1, TaskShapes DEF Timely
<1>6. CASE ReadRef
  <2>1. AfterReads(task') = AfterReads(task)
    BY <1>6, TaskShapes DEF ReadRef, AfterReads
  <2> QED
    BY <1>2, <1>6, <2>1 DEF ReadRef
<1>7. CASE ReadOwner
  <2>1. task.op = "read" /\ task' = task.next /\ task.next.op \in {"idle", "share"}
    BY <1>7, ReadNext DEF ReadOwner, ResInv, FitInv, BlockInv, IInv
  <2>2. AfterReads(task') = AfterReads(task)
    BY <2>1 DEF AfterReads
  <2> QED
    BY <1>2, <1>7, <2>2 DEF ReadOwner
<1>8. CASE PopDecl
  BY <1>2, <1>8 DEF PopDecl
<1>9. CASE RestoreEnv
  <2>1. timer' = timer /\ task' = idle
    BY <1>9 DEF RestoreEnv
  <2> QED
    BY <1>1, <2>1, TaskShapes DEF Timely
<1> QED
  BY <1>4, <1>5, <1>6, <1>7, <1>8, <1>9 DEF Rewrite

\* Every place a resource is in is a cell the clock has counted.
LEMMA PlacesInBounds ==
  ASSUME NEW st, NEW t, NEW now \in Nat, now <= MaxTime, Fits(st, now)
  PROVE  \A h \in Owned(st) \cup Moved(t) :
           h[1] = -1 \/ (h[1] \in 0 .. MaxTime /\ h[1] # MaxTime)
<1>1. MaxTime \in Nat
  BY BoundsAssumption
<1>2. \A h \in Owned(st) : h[1] \in Given(now)
  BY OwnedFits
<1>3. \A h \in Moved(t) : h[1] = -1
  BY DEF Moved
<1> QED
  BY <1>1, <1>2, <1>3 DEF Given

\* A step of Resources with any places is one with those the clock allows.
LEMMA InBounds ==
  ASSUME FitInv, timer <= MaxTime, FitInv', timer' <= MaxTime, Implements
  PROVE  [R!Next]_(R!vars)
<1>0. MaxTime \in Nat /\ 0 .. MaxTime \subseteq Nat /\ MaxTime \in 0 .. MaxTime
  BY BoundsAssumption
<1>1. CASE UNCHANGED U!vars
  BY <1>1 DEF U!vars, R!vars
<1>2. CASE U!Create
  BY <1>2 DEF U!Create, R!Create, U!InTransit, R!InTransit, U!Transit, R!Transit, R!Next
<1>3. ASSUME NEW h \in Held, U!Lift(h[1], h[2]) PROVE R!Next
  BY <1>3 DEF U!Lift, R!Lift, U!InTransit, R!InTransit, U!Transit, R!Transit, R!Next
<1>4. ASSUME NEW l \in Nat, NEW h \in Held, U!Land(l, h[2]) PROVE R!Next
  <2>1. <<l, h[2]>> \in Held' /\ <<l, h[2]>>[1] = l
    BY <1>4 DEF U!Land
  <2>2. timer' \in Nat /\ Fits(store', timer') /\ Held' = Owned(store') \cup Moved(task')
    BY DEF FitInv, BlockInv, IInv, Clock, Held, Owned, Moved
  <2>3. \A g \in Held' : g[1] = -1 \/ g[1] \in 0 .. MaxTime
    BY <2>2, PlacesInBounds
  <2>4. l \in 0 .. MaxTime
    BY <2>1, <2>3
  <2>5. R!Land(l, h[2])
    BY <1>4 DEF U!Land, R!Land, U!Transit, R!Transit
  <2> QED
    BY <2>4, <2>5 DEF R!Next
<1>5. ASSUME NEW l \in Nat, U!Drop(l) PROVE R!Next
  <2> DEFINE k == IF l \in 0 .. MaxTime THEN l ELSE MaxTime
  <2>1. timer \in Nat /\ Fits(store, timer) /\ Held = Owned(store) \cup Moved(task)
    BY GivenPlaces, HeldIs DEF FitInv
  <2>2. \A h \in Held : h[1] = -1 \/ (h[1] \in 0 .. MaxTime /\ h[1] # MaxTime)
    BY <2>1, PlacesInBounds
  <2>3. \A h \in Held : h[1] # k <=> h[1] # l
    BY <1>0, <2>2
  <2>4. k \in 0 .. MaxTime
    BY <1>0
  <2> HIDE DEF k
  <2>5. {h \in Held : h[1] # k} = {h \in Held : h[1] # l}
    BY <2>3
  <2>6. R!Drop(k)
    BY <1>5, <2>5 DEF U!Drop, R!Drop, U!InTransit, R!InTransit, U!Transit, R!Transit
  <2> QED
    BY <2>4, <2>6 DEF R!Next
<1> QED
  BY <1>1, <1>2, <1>3, <1>4, <1>5 DEF Implements, U!Next

(***************************************************************************)
(* The rules implement Resources (osl.k:107-171), for every program of     *)
(* every form: a resource is created once, is in one place at a time,      *)
(* leaves it only to be put somewhere else, and does not come back once    *)
(* it is gone.                                                             *)
(***************************************************************************)
THEOREM RulesImplementResources == Spec => ResourcesImplemented
<1>1. Init => ResInv /\ R!Init
  <2> SUFFICES ASSUME Init PROVE ResInv /\ R!Init
    OBVIOUS
  <2>1. timer = 0 /\ task = idle /\ FitInv
    BY InitFitInv DEF Init
  <2> QED
    BY <2>1, InitImplements, TaskShapes, BoundsAssumption DEF ResInv, Timely
<1>2. ResInv /\ [Next]_vars => ResInv' /\ [R!Next]_(R!vars)
  <2> SUFFICES ASSUME ResInv, [Next]_vars PROVE ResInv' /\ [R!Next]_(R!vars)
    OBVIOUS
  <2>1. FitInv' /\ Implements
    BY NextResources DEF ResInv
  <2>2. timer' <= MaxTime /\ Timely(task', timer')
    <3>1. CASE UNCHANGED vars
      BY <3>1 DEF vars, ResInv, Timely, AfterReads
    <3> QED
      BY <3>1, StatementTimely, RewriteTimely DEF Next
  <2>3. ResInv'
    BY <2>1, <2>2 DEF ResInv
  <2> QED
    BY <2>1, <2>2, <2>3, InBounds DEF ResInv
<1>3. ResourcesImplemented <=> R!Init /\ [][R!Next]_(R!vars)
  BY DEF ResourcesImplemented, R!Spec
<1> QED
  BY <1>1, <1>2, <1>3, PTL DEF Spec

-----------------------------------------------------------------------------
(* Programs that name the cells they reach.  With *x for an lvalue the     *)
(* invariants below fail: a transfer can name the target of a dangling     *)
(* reference, and the end of a moved reference's statement (osl.k:166)     *)
(* writes its target whether or not it is in the store.                    *)

ByName == "deref" \notin Forms

\* The cell a transfer or a share will fill is there.
Targeted(t, st) ==
  LET s == AfterReads(t) IN s.op \in {"transfer", "share"} => s.to \in DOMAIN st

NameInv == FitInv /\ Targeted(task, store)

\* The declarations on the stack are pushed and popped with their cells.
Popped(l) ==
  /\ store' = Without(store, l) /\ l \in DOMAIN store
  /\ stack # << >> /\ Head(stack).op = "decl" /\ stack' = Tail(stack)

Pushed(f) == stack' = <<f>> \o stack

\* What a step does to the cells and the declarations.
CellStep ==
  \/ /\ DOMAIN store' = DOMAIN store \cup {index} /\ \E x \in Ids : Pushed(declared(x))
  \/ \E l : Popped(l)
  \/ DOMAIN store' = DOMAIN store
     /\ \/ stack' = stack
        \/ \E e \in EnvSet, u \in BOOLEAN : Pushed(saved(e, u))
        \/ stack # << >> /\ Head(stack).op = "env" /\ stack' = Tail(stack)

LEMMA NamedLv ==
  ASSUME ByName, NEW t \in LValue, NEW st, NEW ws, NEW d \in Lv(t, st, ws)
  PROVE  t.id \in DOMAIN env /\ d = [loc |-> env[t.id], store |-> st]
<1>1. ~t.deref
  BY DEF ByName, LValue
<1> QED
  BY <1>1 DEF Lv

LEMMA NamedOperands ==
  ASSUME ByName, NEW e \in LValue, NEW t \in LValue, NEW ws, NEW o \in Operands(e, t, ws)
  PROVE  o = [from |-> env[e.id], to |-> env[t.id], store |-> store]
<1> DEFINE left(f) == {[from |-> f.loc, to |-> d.loc, store |-> d.store] :
                         d \in Lv(t, f.store, ws)}
           right(d) == {[from |-> f.loc, to |-> d.loc, store |-> f.store] :
                          f \in Lv(e, d.store, ws)}
<1>1. \/ \E f \in Lv(e, store, ws) : o \in left(f)
      \/ \E d \in Lv(t, store, ws) : o \in right(d)
  BY Zenon DEF Operands
<1>2. ASSUME NEW f \in Lv(e, store, ws), o \in left(f)
      PROVE  o = [from |-> env[e.id], to |-> env[t.id], store |-> store]
  <2>1. PICK d \in Lv(t, f.store, ws) :
          o = [from |-> f.loc, to |-> d.loc, store |-> d.store]
    BY <1>2
  <2>2. f.loc = env[e.id] /\ f.store = store
    BY NamedLv
  <2>3. d.loc = env[t.id] /\ d.store = f.store
    BY NamedLv
  <2> QED
    BY <2>1, <2>2, <2>3
<1>3. ASSUME NEW d \in Lv(t, store, ws), o \in right(d)
      PROVE  o = [from |-> env[e.id], to |-> env[t.id], store |-> store]
  <2>1. PICK f \in Lv(e, d.store, ws) :
          o = [from |-> f.loc, to |-> d.loc, store |-> f.store]
    BY <1>3
  <2>2. d.loc = env[t.id] /\ d.store = store
    BY NamedLv
  <2>3. f.loc = env[e.id] /\ f.store = d.store
    BY NamedLv
  <2> QED
    BY <2>1, <2>2, <2>3
<1> QED
  BY <1>1, <1>2, <1>3, Zenon

LEMMA EnvLive ==
  ASSUME FitInv, task = idle, NEW x \in DOMAIN env
  PROVE  env[x] \in DOMAIN store
BY TaskShapes DEF FitInv, BlockInv, Leads

\* A write to a cell that is there leaves the others where they are.
LEMMA UpdInside ==
  ASSUME NEW st, NEW l \in DOMAIN st, NEW v
  PROVE  DOMAIN Upd(st, l, v) = DOMAIN st
BY DEF Upd

LEMMA NamedStatement ==
  ASSUME ByName, NameInv, Statement
  PROVE  Targeted(task', store') /\ CellStep
<1>0. ASSUME task' = idle PROVE Targeted(task', store')
  BY <1>0, TaskShapes DEF Targeted
<1>1. ASSUME NEW x \in Ids, Decl(x) PROVE Targeted(task', store') /\ CellStep
  <2>1. DOMAIN store' = DOMAIN store \cup {index} /\ Pushed(declared(x)) /\ task' = idle
    BY <1>1 DEF Decl, Upd, Pushed, Idle
  <2> QED
    BY <1>0, <2>1 DEF CellStep
<1>2. ASSUME NEW x \in Ids, Rd(x) PROVE Targeted(task', store') /\ CellStep
  <2>1. store' = store /\ stack' = stack /\ AfterReads(task') = idle
    BY <1>2, TaskShapes DEF Rd
  <2> QED
    BY <2>1, TaskShapes DEF CellStep, Targeted
<1>3. ASSUME NEW p \in PropLists, NEW t \in LValue, TransferNew(p, t)
      PROVE  Targeted(task', store') /\ CellStep
  <2>1. PICK d \in Lv(t, store, write') :
          store' = d.store /\ task' = putTask(rs(p, timer), d.loc) /\ stack' = stack
    BY <1>3 DEF TransferNew
  <2>2. store' = store /\ AfterReads(task').op = "put"
    BY <2>1, NamedLv, TaskShapes
  <2> QED
    BY <2>1, <2>2 DEF CellStep, Targeted
<1>4. ASSUME NEW e \in LValue, NEW t \in LValue, Transfer(e, t)
      PROVE  Targeted(task', store') /\ CellStep
  <2>1. PICK o \in Operands(e, t, write') :
          store' = o.store /\ task' = transferTask(o.from, o.to) /\ stack' = stack
    BY <1>4 DEF Transfer
  <2>2. store' = store /\ o.to = env[t.id]
    BY <2>1, NamedOperands
  <2>3. env[t.id] \in DOMAIN store
    BY <1>4, EnvLive DEF Transfer, Idle, NameInv
  <2>4. AfterReads(task').to = env[t.id]
    BY <2>1, <2>2, TaskShapes
  <2> QED
    BY <2>1, <2>2, <2>3, <2>4 DEF CellStep, Targeted
<1>5. ASSUME task = idle, NEW kind, NEW x, NEW y, NewRef(kind, x, y)
      PROVE  Targeted(task', store') /\ CellStep
  <2>1. env[x] \in DOMAIN store
    BY <1>5, EnvLive DEF NewRef, NameInv
  <2>2. DOMAIN store' = DOMAIN store /\ stack' = stack /\ task' = idle
    BY <1>5, <2>1, UpdInside DEF NewRef
  <2> QED
    BY <1>0, <2>2 DEF CellStep
<1>6. ASSUME NEW e \in LValue, Deallocate(e) PROVE Targeted(task', store') /\ CellStep
  <2>1. PICK d \in Lv(e, store, write) :
          d.loc \in DOMAIN d.store /\ store' = Upd(d.store, d.loc, uninit)
    BY <1>6 DEF Deallocate
  <2>2. DOMAIN store' = DOMAIN store
    BY <2>1, NamedLv, UpdInside
  <2> QED
    BY <1>0, <1>6, <2>2 DEF Deallocate, Idle, CellStep
<1>7. ASSUME EnterBlock \/ EnterUnsafe PROVE Targeted(task', store') /\ CellStep
  <2>1. env \in EnvSet
    BY EnvInSet DEF NameInv, FitInv, BlockInv, IInv, Scopes
  <2>2. store' = store /\ task' = idle /\ \E u \in BOOLEAN : Pushed(saved(env, u))
    BY <1>7 DEF EnterBlock, EnterUnsafe, Idle, Pushed
  <2> QED
    BY <1>0, <2>1, <2>2 DEF CellStep
<1>8. ASSUME LeaveBlock PROVE Targeted(task', store') /\ CellStep
  BY <1>8, TaskShapes DEF LeaveBlock, CellStep, Targeted
<1> QED
  BY <1>1, <1>2, <1>3, <1>4, <1>5, <1>6, <1>7, <1>8
     DEF Statement, Borrow, MBorrow, Idle

LEMMA NamedRewrite ==
  ASSUME NameInv, Rewrite
  PROVE  Targeted(task', store') /\ CellStep
<1>0. ASSUME task'.op = "put" \/ task' = idle PROVE Targeted(task', store')
  BY <1>0, TaskShapes DEF Targeted, AfterReads
<1>1. ASSUME MoveOwner \/ CopyOwner \/ PutOwner \/ PutThrough
      PROVE  Targeted(task', store') /\ CellStep
  <2>1. DOMAIN store' = DOMAIN store
    BY <1>1, UpdInside DEF MoveOwner, Moving, CopyOwner, PutOwner, PutThrough
  <2>2. stack' = stack /\ (task'.op = "put" \/ task' = idle)
    BY <1>1, TaskShapes DEF MoveOwner, CopyOwner, PutOwner, PutThrough
  <2> QED
    BY <1>0, <2>1, <2>2 DEF CellStep
<1>2. ASSUME TransferRef PROVE Targeted(task', store') /\ CellStep
  <2>1. /\ store' = store /\ stack' = stack /\ task.op = "transfer"
        /\ AfterReads(task').to = task.to
    BY <1>2, TaskShapes DEF TransferRef, Moving
  <2> QED
    BY <2>1 DEF NameInv, Targeted, AfterReads, CellStep
<1>3. ASSUME ReadRef PROVE Targeted(task', store') /\ CellStep
  <2>1. /\ stack' = stack /\ DOMAIN store' = DOMAIN store
        /\ AfterReads(task') = AfterReads(task)
    BY <1>3, TaskShapes, UpdInside DEF ReadRef, Used, AfterReads
  <2> QED
    BY <2>1 DEF NameInv, Targeted, CellStep
<1>4. ASSUME ReadOwner PROVE Targeted(task', store') /\ CellStep
  <2>1. task.next.op \in {"idle", "share"} /\ task.op = "read" /\ task' = task.next
        /\ store' = store /\ stack' = stack
    BY <1>4, ReadNext DEF ReadOwner, NameInv, FitInv, BlockInv, IInv
  <2>2. AfterReads(task') = AfterReads(task)
    BY <2>1 DEF AfterReads
  <2> QED
    BY <2>1, <2>2 DEF NameInv, Targeted, CellStep
<1>5. ASSUME ShareImm \/ MoveMut PROVE Targeted(task', store') /\ CellStep
  <2>1. task.op = "share" /\ task' = idle /\ stack' = stack
    BY <1>5 DEF ShareImm, MoveMut
  <2>2. task.to \in DOMAIN store
    BY <2>1 DEF NameInv, Targeted, AfterReads
  <2>3. DOMAIN store' = DOMAIN store
    BY <1>5, <2>2, UpdInside DEF ShareImm, MoveMut
  <2> QED
    BY <1>0, <2>1, <2>3 DEF CellStep
<1>6. ASSUME PopDecl PROVE Targeted(task', store') /\ CellStep
  <2>1. Popped(env[Head(stack).id]) /\ task' = task /\ task.op = "blockend"
    BY <1>6 DEF PopDecl, Popped
  <2> QED
    BY <2>1 DEF CellStep, Targeted, AfterReads
<1>7. ASSUME RestoreEnv PROVE Targeted(task', store') /\ CellStep
  BY <1>0, <1>7 DEF RestoreEnv, CellStep
<1> QED
  BY <1>1, <1>2, <1>3, <1>4, <1>5, <1>6, <1>7 DEF Rewrite

LEMMA InitNameInv == Init => NameInv
BY InitFitInv, TaskShapes DEF Init, NameInv, Targeted

LEMMA NextNameInv ==
  ASSUME ByName
  PROVE  NameInv /\ [Next]_vars => NameInv' /\ CellStep
<1> SUFFICES ASSUME NameInv, [Next]_vars PROVE NameInv' /\ CellStep
  OBVIOUS
<1>1. FitInv'
  BY NextResources DEF NameInv
<1>2. CASE UNCHANGED vars
  BY <1>1, <1>2 DEF vars, NameInv, Targeted, CellStep
<1>3. CASE Next
  BY <1>1, <1>3, NamedStatement, NamedRewrite DEF Next, NameInv
<1> QED
  BY <1>2, <1>3

(***************************************************************************)
(* A dangling reference stays one (osl.k:28-33, block.k:26-29), in         *)
(* programs that reach cells by name: the location of a variable that left *)
(* its scope is given to no other.                                         *)
(***************************************************************************)
THEOREM DanglingStays == ASSUME ByName PROVE Spec => StaysDangling
<1> DEFINE Dangling == \A l \in RefLocs :
             store[l].to \notin DOMAIN store => store[l].to \notin DOMAIN store'
<1>1. NameInv /\ [Next]_vars => [Dangling]_vars
  <2> SUFFICES ASSUME NameInv, [Next]_vars, NEW l \in RefLocs,
                      store[l].to \notin DOMAIN store
               PROVE  store[l].to \notin DOMAIN store'
    OBVIOUS
  <2>1. store[l].to \in Given(timer) /\ index = timer /\ timer \in Nat
    BY GivenPlaces DEF NameInv, FitInv, Fits, RefLocs
  <2>2. DOMAIN store' \subseteq DOMAIN store \cup {index}
    BY NextNameInv DEF CellStep, Popped, Without
  <2> QED
    BY <2>1, <2>2 DEF Given
<1>2. StaysDangling <=> [][Dangling]_vars
  BY DEF StaysDangling
<1> HIDE DEF Dangling
<1> QED
  BY <1>1, <1>2, InitNameInv, NextNameInv, PTL DEF Spec

-----------------------------------------------------------------------------
(* As many cells as declarations.                                          *)

\* The frames of s with the tag op, and how many there are.
Tagged(s, op) == {i \in DOMAIN s : s[i].op = op}
Count(s, op) == Cardinality(Tagged(s, op))

LEMMA TaggedFinite ==
  ASSUME NEW s \in Seq(Frames), NEW op
  PROVE  IsFiniteSet(Tagged(s, op)) /\ Count(s, op) \in Nat
<1>1. Len(s) \in Nat /\ DOMAIN s = 1 .. Len(s)
  OBVIOUS
<1>2. IsFiniteSet(1 .. Len(s))
  BY <1>1, FS_Interval
<1>3. IsFiniteSet(Tagged(s, op))
  BY <1>1, <1>2, FS_Subset DEF Tagged
<1> QED
  BY <1>3, FS_CardinalityType DEF Count

LEMMA ShiftCount ==
  ASSUME NEW S \in SUBSET Nat, IsFiniteSet(S)
  PROVE  LET T == {i + 1 : i \in S}
         IN  IsFiniteSet(T) /\ Cardinality(T) = Cardinality(S)
<1> DEFINE T == {i + 1 : i \in S}
           f == [i \in S |-> i + 1]
<1>1. f \in [S -> T]
  OBVIOUS
<1>2. \A a, b \in S : f[a] = f[b] => a = b
  OBVIOUS
<1>3. \A t \in T : \E s \in S : f[s] = t
  OBVIOUS
<1> HIDE DEF f, T
<1>4. f \in Bijection(S, T)
  BY <1>1, <1>2, <1>3 DEF Bijection, Injection, Surjection, IsInjective
<1>5. IsFiniteSet(T) /\ Cardinality(T) = Cardinality(S)
  BY <1>4, FS_Bijection DEF ExistsBijection
<1> QED
  BY <1>5 DEF T

\* Pushing a frame.
LEMMA PushCount ==
  ASSUME NEW s \in Seq(Frames), NEW f \in Frames, NEW op
  PROVE  Count(<<f>> \o s, op) = Count(s, op) + (IF f.op = op THEN 1 ELSE 0)
<1> DEFINE t == <<f>> \o s
           S == Tagged(s, op)
           T == {i + 1 : i \in S}
<1>1. /\ t \in Seq(Frames) /\ t[1] = f /\ DOMAIN t = 1 .. Len(s) + 1
      /\ DOMAIN s = 1 .. Len(s) /\ Len(s) \in Nat
      /\ \A i \in DOMAIN t : i # 1 => i - 1 \in DOMAIN s /\ t[i] = s[i - 1]
      /\ \A i \in DOMAIN s : i + 1 \in DOMAIN t /\ t[i + 1] = s[i]
  BY PushShape
<1> HIDE DEF t
<1>2. IsFiniteSet(S) /\ S \in SUBSET Nat /\ Count(s, op) \in Nat
  <2>1. IsFiniteSet(S) /\ Count(s, op) \in Nat
    BY TaggedFinite
  <2>2. S \in SUBSET Nat
    BY <1>1 DEF Tagged
  <2> QED
    BY <2>1, <2>2
<1>3. IsFiniteSet(T) /\ Cardinality(T) = Count(s, op)
  BY <1>2, ShiftCount DEF Count
<1>4. 1 \notin T
  BY <1>1 DEF Tagged
<1>5. \A i \in T : i \in DOMAIN t /\ t[i].op = op
  BY <1>1 DEF Tagged
<1>6. ASSUME NEW i \in DOMAIN t, i # 1, t[i].op = op PROVE i \in T
  <2>1. i - 1 \in S /\ i = (i - 1) + 1
    BY <1>1, <1>6 DEF Tagged
  <2> QED
    BY <2>1
<1> HIDE DEF S, T
<1>7. CASE f.op = op
  <2>1. Tagged(t, op) = T \cup {1}
    BY <1>1, <1>5, <1>6, <1>7 DEF Tagged
  <2> QED
    BY <1>3, <1>4, <1>7, <2>1, FS_AddElement DEF Count, t
<1>8. CASE f.op # op
  <2>1. Tagged(t, op) = T
    BY <1>1, <1>4, <1>5, <1>6, <1>8 DEF Tagged
  <2> QED
    BY <1>2, <1>3, <1>8, <2>1 DEF Count, t
<1> QED
  BY <1>7, <1>8

\* Popping one.
LEMMA PopCount ==
  ASSUME NEW s \in Seq(Frames), s # << >>, NEW op
  PROVE  Count(s, op) = Count(Tail(s), op) + (IF Head(s).op = op THEN 1 ELSE 0)
<1> DEFINE f == Head(s)
           r == Tail(s)
<1>1. f \in Frames /\ r \in Seq(Frames) /\ s = <<f>> \o r
  BY HeadTailProperties
<1> HIDE DEF f, r
<1>2. Count(<<f>> \o r, op) = Count(r, op) + (IF f.op = op THEN 1 ELSE 0)
  BY <1>1, PushCount
<1> QED
  BY <1>1, <1>2 DEF f, r

CellsCount ==
  IsFiniteSet(DOMAIN store) /\ Cardinality(DOMAIN store) = Count(stack, "decl")

LEMMA CellsCounted ==
  ASSUME FitInv, CellsCount, CellStep
  PROVE  CellsCount'
<1>1. stack \in Seq(Frames) /\ IsFiniteSet(DOMAIN store) /\ index \notin DOMAIN store
      /\ Count(stack, "decl") \in Nat
      /\ Cardinality(DOMAIN store) = Count(stack, "decl")
  BY GivenPlaces, TaggedFinite DEF FitInv, BlockInv, IInv, Scopes, Fits, Given, CellsCount
<1>2. ASSUME NEW x \in Ids, DOMAIN store' = DOMAIN store \cup {index}, Pushed(declared(x))
      PROVE  CellsCount'
  <2>1. declared(x) \in Frames /\ declared(x).op = "decl"
    BY FrameTypes DEF declared
  <2>2. Count(stack', "decl") = Count(stack, "decl") + 1
    BY <1>1, <1>2, <2>1, PushCount DEF Pushed
  <2>3. IsFiniteSet(DOMAIN store') /\ Cardinality(DOMAIN store') = Cardinality(DOMAIN store) + 1
    BY <1>1, <1>2, FS_AddElement
  <2> QED
    BY <1>1, <2>2, <2>3 DEF CellsCount
<1>3. ASSUME NEW l, Popped(l) PROVE CellsCount'
  <2>1. Count(stack, "decl") = Count(stack', "decl") + 1 /\ stack' \in Seq(Frames)
    BY <1>1, <1>3, PopCount, HeadTailProperties DEF Popped
  <2>2. DOMAIN store' = DOMAIN store \ {l} /\ l \in DOMAIN store
    BY <1>3 DEF Popped, Without
  <2>3. IsFiniteSet(DOMAIN store') /\ Cardinality(DOMAIN store') = Cardinality(DOMAIN store) - 1
    BY <1>1, <2>2, FS_RemoveElement
  <2>4. Count(stack', "decl") \in Nat
    BY <2>1, TaggedFinite
  <2> QED
    BY <1>1, <2>1, <2>3, <2>4 DEF CellsCount
<1>4. ASSUME DOMAIN store' = DOMAIN store, Count(stack', "decl") = Count(stack, "decl")
      PROVE  CellsCount'
  BY <1>1, <1>4 DEF CellsCount
<1>5. ASSUME NEW e \in EnvSet, NEW u \in BOOLEAN, Pushed(saved(e, u))
      PROVE  Count(stack', "decl") = Count(stack, "decl")
  <2>1. saved(e, u) \in Frames /\ saved(e, u).op = "env"
    BY FrameTypes DEF saved
  <2> QED
    BY <1>1, <1>5, <2>1, PushCount DEF Pushed
<1>6. ASSUME stack # << >>, Head(stack).op = "env", stack' = Tail(stack)
      PROVE  Count(stack', "decl") = Count(stack, "decl")
  <2>1. stack' \in Seq(Frames) /\ Count(stack', "decl") \in Nat
    BY <1>1, <1>6, HeadTailProperties, TaggedFinite
  <2> QED
    BY <1>1, <1>6, <2>1, PopCount
<1> QED
  BY <1>2, <1>3, <1>4, <1>5, <1>6 DEF CellStep

LEMMA InitCells == Init => CellsCount
<1> SUFFICES ASSUME Init PROVE CellsCount
  OBVIOUS
<1>1. DOMAIN store = {} /\ Tagged(stack, "decl") = {}
  BY DEF Init, Tagged
<1> QED
  BY <1>1, FS_EmptySet DEF CellsCount, Count

(***************************************************************************)
(* A block gives back the cells it declared and no statement makes         *)
(* another (block.k:26-29, osl.k:74-78): one cell per pending declaration, *)
(* also half-way through the end of a block, in programs that reach cells  *)
(* by name.                                                                *)
(***************************************************************************)
THEOREM NoCellStrays == ASSUME ByName PROVE Spec => []NoStrayCells
<1>1. Init => NameInv /\ CellsCount
  BY InitNameInv, InitCells
<1>2. NameInv /\ CellsCount /\ [Next]_vars => NameInv' /\ CellsCount'
  BY NextNameInv, CellsCounted DEF NameInv
<1>3. CellsCount => NoStrayCells
  BY DEF CellsCount, NoStrayCells, Declarations, Count, Tagged
<1> QED
  BY <1>1, <1>2, <1>3, PTL DEF Spec

-----------------------------------------------------------------------------
(* What a reference leads to, in programs that name the cells they write:  *)
(* *x and a transfer through a reference change a cell whose writes are    *)
(* not logged.                                                             *)

Written(l, from, ws) == \E w \in ws : w.loc = l /\ from <= w.at

\* A reference leads to what it saw or to nothing, or its target is written since.
Faithful(st, ws) ==
  \A l \in DOMAIN st : IsRef(st[l]) =>
    \/ ResAt(st[l].to, st) \in {NoRes, st[l].saw}
    \/ Written(st[l].to, st[l].beg, ws)

\* The cell a transfer will fill is logged.
LoggedTask == task.op \in {"transfer", "put"} => [loc |-> task.to, at |-> timer] \in write

SightInv == NameInv /\ Faithful(store, write) /\ LoggedTask

LEMMA ResAtUpd ==
  ASSUME NEW st, NEW l, NEW v
  PROVE  \A m : ResAt(m, Upd(st, l, v)) = IF m = l THEN (IF IsRes(v) THEN v.id ELSE NoRes)
                                                   ELSE ResAt(m, st)
<1> DEFINE n == Upd(st, l, v)
<1>1. /\ DOMAIN n = DOMAIN st \cup {l} /\ n[l] = v
      /\ \A m \in DOMAIN n : m # l => m \in DOMAIN st /\ n[m] = st[m]
  BY DEF Upd
<1> HIDE DEF n
<1>2. \A m : ResAt(m, n) = IF m = l THEN (IF IsRes(v) THEN v.id ELSE NoRes)
                                    ELSE ResAt(m, st)
  BY <1>1 DEF ResAt
<1> QED
  BY <1>2 DEF n

\* A cell that is emptied, or becomes a reference that looks at its target.
LEMMA ClearFaithful ==
  ASSUME NEW st, NEW ws, Faithful(st, ws), NEW l, NEW v, ~IsRes(v),
         IsRef(v) => v.saw = ResAt(v.to, st)
  PROVE  Faithful(Upd(st, l, v), ws)
<1> DEFINE n == Upd(st, l, v)
<1>1. /\ DOMAIN n = DOMAIN st \cup {l} /\ n[l] = v
      /\ \A m \in DOMAIN n : m # l => m \in DOMAIN st /\ n[m] = st[m]
  BY DEF Upd
<1>2. \A m : ResAt(m, n) \in {NoRes, ResAt(m, st)}
  BY ResAtUpd
<1> HIDE DEF n
<1>3. Faithful(n, ws)
  BY <1>1, <1>2 DEF Faithful
<1> QED
  BY <1>3 DEF n

\* A resource that is put where the log has it.
LEMMA PutFaithful ==
  ASSUME NEW st, NEW ws, Faithful(st, ws), NEW l, NEW v, IsRes(v), NEW now,
         [loc |-> l, at |-> now] \in ws,
         \A m \in DOMAIN st : IsRef(st[m]) => st[m].beg <= now
  PROVE  Faithful(Upd(st, l, v), ws)
<1> DEFINE n == Upd(st, l, v)
<1>1. /\ DOMAIN n = DOMAIN st \cup {l} /\ n[l] = v
      /\ \A m \in DOMAIN n : m # l => m \in DOMAIN st /\ n[m] = st[m]
  BY DEF Upd
<1>2. \A m : m # l => ResAt(m, n) = ResAt(m, st)
  BY ResAtUpd
<1> HIDE DEF n
<1>3. \A m \in DOMAIN st : IsRef(st[m]) => Written(l, st[m].beg, ws)
  BY DEF Written
<1>4. ~IsRef(v)
  BY RefIsNoRes
<1>5. Faithful(n, ws)
  BY <1>1, <1>2, <1>3, <1>4 DEF Faithful
<1> QED
  BY <1>5 DEF n

\* A reference that is used.
LEMMA UseFaithful ==
  ASSUME NEW st, NEW ws, Faithful(st, ws), NEW l \in DOMAIN st, IsRef(st[l]),
         NEW kind \in {"imm", "mut"}
  PROVE  Faithful(Used(l, kind, st), ws)
<1> DEFINE v == br(kind, st[l].beg, timer, st[l].to, st[l].saw)
           n == Upd(st, l, v)
<1>0. Used(l, kind, st) = n
  BY DEF Used
<1>1. /\ DOMAIN n = DOMAIN st \cup {l} /\ n[l] = v
      /\ \A m \in DOMAIN n : m # l => m \in DOMAIN st /\ n[m] = st[m]
  BY DEF Upd
<1>2. v.beg = st[l].beg /\ v.to = st[l].to /\ v.saw = st[l].saw /\ ~IsRes(v)
  BY BrFields
<1> HIDE DEF v
<1>3. \A m : ResAt(m, n) \in {NoRes, ResAt(m, st)}
  BY <1>2, ResAtUpd
<1> HIDE DEF n
<1>4. Faithful(n, ws)
  BY <1>1, <1>2, <1>3 DEF Faithful
<1> QED
  BY <1>0, <1>4

LEMMA DropFaithful ==
  ASSUME NEW st, NEW ws, Faithful(st, ws), NEW l
  PROVE  Faithful(Without(st, l), ws)
<1> DEFINE n == Without(st, l)
<1>1. DOMAIN n = DOMAIN st \ {l} /\ \A m \in DOMAIN n : n[m] = st[m]
  BY DEF Without
<1> HIDE DEF n
<1>2. \A m : ResAt(m, n) \in {NoRes, ResAt(m, st)}
  BY <1>1 DEF ResAt
<1>3. Faithful(n, ws)
  BY <1>1, <1>2 DEF Faithful
<1> QED
  BY <1>3 DEF n

LEMMA LogFaithful ==
  ASSUME NEW st, NEW ws, NEW n, Faithful(st, ws), ws \subseteq n
  PROVE  Faithful(st, n)
BY DEF Faithful, Written

\* A statement that ends without a write.
LEMMA EndSight ==
  ASSUME write' = write, Faithful(store', write), task'.op \notin {"transfer", "put"}
  PROVE  Faithful(store', write') /\ LoggedTask'
BY DEF LoggedTask

LEMMA NewRefSight ==
  ASSUME SightInv, NEW kind \in {"imm", "mut"}, NEW x, NEW y,
         task = idle, NewRef(kind, x, y)
  PROVE  Faithful(store', write') /\ LoggedTask'
<1> DEFINE v == br(kind, index, index, env[y], ResAt(env[y], store))
<1>1. write' = write /\ task' = idle /\ store' = Upd(store, env[x], v)
  BY DEF NewRef
<1>2. ~IsRes(v) /\ v.saw = ResAt(v.to, store)
  BY BrFields
<1> HIDE DEF v
<1>3. Faithful(store', write)
  BY <1>1, <1>2, ClearFaithful DEF SightInv
<1> QED
  BY <1>1, <1>3, EndSight, TaskShapes

LEMMA StatementSight ==
  ASSUME ByName, SightInv, Statement
  PROVE  Faithful(store', write') /\ LoggedTask'
<1>1. ASSUME NEW x \in Ids, Decl(x) \/ Rd(x) PROVE Faithful(store', write') /\ LoggedTask'
  <2>1. /\ write' = write /\ task'.op \notin {"transfer", "put"}
        /\ store' = store \/ store' = Upd(store, index, uninit)
    BY <1>1, TaskShapes DEF Decl, Rd, Idle
  <2>2. Faithful(store', write)
    BY <2>1, ClearFaithful, UninitIsNone DEF SightInv
  <2> QED
    BY <2>1, <2>2, EndSight
<1>2. ASSUME NEW p \in PropLists, NEW t \in LValue, TransferNew(p, t)
      PROVE  Faithful(store', write') /\ LoggedTask'
  <2>1. PICK d \in Lv(t, store, write') :
          store' = d.store /\ task' = putTask(rs(p, timer), d.loc)
    BY <1>2 DEF TransferNew
  <2>2. store' = store /\ task'.to = env[t.id]
    BY <2>1, NamedLv, TaskShapes
  <2>3. write' = write \cup {[loc |-> env[t.id], at |-> timer]} /\ timer' = timer
    BY <1>2 DEF TransferNew, Logged
  <2> QED
    BY <2>2, <2>3, LogFaithful DEF SightInv, LoggedTask
<1>3. ASSUME NEW e \in LValue, NEW t \in LValue, Transfer(e, t)
      PROVE  Faithful(store', write') /\ LoggedTask'
  <2>1. PICK o \in Operands(e, t, write') :
          store' = o.store /\ task' = transferTask(o.from, o.to)
    BY <1>3 DEF Transfer
  <2>2. store' = store /\ task'.to = env[t.id]
    BY <2>1, NamedOperands, TaskShapes
  <2>3. write' = write \cup {[loc |-> env[t.id], at |-> timer]} /\ timer' = timer
    BY <1>3 DEF Transfer, Logged
  <2> QED
    BY <2>2, <2>3, LogFaithful DEF SightInv, LoggedTask
<1>4. ASSUME NEW e \in LValue, Deallocate(e) PROVE Faithful(store', write') /\ LoggedTask'
  <2>1. PICK d \in Lv(e, store, write) : store' = Upd(d.store, d.loc, uninit)
    BY <1>4 DEF Deallocate
  <2>2. store' = Upd(store, d.loc, uninit)
    BY <2>1, NamedLv
  <2>3. write' = write /\ task'.op \notin {"transfer", "put"}
    BY <1>4, TaskShapes DEF Deallocate, Idle
  <2> QED
    BY <2>2, <2>3, ClearFaithful, UninitIsNone, EndSight DEF SightInv
<1>5. ASSUME EnterBlock \/ EnterUnsafe \/ LeaveBlock
      PROVE  Faithful(store', write') /\ LoggedTask'
  <2>1. write' = write /\ store' = store /\ task'.op \notin {"transfer", "put"}
    BY <1>5, TaskShapes DEF EnterBlock, EnterUnsafe, LeaveBlock, Idle
  <2> QED
    BY <2>1, EndSight DEF SightInv
<1> QED
  BY <1>1, <1>2, <1>3, <1>4, <1>5, NewRefSight DEF Statement, Borrow, MBorrow, Idle

LEMMA RewriteSight ==
  ASSUME "through" \notin Forms, SightInv, Rewrite
  PROVE  Faithful(store', write') /\ LoggedTask'
<1>1. CASE MoveOwner \/ CopyOwner
  <2>1. /\ write' = write /\ timer' = timer /\ task.op = "transfer" /\ task'.to = task.to
        /\ store' = store \/ store' = Upd(store, task.from, uninit)
    BY <1>1, TaskShapes DEF MoveOwner, CopyOwner, Moving
  <2>2. Faithful(store', write)
    BY <2>1, ClearFaithful, UninitIsNone DEF SightInv
  <2> QED
    BY <2>1, <2>2 DEF SightInv, LoggedTask
<1>2. CASE TransferRef \/ RestoreEnv
  <2>1. /\ write' = write /\ store' = store
        /\ task' = idle \/ \E l, n : task' = readTask(l, n)
    BY <1>2 DEF TransferRef, RestoreEnv
  <2>2. task'.op \notin {"transfer", "put"}
    BY <2>1, TaskShapes
  <2> QED
    BY <2>1, <2>2, EndSight DEF SightInv
<1>3. CASE PutOwner
  <2>1. /\ write' = write /\ task.op = "put" /\ task'.op \notin {"transfer", "put"}
        /\ store' = Upd(store, task.to, task.res)
    BY <1>3, TaskShapes DEF PutOwner
  <2>2. [loc |-> task.to, at |-> timer] \in write
    BY <2>1 DEF SightInv, LoggedTask
  <2>3. ASSUME NEW m \in DOMAIN store, IsRef(store[m]) PROVE store[m].beg <= timer
    <3>1. Typed(store) /\ Spans(store, timer) /\ timer \in Nat
      BY DEF SightInv, NameInv, FitInv, BlockInv, IInv, StoreInv, StoreOK, Clock
    <3>2. /\ store[m].beg \in Nat /\ store[m].end \in Nat
          /\ store[m].beg <= store[m].end /\ store[m].end <= timer
      BY <2>3, <3>1, ReferenceFields DEF Typed, Spans
    <3> QED
      BY <3>1, <3>2
  <2>4. IsRes(task.res)
    BY <2>1, PutCarried DEF SightInv, NameInv
  <2>5. Faithful(store', write)
    BY <2>1, <2>2, <2>3, <2>4, PutFaithful DEF SightInv
  <2> QED
    BY <2>1, <2>5, EndSight
<1>4. CASE ReadRef
  <2>1. /\ write' = write /\ task'.op \notin {"transfer", "put"}
        /\ task.at \in DOMAIN store /\ IsRef(store[task.at])
        /\ store' = Used(task.at, store[task.at].kind, store)
    BY <1>4, TaskShapes DEF ReadRef
  <2>2. Faithful(store', write)
    BY <2>1, UseFaithful DEF SightInv, IsRef
  <2> QED
    BY <2>1, <2>2, EndSight
<1>5. CASE ReadOwner
  <2>1. task.next.op \in {"idle", "share"} /\ task' = task.next
        /\ store' = store /\ write' = write
    BY <1>5, ReadNext DEF ReadOwner, SightInv, NameInv, FitInv, BlockInv, IInv
  <2> QED
    BY <2>1, EndSight DEF SightInv
<1>6. CASE ShareImm \/ MoveMut
  <2> DEFINE v(kind) == br(kind, index, index, task.target, ResAt(task.target, store))
  <2>1. /\ write' = write /\ task'.op \notin {"transfer", "put"}
        /\ \/ store' = Upd(store, task.to, v("imm"))
           \/ store' = Upd(Upd(store, task.to, v("mut")), task.from, uninit)
    BY <1>6, TaskShapes DEF ShareImm, MoveMut
  <2>2. \A kind \in {"imm", "mut"} :
          ~IsRes(v(kind)) /\ v(kind).saw = ResAt(v(kind).to, store)
    BY BrFields
  <2> HIDE DEF v
  <2>3. \A kind \in {"imm", "mut"} : Faithful(Upd(store, task.to, v(kind)), write)
    BY <2>2, ClearFaithful DEF SightInv
  <2>4. Faithful(Upd(Upd(store, task.to, v("mut")), task.from, uninit), write)
    BY <2>3, ClearFaithful, UninitIsNone
  <2> QED
    BY <2>1, <2>3, <2>4, EndSight
<1>7. CASE PopDecl
  <2>1. /\ write' = write /\ task'.op = "blockend"
        /\ store' = Without(store, env[Head(stack).id])
    BY <1>7 DEF PopDecl
  <2> QED
    BY <2>1, DropFaithful, EndSight DEF SightInv
<1> QED
  BY <1>1, <1>2, <1>3, <1>4, <1>5, <1>6, <1>7 DEF Rewrite, PutThrough

LEMMA InitSight == Init => SightInv
BY InitNameInv, TaskShapes DEF Init, SightInv, Faithful, LoggedTask

LEMMA NextSight ==
  ASSUME ByName, "through" \notin Forms
  PROVE  SightInv /\ [Next]_vars => SightInv'
<1> SUFFICES ASSUME SightInv, [Next]_vars PROVE SightInv'
  OBVIOUS
<1>1. NameInv'
  BY NextNameInv DEF SightInv
<1>2. CASE UNCHANGED vars
  BY <1>1, <1>2 DEF vars, SightInv, LoggedTask
<1>3. CASE Next
  BY <1>1, <1>3, StatementSight, RewriteSight DEF Next, SightInv
<1> QED
  BY <1>2, <1>3

\* The log of writes is what a check looks at.
LEMMA SightSame == SightInv => SameResource
<1> SUFFICES ASSUME SightInv, NEW l \in RefLocs, ~unsafe,
                    Usable(l, store[l].kind, store, write),
                    ResAt(store[l].to, store) # NoRes
             PROVE  ResAt(store[l].to, store) = store[l].saw
  BY DEF SameResource
<1>1. l \in DOMAIN store /\ IsRef(store[l])
  BY DEF RefLocs
<1>2. \A w \in write : w.loc = store[l].to => ~(store[l].beg <= w.at /\ w.at <= timer)
  BY DEF Usable, writeCK
<1>3. \A w \in write : w.at <= timer
  BY DEF SightInv, NameInv, FitInv, BlockInv, IInv, StoreInv, Log
<1>4. ~Written(store[l].to, store[l].beg, write)
  BY <1>2, <1>3 DEF Written
<1> QED
  BY <1>1, <1>4 DEF SightInv, Faithful

(***************************************************************************)
(* A reference that passes the checks leads to the resource it was made    *)
(* for, or to none (osl.k:173-232), in programs that name the cells they   *)
(* write: whatever has taken its place since was logged as a write.        *)
(***************************************************************************)
THEOREM ChecksFindTheSame ==
  ASSUME ByName, "through" \notin Forms
  PROVE  Spec => []SameResource
BY InitSight, NextSight, SightSame, PTL DEF Spec

=============================================================================
