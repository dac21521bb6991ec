-------------------------- MODULE Ownership_proofs --------------------------
(***************************************************************************)
(* Type correctness, the clock, data-race freedom and the exclusion of     *)
(* writes, for every set of identifiers, every class of programs and every *)
(* bound.                                                                  *)
(*                                                                         *)
(* The invariant is about stores, not about the variable store: a transfer *)
(* with *x on both sides rewrites the store twice in one step.             *)
(***************************************************************************)
EXTENDS Ownership, SequenceTheorems, TLAPS

Typed(st) == DOMAIN st \subseteq Nat /\ \A l \in DOMAIN st : st[l] \in Value

\* Lifetimes lie in the past.
Spans(st, now) ==
  \A l \in DOMAIN st : IsRef(st[l]) => st[l].beg <= st[l].end /\ st[l].end <= now

\* NoDataRace, of any store.
Apart(st) ==
  \A a, b \in DOMAIN st :
    /\ IsRef(st[a]) /\ IsRef(st[b]) /\ a # b
    /\ st[a].to = st[b].to
    /\ st[a].kind = "mut" \/ st[b].kind = "mut"
    => Disjoint(st[a], st[b])

\* WritesExclusive, of any store and log.
Unwritten(st, ws) ==
  \A l \in DOMAIN st, w \in ws :
    IsRef(st[l]) /\ w.loc = st[l].to => ~(st[l].beg <= w.at /\ w.at < st[l].end)

StoreOK(st, ws, now, safe) ==
  Typed(st) /\ Spans(st, now) /\ (safe => Apart(st) /\ Unwritten(st, ws))

Log(now) == {ws \in SUBSET [loc : Nat, at : Nat] : \A w \in ws : w.at <= now}

-----------------------------------------------------------------------------
(* Values.                                                                 *)

LEMMA ReferenceFields ==
  ASSUME NEW v \in Value, IsRef(v)
  PROVE  /\ v.kind \in {"imm", "mut"} /\ v.beg \in Nat /\ v.end \in Nat
         /\ v.to \in Nat /\ v.saw \in Nat \cup {NoRes}
BY DEF Value, Reference, Resource, uninit, IsRef

LEMMA ReferenceIsValue ==
  ASSUME NEW kind \in {"imm", "mut"}, NEW beg \in Nat, NEW end \in Nat,
         NEW to \in Nat, NEW saw \in Nat \cup {NoRes}
  PROVE  /\ br(kind, beg, end, to, saw) \in Value
         /\ IsRef(br(kind, beg, end, to, saw))
BY DEF Value, Reference, br, IsRef

LEMMA ResourceIsValue ==
  ASSUME NEW v \in Resource
  PROVE  v \in Value /\ ~IsRef(v)
BY DEF Value, Resource, IsRef

LEMMA UninitIsValue == uninit \in Value /\ ~IsRef(uninit)
BY DEF Value, uninit, IsRef

LEMMA OwnedIsResource ==
  ASSUME NEW v \in Value, v.kind = "rs"
  PROVE  v \in Resource
BY DEF Value, Reference, Resource, uninit

LEMMA ResAtType ==
  ASSUME NEW st, Typed(st), NEW l
  PROVE  ResAt(l, st) \in Nat \cup {NoRes}
<1>1. CASE l \in DOMAIN st /\ IsRes(st[l])
  <2>1. st[l] \in Resource
    BY <1>1, OwnedIsResource DEF Typed, IsRes
  <2> QED
    BY <1>1, <2>1 DEF ResAt, Resource
<1>2. CASE ~(l \in DOMAIN st /\ IsRes(st[l]))
  BY <1>2 DEF ResAt
<1> QED
  BY <1>1, <1>2

-----------------------------------------------------------------------------
(* What the rules do to a store.                                           *)

\* A cell that becomes empty or an owner.
LEMMA OwnKeeps ==
  ASSUME NEW st, NEW ws, NEW now, NEW safe, StoreOK(st, ws, now, safe),
         NEW l \in Nat, NEW v \in Value, ~IsRef(v)
  PROVE  StoreOK(Upd(st, l, v), ws, now, safe)
<1> DEFINE n == Upd(st, l, v)
<1>1. DOMAIN n = DOMAIN st \cup {l}
  BY DEF Upd
<1>2. n[l] = v /\ \A m \in DOMAIN n : m # l => m \in DOMAIN st /\ n[m] = st[m]
  BY DEF Upd
<1> HIDE DEF n
<1>3. Typed(n)
  BY <1>1, <1>2 DEF StoreOK, Typed
<1>4. Spans(n, now)
  BY <1>1, <1>2 DEF StoreOK, Spans
<1>5. safe => Apart(n)
  BY <1>1, <1>2 DEF StoreOK, Apart
<1>6. safe => Unwritten(n, ws)
  BY <1>1, <1>2 DEF StoreOK, Unwritten
<1> QED
  BY <1>3, <1>4, <1>5, <1>6 DEF StoreOK, n

\* A cell that becomes a new reference: its lifetime is this instant.
LEMMA NewKeeps ==
  ASSUME NEW st, NEW now \in Nat, NEW ws \in Log(now), NEW safe,
         StoreOK(st, ws, now, safe),
         NEW l \in Nat, NEW kind \in {"imm", "mut"}, NEW to \in Nat,
         NEW saw \in Nat \cup {NoRes}
  PROVE  StoreOK(Upd(st, l, br(kind, now, now, to, saw)), ws, now, safe)
<1> DEFINE v == br(kind, now, now, to, saw)
           n == Upd(st, l, v)
<1>1. DOMAIN n = DOMAIN st \cup {l}
  BY DEF Upd
<1>2. n[l] = v /\ \A m \in DOMAIN n : m # l => m \in DOMAIN st /\ n[m] = st[m]
  BY DEF Upd
<1>3. v \in Value /\ IsRef(v)
  BY ReferenceIsValue
<1>4. v.beg = now /\ v.end = now /\ v.to = to /\ v.kind = kind
  BY DEF br
<1> HIDE DEF n, v
<1>5. Typed(n)
  BY <1>1, <1>2, <1>3 DEF StoreOK, Typed
<1>6. Spans(n, now)
  BY <1>1, <1>2, <1>4 DEF StoreOK, Spans
<1>7. \A m \in DOMAIN n : m # l /\ IsRef(n[m]) => n[m].end <= now
  BY <1>1, <1>2 DEF StoreOK, Spans
<1>8. safe => Apart(n)
  BY <1>1, <1>2, <1>4, <1>7 DEF StoreOK, Apart, Disjoint
<1>9. safe => Unwritten(n, ws)
  BY <1>1, <1>2, <1>4 DEF StoreOK, Unwritten, Log
<1> QED
  BY <1>5, <1>6, <1>8, <1>9 DEF StoreOK, n, v

\* A reference that is used after its checks: its lifetime reaches now.
LEMMA UseKeeps ==
  ASSUME NEW st, NEW ws \in Log(timer), timer \in Nat, NEW safe,
         StoreOK(st, ws, timer, safe), unsafe => ~safe,
         NEW l \in DOMAIN st, IsRef(st[l]),
         NEW kind \in {"imm", "mut"}, Usable(l, kind, st, ws)
  PROVE  StoreOK(Used(l, kind, st), ws, timer, safe)
<1> DEFINE r == st[l]
           v == br(kind, r.beg, timer, r.to, r.saw)
           n == Upd(st, l, v)
<1>0. Used(l, kind, st) = n
  BY DEF Used
<1>1. DOMAIN n = DOMAIN st /\ DOMAIN st \subseteq Nat
  BY DEF Upd, StoreOK, Typed
<1>2. n[l] = v /\ \A m \in DOMAIN n : m # l => n[m] = st[m]
  BY DEF Upd
<1>3. r.beg \in Nat /\ r.end \in Nat /\ r.to \in Nat /\ r.saw \in Nat \cup {NoRes}
  BY ReferenceFields DEF StoreOK, Typed
<1>4. v \in Value /\ IsRef(v)
  BY <1>3, ReferenceIsValue
<1>5. v.beg = r.beg /\ v.end = timer /\ v.to = r.to /\ v.kind = kind
  BY DEF br
<1>6. r.beg <= r.end /\ r.end <= timer
  BY DEF StoreOK, Spans
<1>7. ASSUME safe, NEW o \in DOMAIN st, o # l, IsRef(st[o]), st[o].to = r.to,
             st[o].kind = "mut" \/ kind = "mut"
      PROVE  st[o].end <= r.beg
  <2>1. st[o].beg \in Nat /\ st[o].end \in Nat /\ st[o].beg <= st[o].end /\ st[o].end <= timer
    BY <1>7, ReferenceFields DEF StoreOK, Typed, Spans
  <2>2. o \in Others(l, st, r.to)
    BY <1>7 DEF Others
  <2>3. ~unsafe
    BY <1>7
  <2>4. CASE kind = "imm"
    <3>1. ~lc(r.beg, timer, st[o].beg, st[o].end)
      BY <1>7, <2>2, <2>3, <2>4 DEF Usable, borrowimmck
    <3> QED
      BY <1>3, <2>1, <3>1 DEF lc
  <2>5. CASE kind = "mut"
    <3>1. ~lc(r.beg, timer, st[o].beg, st[o].end)
      BY <2>2, <2>3, <2>5 DEF Usable, borrowmutck
    <3> QED
      BY <1>3, <2>1, <3>1 DEF lc
  <2> QED
    BY <2>4, <2>5
<1>8. ASSUME safe, NEW w \in ws, w.loc = r.to
      PROVE  ~(r.beg <= w.at /\ w.at <= timer)
  BY <1>8 DEF Usable, writeCK
<1> HIDE DEF n, v
<1>9. Typed(n)
  BY <1>1, <1>2, <1>4 DEF StoreOK, Typed
<1>10. Spans(n, timer)
  BY <1>1, <1>2, <1>3, <1>5, <1>6 DEF StoreOK, Spans
<1>11. ASSUME safe PROVE Apart(n)
  <2> SUFFICES ASSUME NEW a \in DOMAIN n, NEW b \in DOMAIN n,
                      IsRef(n[a]), IsRef(n[b]), a # b, n[a].to = n[b].to,
                      n[a].kind = "mut" \/ n[b].kind = "mut"
               PROVE  Disjoint(n[a], n[b])
    BY DEF Apart
  <2>1. CASE a # l /\ b # l
    BY <1>1, <1>2, <1>11, <2>1 DEF StoreOK, Apart
  <2>2. CASE a = l
    BY <1>1, <1>2, <1>5, <1>7, <1>11, <2>2 DEF Disjoint
  <2>3. CASE b = l
    BY <1>1, <1>2, <1>5, <1>7, <1>11, <2>3 DEF Disjoint
  <2> QED
    BY <2>1, <2>2, <2>3
<1>12. ASSUME safe PROVE Unwritten(n, ws)
  <2> SUFFICES ASSUME NEW m \in DOMAIN n, NEW w \in ws, IsRef(n[m]), w.loc = n[m].to
               PROVE  ~(n[m].beg <= w.at /\ w.at < n[m].end)
    BY DEF Unwritten
  <2>1. CASE m # l
    BY <1>1, <1>2, <1>12, <2>1 DEF StoreOK, Unwritten
  <2>2. CASE m = l
    <3>1. w.at \in Nat
      BY DEF Log
    <3> QED
      BY <1>2, <1>3, <1>5, <1>8, <1>12, <2>2, <3>1
  <2> QED
    BY <2>1, <2>2
<1> QED
  BY <1>0, <1>9, <1>10, <1>11, <1>12 DEF StoreOK

\* A cell that leaves the store.
LEMMA DropKeeps ==
  ASSUME NEW st, NEW ws, NEW now, NEW safe, StoreOK(st, ws, now, safe), NEW l
  PROVE  StoreOK(Without(st, l), ws, now, safe)
<1> DEFINE n == Without(st, l)
<1>1. DOMAIN n \subseteq DOMAIN st /\ \A m \in DOMAIN n : n[m] = st[m]
  BY DEF Without
<1> HIDE DEF n
<1>2. Typed(n) /\ Spans(n, now)
  BY <1>1 DEF StoreOK, Typed, Spans
<1>3. safe => Apart(n)
  BY <1>1 DEF StoreOK, Apart
<1>4. safe => Unwritten(n, ws)
  BY <1>1 DEF StoreOK, Unwritten
<1> QED
  BY <1>2, <1>3, <1>4 DEF StoreOK, n

\* A write that is logged now: the lifetimes that hold now end before it.
LEMMA LogKeeps ==
  ASSUME NEW st, NEW now \in Nat, NEW ws \in Log(now), NEW safe,
         StoreOK(st, ws, now, safe), NEW l \in Nat
  PROVE  LET n == ws \cup {[loc |-> l, at |-> now]}
         IN  n \in Log(now) /\ StoreOK(st, n, now, safe)
<1> DEFINE w == [loc |-> l, at |-> now]
           n == ws \cup {w}
<1>1. w \in [loc : Nat, at : Nat] /\ w.at = now
  OBVIOUS
<1>2. n \in Log(now)
  BY <1>1 DEF Log
<1>3. ASSUME safe PROVE Unwritten(st, n)
  <2> SUFFICES ASSUME NEW m \in DOMAIN st, NEW x \in n, IsRef(st[m]), x.loc = st[m].to
               PROVE  ~(st[m].beg <= x.at /\ x.at < st[m].end)
    BY DEF Unwritten
  <2>1. st[m].end \in Nat /\ st[m].end <= now
    BY ReferenceFields DEF StoreOK, Typed, Spans
  <2> QED
    BY <1>1, <1>3, <2>1 DEF StoreOK, Unwritten
<1> QED
  BY <1>2, <1>3 DEF StoreOK

\* The clock moves on, or the checks are given up.
LEMMA LaterKeeps ==
  ASSUME NEW st, NEW now \in Nat, NEW ws \in Log(now), NEW safe,
         StoreOK(st, ws, now, safe)
  PROVE  ws \in Log(now + 1) /\ StoreOK(st, ws, now + 1, safe)
<1>1. ws \in Log(now + 1)
  BY DEF Log
<1>2. ASSUME NEW m \in DOMAIN st, IsRef(st[m])
      PROVE  st[m].beg <= st[m].end /\ st[m].end <= now + 1
  BY <1>2, ReferenceFields DEF StoreOK, Typed, Spans
<1> QED
  BY <1>1, <1>2 DEF StoreOK, Spans

\* Evaluating an lvalue.
LEMMA LvKeeps ==
  ASSUME NEW st, NEW ws \in Log(timer), timer \in Nat, NEW safe,
         StoreOK(st, ws, timer, safe), unsafe => ~safe, IsEnv(env),
         NEW e \in LValue, NEW d \in Lv(e, st, ws)
  PROVE  d.loc \in Nat /\ StoreOK(d.store, ws, timer, safe)
<1> DEFINE l == env[e.id]
<1>1. e.id \in DOMAIN env
  BY DEF Lv
<1>2. l \in Nat
  BY <1>1 DEF IsEnv
<1>3. CASE ~e.deref
  <2>1. d = [loc |-> l, store |-> st]
    BY <1>1, <1>3 DEF Lv
  <2> QED
    BY <1>2, <2>1
<1>4. CASE e.deref
  <2>1. PICK kind \in {"imm", "mut"} :
          /\ l \in DOMAIN st /\ st[l].kind = "imm" /\ Usable(l, kind, st, ws)
          /\ d = [loc |-> st[l].to, store |-> Used(l, kind, st)]
    BY <1>1, <1>4 DEF Lv
  <2>2. IsRef(st[l])
    BY <2>1 DEF IsRef
  <2>3. st[l].to \in Nat
    BY <2>1, <2>2, ReferenceFields DEF StoreOK, Typed
  <2>4. StoreOK(Used(l, kind, st), ws, timer, safe)
    BY <2>1, <2>2, UseKeeps
  <2> QED
    BY <2>1, <2>3, <2>4
<1> QED
  BY <1>3, <1>4

\* Evaluating the two operands of a transfer.
LEMMA OperandsKeep ==
  ASSUME NEW ws \in Log(timer), timer \in Nat, NEW safe,
         StoreOK(store, ws, timer, safe), unsafe => ~safe, IsEnv(env),
         NEW e \in LValue, NEW t \in LValue, NEW o \in Operands(e, t, ws)
  PROVE  o.from \in Nat /\ o.to \in Nat /\ StoreOK(o.store, ws, timer, safe)
<1>1. CASE \E f \in Lv(e, store, ws) : \E d \in Lv(t, f.store, ws) :
             o = [from |-> f.loc, to |-> d.loc, store |-> d.store]
  <2>1. PICK f \in Lv(e, store, ws) : \E d \in Lv(t, f.store, ws) :
               o = [from |-> f.loc, to |-> d.loc, store |-> d.store]
    BY <1>1
  <2>2. f.loc \in Nat /\ StoreOK(f.store, ws, timer, safe)
    BY LvKeeps
  <2>3. PICK d \in Lv(t, f.store, ws) :
               o = [from |-> f.loc, to |-> d.loc, store |-> d.store]
    BY <2>1
  <2>4. d.loc \in Nat /\ StoreOK(d.store, ws, timer, safe)
    BY <2>2, LvKeeps
  <2> QED
    BY <2>2, <2>3, <2>4
<1>2. CASE \E d \in Lv(t, store, ws) : \E f \in Lv(e, d.store, ws) :
             o = [from |-> f.loc, to |-> d.loc, store |-> f.store]
  <2>1. PICK d \in Lv(t, store, ws) : \E f \in Lv(e, d.store, ws) :
               o = [from |-> f.loc, to |-> d.loc, store |-> f.store]
    BY <1>2
  <2>2. d.loc \in Nat /\ StoreOK(d.store, ws, timer, safe)
    BY LvKeeps
  <2>3. PICK f \in Lv(e, d.store, ws) :
               o = [from |-> f.loc, to |-> d.loc, store |-> f.store]
    BY <2>1
  <2>4. f.loc \in Nat /\ StoreOK(f.store, ws, timer, safe)
    BY <2>2, LvKeeps
  <2> QED
    BY <2>2, <2>3, <2>4
<1> DEFINE left(f) == {[from |-> f.loc, to |-> d.loc, store |-> d.store] :
                         d \in Lv(t, f.store, ws)}
           right(d) == {[from |-> f.loc, to |-> d.loc, store |-> f.store] :
                          f \in Lv(e, d.store, ws)}
<1>3. \/ \E f \in Lv(e, store, ws) : o \in left(f)
      \/ \E d \in Lv(t, store, ws) : o \in right(d)
  BY Zenon DEF Operands
<1>4. CASE \E f \in Lv(e, store, ws) : o \in left(f)
  BY <1>1, <1>4, Zenon
<1>5. CASE \E d \in Lv(t, store, ws) : o \in right(d)
  BY <1>2, <1>5, Zenon
<1> QED
  BY <1>3, <1>4, <1>5, Zenon

-----------------------------------------------------------------------------
(* The other cells.                                                        *)

EnvSet == UNION {[D -> Nat] : D \in SUBSET Ids}

Frames == [op : {"decl"}, id : Ids] \cup [op : {"env"}, env : EnvSet, unsafe : BOOLEAN]

LEMMA EnvInSet == \A e : IsEnv(e) <=> e \in EnvSet
BY DEF IsEnv, EnvSet

LEMMA EnvKeeps ==
  ASSUME NEW e, IsEnv(e), NEW x \in Ids, NEW v \in Nat
  PROVE  IsEnv(Upd(e, x, v))
<1>1. PICK D \in SUBSET Ids : e \in [D -> Nat]
  BY DEF IsEnv
<1>2. Upd(e, x, v) \in [D \cup {x} -> Nat]
  BY <1>1 DEF Upd
<1> QED
  BY <1>2 DEF IsEnv

LEMMA EnvRange ==
  ASSUME NEW e, IsEnv(e), NEW x \in DOMAIN e
  PROVE  e[x] \in Nat
BY DEF IsEnv

LEMMA FrameTypes ==
  /\ \A x \in Ids : declared(x) \in Frames
  /\ \A e \in EnvSet, u \in BOOLEAN : saved(e, u) \in Frames
BY DEF declared, saved, Frames

LEMMA FramesAreFrames == \A f \in Frames : IsFrame(f)
<1> SUFFICES ASSUME NEW f \in Frames PROVE IsFrame(f)
  OBVIOUS
<1>1. CASE f \in [op : {"decl"}, id : Ids]
  BY <1>1 DEF IsFrame
<1>2. CASE f \in [op : {"env"}, env : EnvSet, unsafe : BOOLEAN]
  BY <1>2, EnvInSet DEF IsFrame
<1> QED
  BY <1>1, <1>2 DEF Frames

LEMMA FrameFields ==
  ASSUME NEW f \in Frames, f.op = "env"
  PROVE  f.env \in EnvSet /\ f.unsafe \in BOOLEAN
BY DEF Frames

LEMMA PushKeeps ==
  ASSUME NEW s \in Seq(Frames), NEW f \in Frames
  PROVE  <<f>> \o s \in Seq(Frames)
<1>1. <<f>> \in Seq(Frames)
  OBVIOUS
<1> QED
  BY <1>1, ConcatProperties

LEMMA TaskTypes ==
  /\ idle \in Task /\ blockendTask \in Task
  /\ \A f, t \in Nat : transferTask(f, t) \in Task
  /\ \A r \in Resource, t \in Nat : putTask(r, t) \in Task
  /\ \A l \in Nat : readTask(l, idle) \in Task
  /\ \A l, g, f, t \in Nat, k \in {"imm", "mut"} :
       readTask(l, shareTask(k, g, f, t)) \in Task
BY DEF Task, idle, blockendTask, transferTask, putTask, readTask, shareTask

LEMMA TaskFields ==
  ASSUME NEW t \in Task
  PROVE  /\ t.op = "transfer" => t.from \in Nat /\ t.to \in Nat
         /\ t.op = "put" => t.res \in Resource /\ t.to \in Nat
         /\ t.op = "share" => /\ t.kind \in {"imm", "mut"}
                              /\ t.target \in Nat /\ t.from \in Nat /\ t.to \in Nat
         /\ t.op = "read" => t.at \in Nat /\ t.next \in Task
BY DEF Task, idle, blockendTask

LEMMA ReadOn ==
  ASSUME NEW t \in Task, t.op = "read", NEW l \in Nat
  PROVE  readTask(l, t.next) \in Task
BY DEF Task, idle, blockendTask, readTask

-----------------------------------------------------------------------------
(* The inductive invariant.                                                *)

Clock == timer \in Nat /\ index = timer

Modes == unsafe \in BOOLEAN /\ wasUnsafe \in BOOLEAN /\ (unsafe => wasUnsafe)

Scopes == IsEnv(env) /\ stack \in Seq(Frames)

StoreInv == write \in Log(timer) /\ StoreOK(store, write, timer, ~wasUnsafe)

IInv == Clock /\ Modes /\ Scopes /\ task \in Task /\ StoreInv

LEMMA InitIInv == Init => IInv
<1> SUFFICES ASSUME Init PROVE IInv
  OBVIOUS
<1>1. DOMAIN env = {} /\ DOMAIN store = {} /\ env = << >>
  BY DEF Init
<1>2. Scopes
  <2>1. env \in [{} -> Nat]
    BY <1>1
  <2> QED
    BY <2>1 DEF Init, Scopes, IsEnv
<1>3. StoreInv
  BY <1>1 DEF Init, StoreInv, StoreOK, Typed, Spans, Apart, Unwritten, Log
<1> QED
  BY <1>2, <1>3, TaskTypes DEF Init, IInv, Clock, Modes

-----------------------------------------------------------------------------
(* One lemma per action, or per group of actions that change the same.     *)

\* The clock ticks over a store that is fine.
LEMMA Ticked ==
  ASSUME IInv, Tick, UNCHANGED <<write, wasUnsafe>>,
         StoreOK(store', write, timer, ~wasUnsafe)
  PROVE  Clock' /\ StoreInv'
<1>1. timer \in Nat /\ index = timer /\ write \in Log(timer)
  BY DEF IInv, Clock, StoreInv
<1>2. timer' = timer + 1 /\ index' = timer + 1
  BY <1>1 DEF Tick
<1>3. write \in Log(timer + 1) /\ StoreOK(store', write, timer + 1, ~wasUnsafe)
  BY <1>1, LaterKeeps
<1> QED
  BY <1>1, <1>2, <1>3 DEF Clock, StoreInv

LEMMA DeclStep == ASSUME IInv, NEW x \in Ids, Decl(x) PROVE IInv'
<1>1. index \in Nat
  BY DEF IInv, Clock
<1>2. Scopes'
  BY <1>1, EnvKeeps, PushKeeps, FrameTypes DEF Decl, IInv, Scopes
<1>3. StoreOK(store', write, timer, ~wasUnsafe)
  BY <1>1, OwnKeeps, UninitIsValue DEF Decl, IInv, StoreInv
<1>4. Clock' /\ StoreInv'
  BY <1>3, Ticked DEF Decl
<1> QED
  BY <1>2, <1>4 DEF Decl, IInv, Modes

\* The log of a transfer to t, and the store of the operands' evaluation.
LEMMA LoggedKeeps ==
  ASSUME IInv, NEW t \in LValue, t.id \in DOMAIN env
  PROVE  Logged(t) \in Log(timer) /\ StoreOK(store, Logged(t), timer, ~wasUnsafe)
<1>1. env[t.id] \in Nat
  BY EnvRange DEF IInv, Scopes
<1> QED
  BY <1>1, LogKeeps DEF Logged, IInv, Clock, StoreInv

LEMMA TransferNewStep ==
  ASSUME IInv, NEW props \in PropLists, NEW t \in LValue, TransferNew(props, t)
  PROVE  IInv'
<1>1. write' \in Log(timer) /\ StoreOK(store, write', timer, ~wasUnsafe)
  BY LoggedKeeps DEF TransferNew
<1>2. PICK d \in Lv(t, store, write') :
        store' = d.store /\ task' = putTask(rs(props, timer), d.loc)
  BY DEF TransferNew
<1>3. d.loc \in Nat /\ StoreOK(d.store, write', timer, ~wasUnsafe)
  BY <1>1, LvKeeps DEF IInv, Clock, Modes, Scopes
<1>4. rs(props, timer) \in Resource
  BY PropsAssumption DEF IInv, Clock, rs, Resource
<1>5. task' \in Task
  BY <1>2, <1>3, <1>4, TaskTypes
<1>6. StoreInv'
  BY <1>1, <1>2, <1>3 DEF TransferNew, StoreInv
<1> QED
  BY <1>5, <1>6 DEF TransferNew, IInv, Clock, Modes, Scopes

LEMMA TransferStep ==
  ASSUME IInv, NEW e \in LValue, NEW t \in LValue, Transfer(e, t)
  PROVE  IInv'
<1>1. write' \in Log(timer) /\ StoreOK(store, write', timer, ~wasUnsafe)
  BY LoggedKeeps DEF Transfer
<1>2. PICK o \in Operands(e, t, write') :
        store' = o.store /\ task' = transferTask(o.from, o.to)
  BY DEF Transfer
<1>3. o.from \in Nat /\ o.to \in Nat /\ StoreOK(o.store, write', timer, ~wasUnsafe)
  BY <1>1, OperandsKeep DEF IInv, Clock, Modes, Scopes
<1>4. task' \in Task
  BY <1>2, <1>3, TaskTypes
<1>5. StoreInv'
  BY <1>1, <1>2, <1>3 DEF Transfer, StoreInv
<1> QED
  BY <1>4, <1>5 DEF Transfer, IInv, Clock, Modes, Scopes

\* A value of the store is a value.
LEMMA CellType ==
  ASSUME IInv, NEW l \in DOMAIN store
  PROVE  l \in Nat /\ store[l] \in Value
BY DEF IInv, StoreInv, StoreOK, Typed

LEMMA MoveOwnerStep == ASSUME IInv, MoveOwner PROVE IInv'
<1>1. task.from \in Nat /\ task.to \in Nat /\ store[task.from] \in Resource
  BY TaskFields, CellType, OwnedIsResource DEF MoveOwner, Moving, IInv
<1>2. StoreInv'
  BY <1>1, OwnKeeps, UninitIsValue DEF MoveOwner, IInv, StoreInv
<1>3. task' \in Task
  BY <1>1, TaskTypes DEF MoveOwner
<1> QED
  BY <1>2, <1>3 DEF MoveOwner, IInv, Clock, Modes, Scopes

LEMMA CopyOwnerStep == ASSUME IInv, CopyOwner PROVE IInv'
<1>1. task.to \in Nat /\ store[task.from] \in Resource
  BY TaskFields, CellType, OwnedIsResource DEF CopyOwner, Moving, IInv
<1>2. rs(store[task.from].props, timer) \in Resource
  BY <1>1 DEF rs, Resource, IInv, Clock
<1>3. task' \in Task
  BY <1>1, <1>2, TaskTypes DEF CopyOwner
<1> QED
  BY <1>3 DEF CopyOwner, IInv, Clock, Modes, Scopes, StoreInv

LEMMA TransferRefStep == ASSUME IInv, TransferRef PROVE IInv'
<1>1. task.from \in Nat /\ task.to \in Nat
  BY TaskFields DEF TransferRef, Moving, IInv
<1>2. store[task.from] \in Value /\ IsRef(store[task.from])
  BY CellType DEF TransferRef, Moving, IsRef
<1>3. store[task.from].kind \in {"imm", "mut"} /\ store[task.from].to \in Nat
  BY <1>2, ReferenceFields
<1>4. task' \in Task
  BY <1>1, <1>3, TaskTypes DEF TransferRef
<1> QED
  BY <1>4 DEF TransferRef, IInv, Clock, Modes, Scopes, StoreInv

LEMMA PutOwnerStep == ASSUME IInv, PutOwner PROVE IInv'
<1>1. task.to \in Nat /\ task.res \in Value /\ ~IsRef(task.res)
  BY TaskFields, ResourceIsValue DEF PutOwner, IInv
<1>2. StoreOK(store', write, timer, ~wasUnsafe)
  BY <1>1, OwnKeeps DEF PutOwner, IInv, StoreInv
<1>3. Clock' /\ StoreInv'
  BY <1>2, Ticked DEF PutOwner
<1> QED
  BY <1>3, TaskTypes DEF PutOwner, IInv, Modes, Scopes

LEMMA PutThroughStep == ASSUME IInv, PutThrough PROVE IInv'
<1>1. task.res \in Resource
  BY TaskFields DEF PutThrough, IInv
<1>2. store[task.to] \in Value /\ IsRef(store[task.to])
  BY CellType DEF PutThrough, IsRef
<1>3. task' \in Task
  BY <1>1, <1>2, ReferenceFields, TaskTypes DEF PutThrough
<1> QED
  BY <1>3 DEF PutThrough, IInv, Clock, Modes, Scopes, StoreInv

LEMMA ReadRefStep == ASSUME IInv, ReadRef PROVE IInv'
<1>1. store[task.at] \in Value /\ IsRef(store[task.at])
  BY CellType DEF ReadRef
<1>2. store[task.at].kind \in {"imm", "mut"} /\ store[task.at].to \in Nat
  BY <1>1, ReferenceFields
<1>3. StoreInv'
  BY <1>1, <1>2, UseKeeps DEF ReadRef, IInv, Clock, Modes, StoreInv
<1>4. task' \in Task
  BY <1>2, ReadOn DEF ReadRef, IInv
<1> QED
  BY <1>3, <1>4 DEF ReadRef, IInv, Clock, Modes, Scopes

LEMMA ReadOwnerStep == ASSUME IInv, ReadOwner PROVE IInv'
BY TaskFields DEF ReadOwner, IInv, Clock, Modes, Scopes, StoreInv

LEMMA ShareImmStep == ASSUME IInv, ShareImm PROVE IInv'
<1>1. task.to \in Nat /\ task.target \in Nat
  BY TaskFields DEF ShareImm, IInv
<1>2. ResAt(task.target, store) \in Nat \cup {NoRes}
  BY ResAtType DEF IInv, StoreInv, StoreOK
<1>3. StoreOK(store', write, timer, ~wasUnsafe)
  BY <1>1, <1>2, NewKeeps DEF ShareImm, IInv, Clock, StoreInv
<1>4. Clock' /\ StoreInv'
  BY <1>3, Ticked DEF ShareImm
<1> QED
  BY <1>4, TaskTypes DEF ShareImm, IInv, Modes, Scopes

LEMMA MoveMutStep == ASSUME IInv, MoveMut PROVE IInv'
<1> DEFINE st == Upd(store, task.to,
                   br("mut", index, index, task.target, ResAt(task.target, store)))
<1>1. task.to \in Nat /\ task.target \in Nat /\ task.from \in Nat
  BY TaskFields DEF MoveMut, IInv
<1>2. ResAt(task.target, store) \in Nat \cup {NoRes}
  BY ResAtType DEF IInv, StoreInv, StoreOK
<1>3. StoreOK(st, write, timer, ~wasUnsafe)
  BY <1>1, <1>2, NewKeeps DEF IInv, Clock, StoreInv
<1>4. store' = Upd(st, task.from, uninit)
  BY DEF MoveMut
<1> HIDE DEF st
<1>5. StoreOK(store', write, timer, ~wasUnsafe)
  BY <1>1, <1>3, <1>4, OwnKeeps, UninitIsValue
<1>6. Clock' /\ StoreInv'
  BY <1>5, Ticked DEF MoveMut
<1> QED
  BY <1>6, TaskTypes DEF MoveMut, IInv, Modes, Scopes

LEMMA RdStep == ASSUME IInv, NEW x \in Ids, Rd(x) PROVE IInv'
<1>1. env[x] \in Nat
  BY EnvRange DEF Rd, IInv, Scopes
<1>2. task' \in Task
  BY <1>1, TaskTypes DEF Rd
<1> QED
  BY <1>2 DEF Rd, IInv, Clock, Modes, Scopes, StoreInv

LEMMA NewRefStep ==
  ASSUME IInv, NEW kind \in {"imm", "mut"}, NEW x \in Ids, NEW y \in Ids,
         NewRef(kind, x, y)
  PROVE  IInv'
<1>1. env[x] \in Nat /\ env[y] \in Nat
  BY EnvRange DEF NewRef, IInv, Scopes
<1>2. ResAt(env[y], store) \in Nat \cup {NoRes}
  BY ResAtType DEF IInv, StoreInv, StoreOK
<1>3. StoreOK(store', write, timer, ~wasUnsafe)
  BY <1>1, <1>2, NewKeeps DEF NewRef, IInv, Clock, StoreInv
<1>4. Clock' /\ StoreInv'
  BY <1>3, Ticked DEF NewRef
<1> QED
  BY <1>4 DEF NewRef, IInv, Modes, Scopes

LEMMA DeallocateStep == ASSUME IInv, NEW e \in LValue, Deallocate(e) PROVE IInv'
<1>1. PICK d \in Lv(e, store, write) : store' = Upd(d.store, d.loc, uninit)
  BY DEF Deallocate
<1>2. d.loc \in Nat /\ StoreOK(d.store, write, timer, ~wasUnsafe)
  BY LvKeeps DEF IInv, Clock, Modes, Scopes, StoreInv
<1>3. StoreOK(store', write, timer, ~wasUnsafe)
  BY <1>1, <1>2, OwnKeeps, UninitIsValue
<1> QED
  BY <1>3 DEF Deallocate, IInv, Clock, Modes, Scopes, StoreInv

LEMMA EnterBlockStep == ASSUME IInv, EnterBlock PROVE IInv'
<1>1. Scopes'
  BY PushKeeps, FrameTypes, EnvInSet DEF EnterBlock, IInv, Scopes
<1> QED
  BY <1>1 DEF EnterBlock, IInv, Clock, Modes, StoreInv

\* From here on nothing is claimed of lifetimes: wasUnsafe holds.
LEMMA EnterUnsafeStep == ASSUME IInv, EnterUnsafe PROVE IInv'
<1>1. Scopes'
  BY PushKeeps, FrameTypes, EnvInSet DEF EnterUnsafe, IInv, Scopes
<1>2. Modes'
  BY DEF EnterUnsafe, Modes
<1>3. StoreInv'
  BY DEF EnterUnsafe, IInv, StoreInv, StoreOK
<1> QED
  BY <1>1, <1>2, <1>3 DEF EnterUnsafe, IInv, Clock

LEMMA LeaveBlockStep == ASSUME IInv, LeaveBlock PROVE IInv'
BY TaskTypes DEF LeaveBlock, IInv, Clock, Modes, Scopes, StoreInv

LEMMA PopDeclStep == ASSUME IInv, PopDecl PROVE IInv'
<1>1. Scopes'
  BY HeadTailProperties DEF PopDecl, IInv, Scopes
<1>2. StoreInv'
  BY DropKeeps DEF PopDecl, IInv, StoreInv
<1> QED
  BY <1>1, <1>2 DEF PopDecl, IInv, Clock, Modes

LEMMA RestoreEnvStep == ASSUME IInv, RestoreEnv PROVE IInv'
<1>1. Head(stack) \in Frames /\ Tail(stack) \in Seq(Frames)
  BY HeadTailProperties DEF RestoreEnv, IInv, Scopes
<1>2. Scopes'
  BY <1>1, FrameFields, EnvInSet DEF RestoreEnv, Scopes
<1>3. Modes'
  BY <1>1, FrameFields DEF RestoreEnv, IInv, Modes
<1> QED
  BY <1>2, <1>3, TaskTypes DEF RestoreEnv, IInv, Clock, StoreInv

-----------------------------------------------------------------------------
(* The invariant holds of every reachable state.                           *)

LEMMA StatementStep == ASSUME IInv, Statement PROVE IInv'
<1>1. CASE \E x \in Ids : Decl(x) \/ Rd(x)
  BY <1>1, DeclStep, RdStep
<1>2. CASE \E p \in PropLists, t \in LValue : TransferNew(p, t)
  BY <1>2, TransferNewStep
<1>3. CASE \E e, t \in LValue : Transfer(e, t)
  BY <1>3, TransferStep
<1>4. CASE \E x, y \in Ids : Borrow(x, y) \/ MBorrow(x, y)
  BY <1>4, NewRefStep DEF Borrow, MBorrow
<1>5. CASE \E e \in LValue : Deallocate(e)
  BY <1>5, DeallocateStep
<1>6. CASE EnterBlock \/ EnterUnsafe \/ LeaveBlock
  BY <1>6, EnterBlockStep, EnterUnsafeStep, LeaveBlockStep
<1> QED
  BY <1>1, <1>2, <1>3, <1>4, <1>5, <1>6 DEF Statement

LEMMA RewriteStep == ASSUME IInv, Rewrite PROVE IInv'
BY MoveOwnerStep, CopyOwnerStep, TransferRefStep, PutOwnerStep, PutThroughStep,
   ReadRefStep, ReadOwnerStep, ShareImmStep, MoveMutStep, PopDeclStep, RestoreEnvStep
   DEF Rewrite

LEMMA NextIInv == IInv /\ [Next]_vars => IInv'
<1> SUFFICES ASSUME IInv, [Next]_vars PROVE IInv'
  OBVIOUS
<1>1. CASE UNCHANGED vars
  BY <1>1 DEF vars, IInv, Clock, Modes, Scopes, StoreInv
<1>2. CASE Statement
  BY <1>2, StatementStep
<1>3. CASE Rewrite
  BY <1>3, RewriteStep
<1> QED
  BY <1>1, <1>2, <1>3 DEF Next

\* IInv is an invariant of every execution of a <state>: the fact the
\* theorems below are consequences of.
LEMMA Invariance == Spec => []IInv
BY InitIInv, NextIInv, PTL DEF Spec

-----------------------------------------------------------------------------
(* What follows from it.                                                   *)

LEMMA IInvTypeOK == IInv => TypeOK
<1> SUFFICES ASSUME IInv PROVE TypeOK
  OBVIOUS
<1>1. IsEnv(env) /\ \A i \in 1 .. Len(stack) : IsFrame(stack[i])
  BY FramesAreFrames DEF IInv, Scopes
<1>2. DOMAIN store \subseteq Nat /\ \A l \in DOMAIN store : store[l] \in Value
  BY DEF IInv, StoreInv, StoreOK, Typed
<1>3. write \subseteq [loc : Nat, at : Nat]
  BY DEF IInv, StoreInv, Log
<1> QED
  BY <1>1, <1>2, <1>3 DEF TypeOK, IInv, Clock, Modes

LEMMA IInvOneClock == IInv => OneClock
BY DEF IInv, Clock, StoreInv, StoreOK, Spans, Log, OneClock, RefLocs

LEMMA IInvNoDataRace == IInv => NoDataRace
<1> SUFFICES ASSUME IInv, ~wasUnsafe, NEW a \in RefLocs, NEW b \in RefLocs,
                    a # b, store[a].to = store[b].to,
                    "mut" \in {store[a].kind, store[b].kind}
             PROVE  Disjoint(store[a], store[b])
  BY DEF NoDataRace
<1>1. Apart(store)
  BY DEF IInv, StoreInv, StoreOK
<1> QED
  BY <1>1 DEF Apart, RefLocs

LEMMA IInvWritesExclusive == IInv => WritesExclusive
BY DEF IInv, StoreInv, StoreOK, Unwritten, WritesExclusive, RefLocs

(***************************************************************************)
(* Type correctness: the rules of osl.k and block.k keep every cell of a   *)
(* <state> a value of its type, for any identifiers, forms and bounds.     *)
(***************************************************************************)
THEOREM TypeCorrect == Spec => []TypeOK
BY Invariance, IInvTypeOK, PTL

(***************************************************************************)
(* <indexes> and <timer> are one clock and lifetimes lie in its past       *)
(* (osl.k:28-33, 74-78, 352-379).                                          *)
(***************************************************************************)
THEOREM LifetimesOnOneClock == Spec => []OneClock
BY Invariance, IInvOneClock, PTL

(***************************************************************************)
(* Data-race freedom of accepted programs (osl.k:212-340): the lifetimes   *)
(* of a mutable reference and of another reference to its target do not    *)
(* overlap, whatever the program does outside unsafe blocks.               *)
(***************************************************************************)
THEOREM DataRaceFreedom == Spec => []NoDataRace
BY Invariance, IInvNoDataRace, PTL

(***************************************************************************)
(* Transfers respect lifetimes (osl.k:49-67, 196-208): a variable is not   *)
(* transferred to between the creation and the last use of a reference     *)
(* to it.                                                                  *)
(***************************************************************************)
THEOREM WritesAreExclusive == Spec => []WritesExclusive
BY Invariance, IInvWritesExclusive, PTL

=============================================================================
