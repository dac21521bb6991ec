--------------------------- MODULE Blocks_proofs ---------------------------
(***************************************************************************)
(* Scopes and unsafe blocks, for every set of identifiers, every class of  *)
(* programs and every bound: the end of a block takes back the cells of    *)
(* that block and no others, and the checks are off only inside an unsafe  *)
(* block.                                                                  *)
(***************************************************************************)
EXTENDS Ownership_proofs

IsSaved(f) == f.op = "env"
IsDeclared(f) == f.op = "decl"

\* The environment e only leads to locations that satisfy the test.
Leads(e, L) == \A x \in DOMAIN e : e[x] \in L

\* The locations given out so far.
Given(n) == {l \in Nat : l < n}

\* x does not mean in e what it means in the environment f.
Hides(e, x, f) == x \in DOMAIN e => \A y \in DOMAIN f : f[y] # e[x]

(***************************************************************************)
(* What a declaration of x on the stack gave is no cell of a block further *)
(* out, neither in the environment e of now nor in one that was saved      *)
(* since: this is why unwinding it by name takes the right cell.           *)
(***************************************************************************)
Nested(e, s) ==
  \A i, j \in DOMAIN s :
    /\ i < j /\ IsDeclared(s[i]) /\ IsSaved(s[j])
    => /\ Hides(e, s[i].id, s[j].env)
       /\ \A k \in DOMAIN s :
            k < i /\ IsSaved(s[k]) => Hides(s[k].env, s[i].id, s[j].env)

\* Every saved environment leads to the locations in L.
SavedLead(s, L) == \A i \in DOMAIN s : IsSaved(s[i]) => Leads(s[i].env, L)

BlockInv ==
  /\ IInv
  /\ Leads(env, Given(index)) /\ SavedLead(stack, Given(index))
  /\ SavedLead(stack, DOMAIN store)
  /\ task.op # "blockend" => Leads(env, DOMAIN store)
  /\ Nested(env, stack)
  /\ unsafe => \E i \in DOMAIN stack : IsSaved(stack[i]) /\ stack[i].unsafe

-----------------------------------------------------------------------------
(* Pushing and popping.                                                    *)

LEMMA PushShape ==
  ASSUME NEW s \in Seq(Frames), NEW f \in Frames
  PROVE  LET t == <<f>> \o s
         IN  /\ t \in Seq(Frames) /\ Len(t) = Len(s) + 1 /\ t[1] = f
             /\ DOMAIN t = 1 .. Len(s) + 1 /\ DOMAIN s = 1 .. Len(s) /\ Len(s) \in Nat
             /\ \A i \in DOMAIN t : i # 1 => i - 1 \in DOMAIN s /\ t[i] = s[i - 1]
             /\ \A i \in DOMAIN s : i + 1 \in DOMAIN t /\ t[i + 1] = s[i]
<1>1. <<f>> \in Seq(Frames) /\ Len(<<f>>) = 1 /\ <<f>>[1] = f
  OBVIOUS
<1> QED
  BY <1>1, ConcatProperties

LEMMA PopShape ==
  ASSUME NEW s \in Seq(Frames), s # << >>
  PROVE  /\ Tail(s) \in Seq(Frames) /\ Head(s) = s[1] /\ Head(s) \in Frames
         /\ 1 \in DOMAIN s /\ DOMAIN s = 1 .. Len(s)
         /\ \A i \in DOMAIN Tail(s) : i + 1 \in DOMAIN s /\ Tail(s)[i] = s[i + 1]
         /\ \A i \in DOMAIN s : i # 1 => i - 1 \in DOMAIN Tail(s)
                                         /\ Tail(s)[i - 1] = s[i]
BY HeadTailProperties

LEMMA PushNested ==
  ASSUME NEW e, NEW s \in Seq(Frames), Nested(e, s)
  PROVE  \A u \in BOOLEAN : e \in EnvSet => Nested(e, <<saved(e, u)>> \o s)
<1> SUFFICES ASSUME NEW u \in BOOLEAN, e \in EnvSet
             PROVE  Nested(e, <<saved(e, u)>> \o s)
  OBVIOUS
<1> DEFINE f == saved(e, u)
           t == <<f>> \o s
<1>1. f \in Frames /\ IsSaved(f) /\ f.env = e /\ ~IsDeclared(f)
  BY FrameTypes DEF saved, IsSaved, IsDeclared
<1> HIDE DEF f
<1>2. /\ t[1] = f /\ DOMAIN t = 1 .. Len(s) + 1 /\ DOMAIN s = 1 .. Len(s) /\ Len(s) \in Nat
      /\ \A i \in DOMAIN t : i # 1 => i - 1 \in DOMAIN s /\ t[i] = s[i - 1]
  BY <1>1, PushShape
<1> HIDE DEF t
<1>3. Nested(e, t)
  <2> SUFFICES ASSUME NEW i \in DOMAIN t, NEW j \in DOMAIN t,
                      i < j, IsDeclared(t[i]), IsSaved(t[j])
               PROVE  /\ Hides(e, t[i].id, t[j].env)
                      /\ \A k \in DOMAIN t :
                           k < i /\ IsSaved(t[k]) => Hides(t[k].env, t[i].id, t[j].env)
    BY DEF Nested
  <2>1. i # 1 /\ j # 1
    BY <1>1, <1>2
  <2>2. /\ i - 1 \in DOMAIN s /\ j - 1 \in DOMAIN s /\ i - 1 < j - 1
        /\ t[i] = s[i - 1] /\ t[j] = s[j - 1]
    BY <1>2, <2>1
  <2>3. Hides(e, t[i].id, t[j].env)
    BY <2>2 DEF Nested
  <2>4. ASSUME NEW k \in DOMAIN t, k < i, IsSaved(t[k])
        PROVE  Hides(t[k].env, t[i].id, t[j].env)
    <3>1. CASE k = 1
      BY <1>1, <1>2, <2>3, <3>1
    <3>2. CASE k # 1
      <4>1. k - 1 \in DOMAIN s /\ k - 1 < i - 1 /\ t[k] = s[k - 1]
        BY <1>2, <2>4, <3>2
      <4> QED
        BY <2>2, <2>4, <4>1 DEF Nested
    <3> QED
      BY <3>1, <3>2
  <2> QED
    BY <2>3, <2>4
<1> QED
  BY <1>3 DEF t, f

LEMMA DeclNested ==
  ASSUME NEW e, NEW s \in Seq(Frames), Nested(e, s),
         NEW x \in Ids, NEW l \in Nat, SavedLead(s, Given(l))
  PROVE  Nested(Upd(e, x, l), <<declared(x)>> \o s)
<1> DEFINE f == declared(x)
           t == <<f>> \o s
           g == Upd(e, x, l)
<1>1. f \in Frames /\ ~IsSaved(f) /\ f.id = x
  BY FrameTypes DEF declared, IsSaved, IsDeclared
<1>2. DOMAIN g = DOMAIN e \cup {x} /\ \A y \in DOMAIN g : g[y] = IF y = x THEN l ELSE e[y]
  BY DEF Upd
<1> HIDE DEF f, g
<1>3. /\ t[1] = f /\ DOMAIN t = 1 .. Len(s) + 1 /\ DOMAIN s = 1 .. Len(s) /\ Len(s) \in Nat
      /\ \A i \in DOMAIN t : i # 1 => i - 1 \in DOMAIN s /\ t[i] = s[i - 1]
  BY <1>1, PushShape
<1> HIDE DEF t
<1>4. ASSUME NEW j \in DOMAIN s, IsSaved(s[j])
      PROVE  Hides(g, x, s[j].env)
  <2>1. \A y \in DOMAIN s[j].env : s[j].env[y] # l
    BY <1>4 DEF SavedLead, Leads, Given
  <2> QED
    BY <1>2, <2>1 DEF Hides
<1>5. Nested(g, t)
  <2> SUFFICES ASSUME NEW i \in DOMAIN t, NEW j \in DOMAIN t,
                      i < j, IsDeclared(t[i]), IsSaved(t[j])
               PROVE  /\ Hides(g, t[i].id, t[j].env)
                      /\ \A k \in DOMAIN t :
                           k < i /\ IsSaved(t[k]) => Hides(t[k].env, t[i].id, t[j].env)
    BY DEF Nested
  <2>1. j # 1 /\ j - 1 \in DOMAIN s /\ t[j] = s[j - 1]
    BY <1>1, <1>3
  <2>2. CASE i = 1
    BY <1>1, <1>3, <1>4, <2>1, <2>2
  <2>3. CASE i # 1
    <3>1. i - 1 \in DOMAIN s /\ t[i] = s[i - 1] /\ i - 1 < j - 1
      BY <1>3, <2>1, <2>3
    <3>2. Hides(e, t[i].id, t[j].env)
      BY <2>1, <3>1 DEF Nested
    <3>3. Hides(g, t[i].id, t[j].env)
      BY <1>2, <1>4, <2>1, <3>2 DEF Hides
    <3>4. ASSUME NEW k \in DOMAIN t, k < i, IsSaved(t[k])
          PROVE  Hides(t[k].env, t[i].id, t[j].env)
      <4>1. k - 1 \in DOMAIN s /\ k - 1 < i - 1 /\ t[k] = s[k - 1]
        BY <1>1, <1>3, <3>4, <2>3
      <4> QED
        BY <2>1, <3>1, <3>4, <4>1 DEF Nested
    <3> QED
      BY <3>3, <3>4
  <2> QED
    BY <2>2, <2>3
<1> QED
  BY <1>5 DEF t, f, g

LEMMA PopNested ==
  ASSUME NEW e, NEW s \in Seq(Frames), s # << >>, Nested(e, s)
  PROVE  /\ Nested(e, Tail(s))
         /\ IsSaved(Head(s)) => Nested(Head(s).env, Tail(s))
<1> DEFINE t == Tail(s)
<1>1. /\ Head(s) = s[1] /\ 1 \in DOMAIN s /\ DOMAIN s = 1 .. Len(s)
      /\ \A i \in DOMAIN t : i + 1 \in DOMAIN s /\ t[i] = s[i + 1]
  BY PopShape
<1>2. DOMAIN t \subseteq Nat /\ \A i \in DOMAIN t : i > 0
  BY PopShape
<1> HIDE DEF t
<1>3. ASSUME NEW i \in DOMAIN t, NEW j \in DOMAIN t,
             i < j, IsDeclared(t[i]), IsSaved(t[j])
      PROVE  /\ Hides(e, t[i].id, t[j].env)
             /\ IsSaved(s[1]) => Hides(s[1].env, t[i].id, t[j].env)
             /\ \A k \in DOMAIN t :
                  k < i /\ IsSaved(t[k]) => Hides(t[k].env, t[i].id, t[j].env)
  <2>1. /\ i + 1 \in DOMAIN s /\ j + 1 \in DOMAIN s /\ i + 1 < j + 1
        /\ t[i] = s[i + 1] /\ t[j] = s[j + 1] /\ 1 < i + 1
    BY <1>1, <1>2, <1>3
  <2>2. ASSUME NEW k \in DOMAIN t, k < i, IsSaved(t[k])
        PROVE  Hides(t[k].env, t[i].id, t[j].env)
    <3>1. k + 1 \in DOMAIN s /\ k + 1 < i + 1 /\ t[k] = s[k + 1]
      BY <1>1, <1>2, <2>2
    <3> QED
      BY <1>3, <2>1, <2>2, <3>1 DEF Nested
  <2> QED
    BY <1>1, <1>3, <2>1, <2>2 DEF Nested
<1>4. Nested(e, t)
  BY <1>3 DEF Nested
<1>5. IsSaved(s[1]) => Nested(s[1].env, t)
  BY <1>3 DEF Nested
<1> QED
  BY <1>1, <1>4, <1>5 DEF t

-----------------------------------------------------------------------------
(* The actions.                                                            *)

LEMMA InitBlockInv == Init => BlockInv
<1> SUFFICES ASSUME Init PROVE BlockInv
  OBVIOUS
<1>1. DOMAIN env = {} /\ DOMAIN stack = {} /\ unsafe = FALSE
  BY DEF Init
<1> QED
  BY <1>1, InitIInv DEF BlockInv, Leads, SavedLead, Nested

\* Statements and rewrites that neither open nor close a scope.
LEMMA QuietStep ==
  ASSUME BlockInv, IInv', UNCHANGED <<env, stack, unsafe>>, index <= index',
         DOMAIN store \subseteq DOMAIN store',
         task.op # "blockend" \/ task'.op = "blockend"
  PROVE  BlockInv'
<1>1. index \in Nat /\ index' \in Nat
  BY DEF BlockInv, IInv, Clock
<1>2. Given(index) \subseteq Given(index')
  BY <1>1 DEF Given
<1> QED
  BY <1>2 DEF BlockInv, Leads, SavedLead

\* An lvalue leaves every cell in place.
LEMMA LvCells ==
  ASSUME NEW st, NEW ws, NEW e, NEW d \in Lv(e, st, ws)
  PROVE  DOMAIN st \subseteq DOMAIN d.store
<1>1. CASE ~e.deref
  <2>1. d = [loc |-> env[e.id], store |-> st]
    BY <1>1 DEF Lv
  <2> QED
    BY <2>1
<1>2. CASE e.deref
  <2>1. PICK kind \in {"imm", "mut"} :
          d = [loc |-> st[env[e.id]].to, store |-> Used(env[e.id], kind, st)]
    BY <1>2 DEF Lv
  <2> QED
    BY <2>1 DEF Used, Upd
<1> QED
  BY <1>1, <1>2

LEMMA OperandCells ==
  ASSUME NEW ws, NEW e, NEW t, NEW o \in Operands(e, t, ws)
  PROVE  DOMAIN store \subseteq DOMAIN o.store
<1> DEFINE left(f) == {[from |-> f.loc, to |-> d.loc, store |-> d.store] :
                         d \in Lv(t, f.store, ws)}
           right(d) == {[from |-> f.loc, to |-> d.loc, store |-> f.store] :
                          f \in Lv(e, d.store, ws)}
<1>1. \/ \E f \in Lv(e, store, ws) : o \in left(f)
      \/ \E d \in Lv(t, store, ws) : o \in right(d)
  BY Zenon DEF Operands
<1>2. ASSUME NEW f \in Lv(e, store, ws), o \in left(f)
      PROVE  DOMAIN store \subseteq DOMAIN o.store
  <2>1. PICK d \in Lv(t, f.store, ws) : o.store = d.store
    BY <1>2
  <2> QED
    BY <2>1, LvCells
<1>3. ASSUME NEW d \in Lv(t, store, ws), o \in right(d)
      PROVE  DOMAIN store \subseteq DOMAIN o.store
  <2>1. PICK f \in Lv(e, d.store, ws) : o.store = f.store
    BY <1>3
  <2> QED
    BY <2>1, LvCells
<1> QED
  BY <1>1, <1>2, <1>3, Zenon

LEMMA DeclBlocks == ASSUME BlockInv, NEW x \in Ids, Decl(x) PROVE BlockInv'
<1>1. IInv' /\ index \in Nat /\ index' = index + 1 /\ stack \in Seq(Frames)
  BY DeclStep DEF BlockInv, IInv, Clock, Scopes, Decl, Tick
<1>2. /\ DOMAIN env' = DOMAIN env \cup {x} /\ DOMAIN store' = DOMAIN store \cup {index}
      /\ \A y \in DOMAIN env' : env'[y] = IF y = x THEN index ELSE env[y]
  BY DEF Decl, Upd
<1>3. Leads(env', Given(index')) /\ Leads(env', DOMAIN store')
  <2>1. Leads(env, DOMAIN store)
    BY DEF BlockInv, Decl, Idle, idle
  <2> QED
    BY <1>1, <1>2, <2>1 DEF BlockInv, Leads, Given
<1>4. SavedLead(stack', Given(index')) /\ SavedLead(stack', DOMAIN store')
  <2>1. /\ declared(x) \in Frames /\ ~IsSaved(declared(x))
        /\ stack' = <<declared(x)>> \o stack
    BY FrameTypes DEF declared, IsSaved, Decl
  <2>2. Given(index) \subseteq Given(index')
    BY <1>1 DEF Given
  <2> QED
    BY <1>1, <1>2, <2>1, <2>2, PushShape DEF BlockInv, SavedLead, Leads
<1>5. Nested(env', stack')
  BY <1>1, DeclNested DEF BlockInv, Decl
<1>6. unsafe' => \E i \in DOMAIN stack' : IsSaved(stack'[i]) /\ stack'[i].unsafe
  <2>1. declared(x) \in Frames /\ stack' = <<declared(x)>> \o stack /\ unsafe' = unsafe
    BY FrameTypes DEF Decl
  <2> SUFFICES ASSUME unsafe
               PROVE  \E i \in DOMAIN stack' : IsSaved(stack'[i]) /\ stack'[i].unsafe
    BY <2>1
  <2>2. PICK i \in DOMAIN stack : IsSaved(stack[i]) /\ stack[i].unsafe
    BY DEF BlockInv
  <2>3. i + 1 \in DOMAIN stack' /\ stack'[i + 1] = stack[i]
    BY <1>1, <2>1, PushShape
  <2> QED
    BY <2>2, <2>3
<1> QED
  BY <1>1, <1>3, <1>4, <1>5, <1>6 DEF BlockInv

\* { and unsafe {, and the block of a call.
LEMMA SaveBlocks ==
  ASSUME BlockInv, IInv', NEW u \in BOOLEAN, stack' = <<saved(env, u)>> \o stack,
         UNCHANGED <<env, store, index, task>>, task = idle,
         unsafe' => unsafe \/ u
  PROVE  BlockInv'
<1>1. stack \in Seq(Frames) /\ env \in EnvSet
  BY EnvInSet DEF BlockInv, IInv, Scopes
<1>2. saved(env, u) \in Frames /\ IsSaved(saved(env, u)) /\ saved(env, u).env = env
      /\ saved(env, u).unsafe = u
  BY <1>1, FrameTypes DEF saved, IsSaved
<1>3. Nested(env', stack')
  BY <1>1, PushNested DEF BlockInv
<1>4. Leads(env, DOMAIN store)
  BY DEF BlockInv, idle
<1>5. SavedLead(stack', Given(index')) /\ SavedLead(stack', DOMAIN store')
  BY <1>1, <1>2, <1>4, PushShape DEF BlockInv, SavedLead
<1>6. unsafe' => \E i \in DOMAIN stack' : IsSaved(stack'[i]) /\ stack'[i].unsafe
  <2>1. stack'[1] = saved(env, u) /\ 1 \in DOMAIN stack'
    BY <1>1, <1>2, PushShape
  <2>2. CASE u
    BY <1>2, <2>1, <2>2
  <2>3. ASSUME unsafe, NEW i \in DOMAIN stack, IsSaved(stack[i]), stack[i].unsafe
        PROVE  i + 1 \in DOMAIN stack' /\ stack'[i + 1] = stack[i]
    BY <1>1, <1>2, PushShape
  <2>4. CASE unsafe
    <3>1. PICK i \in DOMAIN stack : IsSaved(stack[i]) /\ stack[i].unsafe
      BY <2>4 DEF BlockInv
    <3> QED
      BY <2>3, <2>4, <3>1
  <2> QED
    BY <2>2, <2>4
<1> QED
  BY <1>3, <1>5, <1>6 DEF BlockInv

LEMMA PopDeclBlocks == ASSUME BlockInv, PopDecl PROVE BlockInv'
<1> DEFINE x == Head(stack).id
<1>1. IInv' /\ stack \in Seq(Frames) /\ stack # << >> /\ stack' = Tail(stack)
  BY PopDeclStep DEF BlockInv, IInv, Scopes, PopDecl
<1>2. /\ x \in DOMAIN env /\ DOMAIN store' = DOMAIN store \ {env[x]}
      /\ IsDeclared(Head(stack)) /\ ~IsSaved(Head(stack))
      /\ UNCHANGED <<env, index, unsafe, task>> /\ task.op = "blockend"
  BY DEF PopDecl, Without, IsDeclared, IsSaved
<1>3. /\ Head(stack) = stack[1] /\ 1 \in DOMAIN stack /\ DOMAIN stack = 1 .. Len(stack)
      /\ \A i \in DOMAIN stack' : i + 1 \in DOMAIN stack /\ stack'[i] = stack[i + 1]
      /\ \A i \in DOMAIN stack : i # 1 => i - 1 \in DOMAIN stack'
                                          /\ stack'[i - 1] = stack[i]
      /\ \A i \in DOMAIN stack' : i \in Nat /\ i > 0
  BY <1>1, PopShape
<1>4. Nested(env', stack')
  BY <1>1, <1>2, PopNested DEF BlockInv
<1>5. SavedLead(stack', DOMAIN store')
  <2> SUFFICES ASSUME NEW i \in DOMAIN stack', IsSaved(stack'[i]),
                      NEW y \in DOMAIN stack'[i].env
               PROVE  stack'[i].env[y] \in DOMAIN store'
    BY DEF SavedLead, Leads
  <2>1. i + 1 \in DOMAIN stack /\ stack'[i] = stack[i + 1] /\ 1 < i + 1
    BY <1>3
  <2>2. stack[i + 1].env[y] \in DOMAIN store
    BY <2>1 DEF BlockInv, SavedLead, Leads
  <2>3. Hides(env, x, stack[i + 1].env)
    BY <1>2, <1>3, <2>1 DEF BlockInv, Nested
  <2> QED
    BY <1>2, <2>1, <2>2, <2>3 DEF Hides
<1>6. SavedLead(stack', Given(index'))
  BY <1>2, <1>3 DEF BlockInv, SavedLead
<1>7. unsafe' => \E i \in DOMAIN stack' : IsSaved(stack'[i]) /\ stack'[i].unsafe
  <2> SUFFICES ASSUME unsafe
               PROVE  \E i \in DOMAIN stack' : IsSaved(stack'[i]) /\ stack'[i].unsafe
    BY <1>2
  <2>1. PICK i \in DOMAIN stack : IsSaved(stack[i]) /\ stack[i].unsafe
    BY DEF BlockInv
  <2>2. i # 1
    BY <1>2, <1>3, <2>1
  <2> QED
    BY <1>3, <2>1, <2>2
<1> QED
  BY <1>1, <1>2, <1>4, <1>5, <1>6, <1>7 DEF BlockInv

LEMMA RestoreEnvBlocks == ASSUME BlockInv, RestoreEnv PROVE BlockInv'
<1>1. IInv' /\ stack \in Seq(Frames) /\ stack # << >> /\ stack' = Tail(stack)
  BY RestoreEnvStep DEF BlockInv, IInv, Scopes, RestoreEnv
<1>2. /\ IsSaved(Head(stack)) /\ env' = Head(stack).env
      /\ UNCHANGED <<index, store>>
      /\ unsafe' = IF Head(stack).unsafe THEN FALSE ELSE unsafe
  BY DEF RestoreEnv, IsSaved
<1>3. /\ Head(stack) = stack[1] /\ 1 \in DOMAIN stack
      /\ \A i \in DOMAIN stack' : i + 1 \in DOMAIN stack /\ stack'[i] = stack[i + 1]
      /\ \A i \in DOMAIN stack : i # 1 => i - 1 \in DOMAIN stack'
                                          /\ stack'[i - 1] = stack[i]
  BY <1>1, PopShape
<1>4. Nested(env', stack')
  BY <1>1, <1>2, PopNested DEF BlockInv
<1>5. Leads(env', Given(index')) /\ Leads(env', DOMAIN store')
  BY <1>2, <1>3 DEF BlockInv, SavedLead
<1>6. SavedLead(stack', Given(index')) /\ SavedLead(stack', DOMAIN store')
  BY <1>2, <1>3 DEF BlockInv, SavedLead
<1>7. unsafe' => \E i \in DOMAIN stack' : IsSaved(stack'[i]) /\ stack'[i].unsafe
  <2> SUFFICES ASSUME unsafe, ~Head(stack).unsafe
               PROVE  \E i \in DOMAIN stack' : IsSaved(stack'[i]) /\ stack'[i].unsafe
    BY <1>2
  <2>1. PICK i \in DOMAIN stack : IsSaved(stack[i]) /\ stack[i].unsafe
    BY DEF BlockInv
  <2> QED
    BY <1>3, <2>1
<1> QED
  BY <1>1, <1>4, <1>5, <1>6, <1>7 DEF BlockInv

\* A statement that is not a declaration and opens no block, and the rewrites
\* that carry one on, leave the scopes alone.
LEMMA QuietStatement ==
  ASSUME BlockInv,
         \/ \E x \in Ids : Rd(x)
         \/ \E p \in PropLists, t \in LValue : TransferNew(p, t)
         \/ \E e, t \in LValue : Transfer(e, t)
         \/ \E x, y \in Ids : Borrow(x, y) \/ MBorrow(x, y)
         \/ \E e \in LValue : Deallocate(e)
         \/ LeaveBlock
  PROVE  BlockInv'
<1>1. IInv' /\ task = idle
  <2>1. Statement
    BY DEF Statement
  <2> QED
    BY <2>1, StatementStep DEF BlockInv, Rd, TransferNew, Transfer, Borrow, MBorrow,
                               Deallocate, LeaveBlock, Idle
<1>2. task.op # "blockend" /\ index \in Nat
  BY <1>1 DEF idle, BlockInv, IInv, Clock
<1>3. UNCHANGED <<env, stack, unsafe>> /\ index <= index'
  <2>1. ASSUME NEW kind, NEW x, NEW y, NewRef(kind, x, y)
        PROVE  UNCHANGED <<env, stack, unsafe>> /\ index <= index'
    BY <1>2, <2>1 DEF NewRef, Tick
  <2> QED
    BY <1>2, <2>1 DEF Rd, TransferNew, Transfer, Borrow, MBorrow, Deallocate, LeaveBlock
<1>4. DOMAIN store \subseteq DOMAIN store'
  <2>1. ASSUME NEW kind, NEW x, NEW y, NewRef(kind, x, y)
        PROVE  DOMAIN store \subseteq DOMAIN store'
    BY <2>1 DEF NewRef, Upd
  <2>2. ASSUME NEW p \in PropLists, NEW t \in LValue, TransferNew(p, t)
        PROVE  DOMAIN store \subseteq DOMAIN store'
    BY <2>2, LvCells DEF TransferNew
  <2>3. ASSUME NEW e \in LValue, NEW t \in LValue, Transfer(e, t)
        PROVE  DOMAIN store \subseteq DOMAIN store'
    BY <2>3, OperandCells DEF Transfer
  <2>4. ASSUME NEW e \in LValue, Deallocate(e)
        PROVE  DOMAIN store \subseteq DOMAIN store'
    <3>1. PICK d \in Lv(e, store, write) : store' = Upd(d.store, d.loc, uninit)
      BY <2>4 DEF Deallocate
    <3> QED
      BY <3>1, LvCells DEF Upd
  <2> QED
    BY <2>1, <2>2, <2>3, <2>4 DEF Rd, Borrow, MBorrow, LeaveBlock
<1> QED
  BY <1>1, <1>2, <1>3, <1>4, QuietStep

LEMMA QuietRewrite ==
  ASSUME BlockInv,
         \/ MoveOwner \/ CopyOwner \/ TransferRef \/ PutOwner \/ PutThrough
         \/ ReadRef \/ ReadOwner \/ ShareImm \/ MoveMut
  PROVE  BlockInv'
<1>1. IInv' /\ index \in Nat
  BY RewriteStep DEF BlockInv, Rewrite, IInv, Clock
<1>2. task.op # "blockend"
  BY DEF MoveOwner, CopyOwner, TransferRef, Moving, PutOwner, PutThrough,
         ReadRef, ReadOwner, ShareImm, MoveMut
<1>3. UNCHANGED <<env, stack, unsafe>> /\ index <= index'
  BY <1>1 DEF MoveOwner, CopyOwner, TransferRef, PutOwner, PutThrough,
              ReadRef, ReadOwner, ShareImm, MoveMut, Tick
<1>4. DOMAIN store \subseteq DOMAIN store'
  BY DEF MoveOwner, CopyOwner, TransferRef, PutOwner, PutThrough,
         ReadRef, ReadOwner, ShareImm, MoveMut, Upd, Used
<1> QED
  BY <1>1, <1>2, <1>3, <1>4, QuietStep

LEMMA StatementBlocks == ASSUME BlockInv, Statement PROVE BlockInv'
<1>1. CASE EnterBlock
  <2>1. IInv'
    BY <1>1, EnterBlockStep DEF BlockInv
  <2> QED
    BY <1>1, <2>1, SaveBlocks DEF EnterBlock, Idle
<1>2. CASE EnterUnsafe
  <2>1. IInv'
    BY <1>2, EnterUnsafeStep DEF BlockInv
  <2> QED
    BY <1>2, <2>1, SaveBlocks DEF EnterUnsafe, Idle
<1> QED
  BY <1>1, <1>2, DeclBlocks, QuietStatement DEF Statement

LEMMA RewriteBlocks == ASSUME BlockInv, Rewrite PROVE BlockInv'
BY QuietRewrite, PopDeclBlocks, RestoreEnvBlocks DEF Rewrite

LEMMA NextBlockInv == BlockInv /\ [Next]_vars => BlockInv'
<1>1. CASE UNCHANGED vars
  BY <1>1, NextIInv DEF vars, BlockInv
<1> QED
  BY <1>1, StatementBlocks, RewriteBlocks DEF Next

LEMMA BlockInvariance == Spec => []BlockInv
BY InitBlockInv, NextBlockInv, PTL DEF Spec

LEMMA BlockInvScopesLive == BlockInv => ScopesLive
BY DEF BlockInv, ScopesLive, idle, Leads, SavedLead, IsSaved

LEMMA BlockInvUnsafe == BlockInv => UnsafeInside
BY DEF BlockInv, UnsafeInside, InUnsafe, IsSaved

(***************************************************************************)
(* The end of a block takes back the cells of that block only (block.k:    *)
(* 14-33): whatever was declared again, borrowed, moved or left dangling,  *)
(* every variable of the blocks that are still open has its cell.          *)
(***************************************************************************)
THEOREM ScopesStayLive == Spec => []ScopesLive
BY BlockInvariance, BlockInvScopesLive, PTL

(***************************************************************************)
(* The checks are off only inside an unsafe block (block.k:36-40).         *)
(***************************************************************************)
THEOREM ChecksOffOnlyInUnsafe == Spec => []UnsafeInside
BY BlockInvariance, BlockInvUnsafe, PTL

=============================================================================
