----------------------------- MODULE Pool_proofs -----------------------------
(***************************************************************************)
(* The types of the pool and the blocks that wait in <tmp>, whatever the   *)
(* programs and the schedule.                                              *)
(***************************************************************************)
EXTENDS Exploration_proofs, SequenceTheorems, WellFoundedInduction

\* A statement of the language whose blocks are in Blocks.
IsStatement(s, Blocks) ==
  \/ s.op \in {"use", "move", "init"} /\ s.var \in Vars
  \/ s.op = "return"
  \/ s.op = "branch" /\ s.blocks \in Seq(Blocks) /\ s.blocks # << >>
  \/ s.op = "loop" /\ s.body \in Blocks

\* The programs are made of these statements and blocks.
Language(Statements, Blocks) ==
  /\ Blocks \subseteq Seq(Statements)
  /\ \A s \in Statements : IsStatement(s, Blocks)
  /\ Programs \subseteq Blocks

Marker(Blocks) ==
  {value, returnType}
    \cup [op : {"second"}, blocks : Seq(Blocks), first : Blocks]
    \cup [op : {"loopSep", "loopEnd"}, tag : Nat, run : Nat]

Items(Statements, Blocks) == Statements \cup Marker(Blocks)

Stops == {"loopEnd", "returnType"}

(***************************************************************************)
(* A <k> cell: a branch is pending at its head only, and it ends with a    *)
(* marker, where a return stops.                                           *)
(***************************************************************************)
IsK(k, S) ==
  /\ k \in Seq(S)
  /\ \A n \in DOMAIN k : k[n].op = "second" => n = 1
  /\ k # << >> => k[Len(k)].op \in Stops

\* A <k> cell without a pending branch.
IsQuiet(k, S) == IsK(k, S) /\ \A n \in DOMAIN k : k[n].op # "second"

IsPoolState(s, S) == DOMAIN s = {"k", "own"} /\ s.own \subseteq Vars /\ IsK(s.k, S)

PoolInv(Statements, Blocks) ==
  /\ Counted
  /\ \A i \in DOMAIN states : IsPoolState(states[i], Items(Statements, Blocks))
  /\ tmp \in Seq(Blocks)
  /\ program \in Programs /\ loops \in Nat
  /\ TmpMatches

(***************************************************************************)
(* In the order of the committed build one branch is pending at a time,    *)
(* and what waits in <tmp> is its own block.                               *)
(***************************************************************************)
Alone ==
  Compiled /\ ~crashed =>
    \A i \in Pending : Pending = {i} /\ tmp = <<Top(i).first>>

\* A step that leaves the pending branches as they are.
Undisturbed ==
  /\ Pending' = Pending /\ tmp' = tmp
  /\ \A i \in Pending : (Top(i).first)' = Top(i).first

-----------------------------------------------------------------------------
(* Sequences.                                                              *)

LEMMA HeadOfK ==
  ASSUME NEW S, NEW k, IsK(k, S), k # << >>
  PROVE  /\ Head(k) \in S /\ Head(k) = k[1] /\ Tail(k) \in Seq(S)
         /\ IsQuiet(Tail(k), S)
<1>1. /\ k \in Seq(S) /\ Head(k) = k[1] /\ Head(k) \in S /\ Tail(k) \in Seq(S)
      /\ Len(k) \in Nat /\ Len(k) > 0 /\ Len(Tail(k)) = Len(k) - 1
      /\ \A n \in 1 .. Len(Tail(k)) : Tail(k)[n] = k[n + 1]
  BY HeadTailProperties, EmptySeq DEF IsK
<1>2. \A n \in DOMAIN Tail(k) : n + 1 \in DOMAIN k /\ Tail(k)[n] = k[n + 1] /\ n + 1 # 1
  BY <1>1
<1>3. \A n \in DOMAIN Tail(k) : Tail(k)[n].op # "second"
  BY <1>2 DEF IsK
<1>4. Tail(k) # << >> => Tail(k)[Len(Tail(k))].op \in Stops
  <2> SUFFICES ASSUME Tail(k) # << >> PROVE Tail(k)[Len(Tail(k))].op \in Stops
    OBVIOUS
  <2>1. Len(Tail(k)) \in 1 .. Len(Tail(k))
    BY <1>1
  <2> QED
    BY <1>1, <2>1 DEF IsK
<1> QED
  BY <1>1, <1>3, <1>4 DEF IsQuiet, IsK

\* Quiet items in front of a quiet <k> cell that is not empty.
LEMMA QuietConcat ==
  ASSUME NEW S, NEW b \in Seq(S), NEW t, IsQuiet(t, S), t # << >>,
         \A n \in DOMAIN b : b[n].op # "second"
  PROVE  IsQuiet(b \o t, S) /\ b \o t # << >>
<1>1. t \in Seq(S) /\ Len(t) \in Nat /\ Len(t) > 0 /\ Len(b) \in Nat
  BY DEF IsQuiet, IsK
<1>2. /\ b \o t \in Seq(S) /\ Len(b \o t) = Len(b) + Len(t)
      /\ \A n \in 1 .. Len(b) + Len(t) :
           (b \o t)[n] = IF n <= Len(b) THEN b[n] ELSE t[n - Len(b)]
  BY <1>1, ConcatProperties
<1>3. \A n \in DOMAIN (b \o t) : (b \o t)[n].op # "second"
  <2> TAKE n \in DOMAIN (b \o t)
  <2>1. n \in 1 .. Len(b) + Len(t)
    BY <1>2
  <2>2. CASE n <= Len(b)
    BY <1>2, <2>1, <2>2
  <2>3. CASE ~(n <= Len(b))
    <3>1. n - Len(b) \in DOMAIN t
      BY <1>1, <2>1, <2>3
    <3> QED
      BY <1>2, <2>1, <2>3, <3>1 DEF IsQuiet
  <2> QED
    BY <2>2, <2>3
<1>4. (b \o t)[Len(b \o t)] = t[Len(t)]
  BY <1>1, <1>2
<1> QED
  BY <1>1, <1>2, <1>3, <1>4 DEF IsQuiet, IsK

\* One item, pending branch or not, in front of a quiet <k> cell.
LEMMA ConsK ==
  ASSUME NEW S, NEW e \in S, NEW t, IsQuiet(t, S), t # << >>
  PROVE  /\ IsK(<<e>> \o t, S) /\ <<e>> \o t # << >>
         /\ Head(<<e>> \o t) = e
         /\ e.op # "second" => IsQuiet(<<e>> \o t, S)
<1>1. t \in Seq(S) /\ Len(t) \in Nat /\ Len(t) > 0
  BY DEF IsQuiet, IsK
<1>2. /\ <<e>> \o t \in Seq(S) /\ Len(<<e>> \o t) = 1 + Len(t)
      /\ (<<e>> \o t)[1] = e
      /\ \A n \in 1 .. Len(t) : (<<e>> \o t)[n + 1] = t[n]
  BY <1>1, ConcatProperties
<1>3. \A n \in DOMAIN (<<e>> \o t) : n # 1 => (<<e>> \o t)[n].op # "second"
  <2> TAKE n \in DOMAIN (<<e>> \o t)
  <2> HAVE n # 1
  <2>1. n - 1 \in 1 .. Len(t) /\ n = (n - 1) + 1
    BY <1>1, <1>2
  <2>2. (<<e>> \o t)[n] = t[n - 1]
    BY <1>2, <2>1
  <2> QED
    BY <1>1, <2>1, <2>2 DEF IsQuiet
<1>4. (<<e>> \o t)[Len(<<e>> \o t)] = t[Len(t)]
  BY <1>1, <1>2
<1>5. Head(<<e>> \o t) = e /\ <<e>> \o t # << >>
  BY <1>1, <1>2, HeadTailProperties
<1> QED
  BY <1>1, <1>2, <1>3, <1>4, <1>5 DEF IsQuiet, IsK

LEMMA TailOfK ==
  ASSUME NEW S, NEW k, IsK(k, S), k # << >>, Head(k).op \notin Stops
  PROVE  Tail(k) # << >>
<1>1. k \in Seq(S) /\ Head(k) = k[1] /\ k[Len(k)].op \in Stops
  BY HeadOfK DEF IsK
<1>2. Len(k) # 1
  BY <1>1
<1>3. Len(k) \in Nat /\ Len(k) > 0 /\ Len(Tail(k)) = Len(k) - 1
  BY <1>1, HeadTailProperties, EmptySeq
<1> QED
  BY <1>2, <1>3

LEMMA QuietHead ==
  ASSUME NEW S, NEW k, IsQuiet(k, S), k # << >>
  PROVE  Head(k).op # "second"
<1>1. IsK(k, S) /\ k \in Seq(S)
  BY DEF IsQuiet, IsK
<1>2. Head(k) = k[1] /\ 1 \in DOMAIN k
  BY <1>1
<1> QED
  BY <1>2 DEF IsQuiet

LEMMA FirstOfNaturals ==
  ASSUME NEW N, N \subseteq Nat, N # {}
  PROVE  \E n \in N : \A m \in N : n <= m
<1> DEFINE R == OpToRel(<, Nat)
<1>1. IsWellFoundedOn(R, Nat)
  BY NatLessThanWellFounded
<1>2. PICK n \in N : \A m \in N : ~ (<<m, n>> \in R)
  <2> HIDE DEF R
  <2> QED
    BY <1>1, WFMin
<1>3. \A m \in N : ~ (m < n)
  BY <1>2 DEF OpToRel
<1> QED
  BY <1>3

\* A return drops what stands before the first marker it stops at.
LEMMA ReturnedQuiet ==
  ASSUME NEW S, NEW k, IsQuiet(k, S), k # << >>
  PROVE  IsQuiet(Returned(k), S)
<1> DEFINE stops == {n \in DOMAIN k : k[n].op \in {"loopEnd", "returnType"}}
           first == CHOOSE n \in stops : \A m \in stops : n <= m
<1>1. k \in Seq(S) /\ Len(k) \in Nat /\ Len(k) > 0 /\ DOMAIN k = 1 .. Len(k)
      /\ k[Len(k)].op \in Stops
  BY DEF IsQuiet, IsK
<1>2. stops \subseteq Nat /\ stops # {} /\ stops \subseteq 1 .. Len(k)
  BY <1>1 DEF Stops
<1>3. first \in 1 .. Len(k)
  <2>1. \E n \in stops : \A m \in stops : n <= m
    <3> HIDE DEF stops
    <3> QED
      BY <1>2, FirstOfNaturals
  <2>2. first \in stops
    <3> HIDE DEF stops
    <3> QED
      BY <2>1
  <2> QED
    BY <1>2, <2>2
<1> HIDE DEF stops
<1> DEFINE r == SubSeq(k, first, Len(k))
<1>4. Returned(k) = r
  BY DEF Returned, stops
<1> HIDE DEF first
<1>5. /\ r \in Seq(S) /\ Len(r) = Len(k) - first + 1
      /\ \A i \in 1 .. Len(k) - first + 1 : r[i] = k[first + i - 1]
  <2>1. \A i \in first .. Len(k) : k[i] \in S
    BY <1>1, <1>3
  <2>2. first \in Int /\ Len(k) \in Int
    BY <1>1, <1>3
  <2> QED
    BY <1>3, <2>1, <2>2, SubSeqProperties
<1> HIDE DEF r
<1>6. \A i \in DOMAIN r : first + i - 1 \in DOMAIN k /\ r[i] = k[first + i - 1]
  <2>1. DOMAIN r = 1 .. Len(k) - first + 1
    BY <1>5
  <2>2. \A i \in 1 .. Len(k) - first + 1 : first + i - 1 \in 1 .. Len(k)
    BY <1>1, <1>3
  <2> QED
    BY <1>1, <1>5, <2>1, <2>2
<1>7. r[Len(r)] = k[Len(k)]
  BY <1>1, <1>3, <1>5
<1>8. \A i \in DOMAIN r : r[i].op # "second"
  BY <1>6 DEF IsQuiet
<1> QED
  BY <1>1, <1>4, <1>5, <1>7, <1>8 DEF IsQuiet, IsK

-----------------------------------------------------------------------------
(* Statements and states.                                                  *)

\* What an item with one of these ops must be.
LEMMA ItemFields ==
  ASSUME NEW Statements, NEW Blocks, Language(Statements, Blocks),
         NEW e \in Items(Statements, Blocks)
  PROVE  /\ e.op \in {"use", "move", "init"} => e.var \in Vars
         /\ e.op = "branch" => e.blocks \in Seq(Blocks) /\ e.blocks # << >>
         /\ e.op = "loop" => e.body \in Blocks
         /\ e.op = "second" => e.blocks \in Seq(Blocks) /\ e.first \in Blocks
         /\ e \in Statements => e.op \notin {"second", "loopEnd", "returnType"}
<1>1. CASE e \in Statements
  BY <1>1 DEF Language, IsStatement
<1>2. CASE e \in Marker(Blocks)
  <2>1. CASE e \in {value, returnType}
    BY <2>1, <1>1 DEF value, returnType
  <2>2. CASE e \in [op : {"second"}, blocks : Seq(Blocks), first : Blocks]
    BY <2>2, <1>1
  <2>3. CASE e \in [op : {"loopSep", "loopEnd"}, tag : Nat, run : Nat]
    BY <2>3, <1>1
  <2> QED
    BY <1>2, <2>1, <2>2, <2>3 DEF Marker
<1> QED
  BY <1>1, <1>2 DEF Items

\* The blocks of a program have no markers.
LEMMA BlockItems ==
  ASSUME NEW Statements, NEW Blocks, Language(Statements, Blocks), NEW b \in Blocks
  PROVE  /\ b \in Seq(Items(Statements, Blocks))
         /\ \A n \in DOMAIN b : b[n].op # "second"
<1>1. b \in Seq(Statements) /\ Statements \subseteq Items(Statements, Blocks)
  BY DEF Language, Items
<1>2. b \in Seq(Items(Statements, Blocks))
  BY <1>1
<1>3. \A n \in DOMAIN b : b[n] \in Statements
  BY <1>1
<1> QED
  BY <1>1, <1>2, <1>3, ItemFields

LEMMA Markers ==
  ASSUME NEW Statements, NEW Blocks, NEW t \in Nat, NEW r \in Nat,
         NEW bs \in Seq(Blocks), NEW b \in Blocks
  PROVE  {value, returnType, loopSep(t, r), loopEnd(t, r), secondBranch(bs, b)}
           \subseteq Items(Statements, Blocks)
BY DEF Items, Marker, loopSep, loopEnd, secondBranch

\* A marker that ends a <k> cell.
LEMMA StopIsQuiet ==
  ASSUME NEW S, NEW e \in S, e.op \in Stops
  PROVE  IsQuiet(<<e>>, S) /\ <<e>> # << >>
<1>1. <<e>> \in Seq(S) /\ Len(<<e>>) = 1 /\ <<e>>[1] = e
  OBVIOUS
<1> QED
  BY <1>1 DEF IsQuiet, IsK, Stops

LEMMA StepKeeps ==
  ASSUME NEW Statements, NEW Blocks, Language(Statements, Blocks),
         NEW s, IsPoolState(s, Items(Statements, Blocks)), s.k # << >>,
         Head(s.k).op \in {"use", "move", "init", "return", "returnType"}
  PROVE  IsPoolState(Step(s), Items(Statements, Blocks))
         /\ IsQuiet(Step(s).k, Items(Statements, Blocks))
<1> DEFINE S == Items(Statements, Blocks)
           h == Head(s.k)
<1>1. IsK(s.k, S) /\ s.own \subseteq Vars
  BY DEF IsPoolState
<1>2. h \in S /\ h = s.k[1] /\ IsQuiet(Tail(s.k), S)
  BY <1>1, HeadOfK
<1>3. h.op = "init" => h.var \in Vars
  BY <1>2, ItemFields
<1>4. h.op = "return" => IsQuiet(Returned(s.k), S)
  <2> SUFFICES ASSUME h.op = "return" PROVE IsQuiet(Returned(s.k), S)
    OBVIOUS
  <2>1. s.k \in Seq(S) /\ \A n \in DOMAIN s.k : s.k[n].op # "second"
    BY <1>1, <1>2 DEF IsK
  <2> QED
    BY <1>1, <2>1, ReturnedQuiet DEF IsQuiet
<1> HIDE DEF S, h
<1>5. Step(s) = State(IF h.op = "return" THEN Returned(s.k) ELSE Tail(s.k),
                      IF h.op = "move" THEN s.own \ {h.var}
                      ELSE IF h.op = "init" THEN s.own \cup {h.var} ELSE s.own)
  BY DEF Step, h
<1>6. /\ DOMAIN Step(s) = {"k", "own"}
      /\ Step(s).k = IF h.op = "return" THEN Returned(s.k) ELSE Tail(s.k)
      /\ Step(s).own \subseteq Vars
  BY <1>1, <1>3, <1>5 DEF State
<1>7. IsQuiet(Step(s).k, S)
  BY <1>2, <1>4, <1>6
<1> QED
  BY <1>6, <1>7 DEF IsPoolState, IsQuiet, S

-----------------------------------------------------------------------------
(* The pool.                                                               *)

\* The states that have a branch pending.
Waits(s) == s.k # << >> /\ Head(s.k).op = "second"

LEMMA QuietStates ==
  ASSUME NEW S, NEW s, IsQuiet(s.k, S)
  PROVE  ~ Waits(s)
BY QuietHead DEF Waits

LEMMA PendingIs == Pending = {i \in DOMAIN states : Waits(states[i])}
BY DEF Pending, At, Waits

LEMMA PendingCounts ==
  ASSUME Counted
  PROVE  /\ IsFiniteSet(Pending) /\ Cardinality(Pending) \in Nat
         /\ \A i : i \notin Pending => Cardinality(Pending \cup {i}) = Cardinality(Pending) + 1
         /\ \A i \in Pending : Cardinality(Pending \ {i}) = Cardinality(Pending) - 1
<1>1. Pending \subseteq DOMAIN states
  BY DEF Pending
<1>2. IsFiniteSet(Pending)
  BY <1>1, FS_Subset DEF Counted
<1> QED
  BY <1>2, FS_CardinalityType, FS_AddElement, FS_RemoveElement

\* One state rewritten.
LEMMA Rewritten ==
  ASSUME NEW S, \A j \in DOMAIN states : IsPoolState(states[j], S),
         NEW i \in DOMAIN states, NEW s, IsPoolState(s, S), states' = With(i, s)
  PROVE  /\ \A j \in DOMAIN states' : IsPoolState(states'[j], S)
         /\ Pending' = IF Waits(s) THEN Pending \cup {i} ELSE Pending \ {i}
         /\ \A j \in Pending : j # i => (Top(j).first)' = Top(j).first
<1>1. /\ DOMAIN states' = DOMAIN states
      /\ \A j \in DOMAIN states : states'[j] = IF j = i THEN s ELSE states[j]
  BY DEF With
<1>2. Pending' = {j \in DOMAIN states' : Waits(states'[j])}
  BY DEF Pending, At, Waits
<1>3. \A j \in Pending : j # i => (Top(j).first)' = Top(j).first
  BY <1>1, PendingIs DEF Top
<1> QED
  BY <1>1, <1>2, <1>3, PendingIs

\* One state goes; another may be rewritten.
LEMMA Gone ==
  ASSUME NEW S, \A j \in DOMAIN states : IsPoolState(states[j], S),
         NEW j \in DOMAIN states, ~ Waits(states[j]),
         DOMAIN states' = DOMAIN states \ {j},
         \A h \in DOMAIN states' :
           \/ states'[h] = states[h]
           \/ ~ Waits(states[h]) /\ ~ Waits(states'[h]) /\ IsPoolState(states'[h], S)
  PROVE  /\ \A h \in DOMAIN states' : IsPoolState(states'[h], S)
         /\ Pending' = Pending
         /\ \A h \in Pending : (Top(h).first)' = Top(h).first
<1>1. Pending' = {h \in DOMAIN states' : Waits(states'[h])}
  BY DEF Pending, At, Waits
<1>2. \A h \in Pending : h \in DOMAIN states' /\ states'[h] = states[h]
  BY PendingIs
<1>3. \A h \in Pending : (Top(h).first)' = Top(h).first
  BY <1>2 DEF Top
<1> QED
  BY <1>1, <1>3, PendingIs

\* A fork: a state is rewritten and one is added that has nothing pending.
LEMMA Forked ==
  ASSUME NEW S, Counted, ~crashed, \A j \in DOMAIN states : IsPoolState(states[j], S),
         NEW i \in DOMAIN states, NEW r, IsPoolState(r, S), Waits(r) = Waits(states[i]),
         Waits(r) => Head(r.k).first = Top(i).first,
         NEW s, IsPoolState(s, S), ~ Waits(s),
         Fork(With(i, r), s)
  PROVE  /\ \A j \in DOMAIN states' : IsPoolState(states'[j], S)
         /\ Pending' = Pending
         /\ \A j \in Pending : (Top(j).first)' = Top(j).first
<1>1. CASE nstate \in DOMAIN With(i, r)
  BY <1>1 DEF Fork, Pending, At, Top
<1>2. CASE nstate \notin DOMAIN With(i, r)
  <2>1. /\ DOMAIN With(i, r) = DOMAIN states
        /\ \A j \in DOMAIN states : With(i, r)[j] = IF j = i THEN r ELSE states[j]
    BY DEF With
  <2>2. states' = [j \in DOMAIN With(i, r) \cup {nstate} |->
                     IF j = nstate THEN s ELSE With(i, r)[j]]
    BY <1>2 DEF Fork
  <2>3. /\ DOMAIN states' = DOMAIN states \cup {nstate} /\ nstate \notin DOMAIN states
        /\ states'[nstate] = s
        /\ \A j \in DOMAIN states : states'[j] = IF j = i THEN r ELSE states[j]
    BY <1>2, <2>1, <2>2
  <2>4. Pending' = {j \in DOMAIN states' : Waits(states'[j])}
    BY DEF Pending, At, Waits
  <2>5. \A j \in Pending : (Top(j).first)' = Top(j).first
    BY <2>3, PendingIs DEF Top
  <2> QED
    BY <2>3, <2>4, <2>5, PendingIs
<1> QED
  BY <1>1, <1>2

\* Types and counts from what a step does to the pending branches.
LEMMA Matched ==
  ASSUME NEW Statements, NEW Blocks, PoolInv(Statements, Blocks), ~ crashed, Counted',
         \A i \in DOMAIN states' : IsPoolState(states'[i], Items(Statements, Blocks)),
         tmp' \in Seq(Blocks), program' = program, loops' \in Nat,
         \/ Pending' = Pending /\ tmp' = tmp
         \/ /\ Len(tmp') = Len(tmp) + 1
            /\ \E i : i \notin Pending /\ Pending' = Pending \cup {i}
         \/ /\ Len(tmp') = Len(tmp) - 1
            /\ \E i \in Pending : Pending' = Pending \ {i}
  PROVE  PoolInv(Statements, Blocks)'
<1>1. Len(tmp) = Cardinality(Pending) /\ Counted /\ program \in Programs
  BY DEF PoolInv, TmpMatches
<1>2. Len(tmp') = Cardinality(Pending')
  BY <1>1, PendingCounts
<1> QED
  BY <1>1, <1>2 DEF PoolInv, TmpMatches

-----------------------------------------------------------------------------
(* The actions.                                                            *)

\* Where a state stands that is in front of an item.
LEMMA Standing ==
  ASSUME NEW Statements, NEW Blocks, PoolInv(Statements, Blocks),
         NEW i \in DOMAIN states, NEW kinds, At(i, kinds)
  PROVE  /\ IsK(states[i].k, Items(Statements, Blocks))
         /\ states[i].k # << >> /\ Head(states[i].k) = Top(i) /\ Top(i).op \in kinds
         /\ Top(i) \in Items(Statements, Blocks)
         /\ IsQuiet(Rest(i), Items(Statements, Blocks))
         /\ kinds \cap Stops = {} => Rest(i) # << >>
         /\ states[i].own \subseteq Vars
         /\ Waits(states[i]) <=> Top(i).op = "second"
<1>1. IsK(states[i].k, Items(Statements, Blocks)) /\ states[i].own \subseteq Vars
  BY DEF PoolInv, IsPoolState
<1>2. states[i].k # << >> /\ Head(states[i].k).op \in kinds
  BY DEF At
<1> QED
  BY <1>1, <1>2, HeadOfK, TailOfK DEF Top, Rest, Waits

LEMMA LocalKeeps ==
  ASSUME NEW Statements, NEW Blocks, Language(Statements, Blocks),
         PoolInv(Statements, Blocks), Counted', NEW i \in DOMAIN states, Local(i)
  PROVE  PoolInv(Statements, Blocks)' /\ Undisturbed
<1> DEFINE S == Items(Statements, Blocks)
<1>1. At(i, {"use", "move", "init", "return", "returnType"})
  BY DEF Local, CanLocal, At
<1>2. /\ states[i].k # << >> /\ ~ Waits(states[i])
      /\ Head(states[i].k).op \in {"use", "move", "init", "return", "returnType"}
  BY <1>1, Standing
<1>3. IsPoolState(states[i], S) /\ \A j \in DOMAIN states : IsPoolState(states[j], S)
  BY DEF PoolInv
<1>4. IsPoolState(Step(states[i]), S) /\ IsQuiet(Step(states[i]).k, S)
  BY <1>2, <1>3, StepKeeps
<1>5. states' = With(i, Step(states[i])) /\ ~crashed /\ UNCHANGED <<program, tmp, loops>>
  BY DEF Local, Turn
<1>6. /\ \A j \in DOMAIN states' : IsPoolState(states'[j], S)
      /\ Pending' = Pending \ {i}
      /\ \A j \in Pending : j # i => (Top(j).first)' = Top(j).first
  BY <1>3, <1>4, <1>5, Rewritten, QuietStates
<1>7. i \notin Pending
  BY <1>2, PendingIs
<1> QED
  BY <1>5, <1>6, <1>7, Matched DEF PoolInv, Undisturbed

LEMMA BareReturnKeeps ==
  ASSUME NEW Statements, NEW Blocks, Language(Statements, Blocks),
         PoolInv(Statements, Blocks), Counted', NEW i \in DOMAIN states, BareReturn(i)
  PROVE  PoolInv(Statements, Blocks)' /\ Undisturbed
<1> DEFINE S == Items(Statements, Blocks)
           s == State(<<value>> \o Rest(i), states[i].own)
<1>1. At(i, {"return"}) /\ ~crashed /\ states' = With(i, s)
      /\ UNCHANGED <<program, tmp, loops>>
  BY DEF BareReturn, Turn, WithK
<1>2. /\ IsQuiet(Rest(i), S) /\ Rest(i) # << >> /\ states[i].own \subseteq Vars
      /\ ~ Waits(states[i])
  BY <1>1, Standing DEF Stops
<1>3. value \in S /\ value.op # "second"
  BY DEF Items, Marker, value
<1>4. IsQuiet(s.k, S) /\ s.own = states[i].own /\ DOMAIN s = {"k", "own"}
  BY <1>2, <1>3, ConsK DEF State
<1> HIDE DEF s
<1>5. IsPoolState(s, S)
  BY <1>2, <1>4 DEF IsPoolState, IsQuiet
<1>6. \A j \in DOMAIN states : IsPoolState(states[j], S)
  BY DEF PoolInv
<1>7. /\ \A j \in DOMAIN states' : IsPoolState(states'[j], S)
      /\ Pending' = Pending \ {i}
      /\ \A j \in Pending : j # i => (Top(j).first)' = Top(j).first
  BY <1>1, <1>4, <1>5, <1>6, Rewritten, QuietStates
<1>8. i \notin Pending
  BY <1>2, PendingIs
<1> QED
  BY <1>1, <1>7, <1>8, Matched DEF PoolInv, Undisturbed

LEMMA PushKeeps ==
  ASSUME NEW Statements, NEW Blocks, Language(Statements, Blocks),
         PoolInv(Statements, Blocks), Counted', NEW i \in DOMAIN states, Push(i)
  PROVE  PoolInv(Statements, Blocks)'
<1> DEFINE S == Items(Statements, Blocks)
           bs == Top(i).blocks
           e == secondBranch(Tail(bs), Head(bs))
           s == State(<<e>> \o Rest(i), states[i].own)
<1>1. At(i, {"branch"}) /\ ~crashed /\ states' = With(i, s)
      /\ tmp' = <<Head(bs)>> \o tmp /\ UNCHANGED <<program, loops>>
  BY DEF Push, Turn, WithK
<1>2. /\ IsQuiet(Rest(i), S) /\ Rest(i) # << >> /\ states[i].own \subseteq Vars
      /\ ~ Waits(states[i]) /\ Top(i) \in S /\ Top(i).op = "branch"
  BY <1>1, Standing DEF Stops
<1>3. bs \in Seq(Blocks) /\ bs # << >>
  BY <1>2, ItemFields
<1>4. Head(bs) \in Blocks /\ Tail(bs) \in Seq(Blocks)
  BY <1>3, HeadTailProperties
<1> HIDE DEF bs
<1>5. e \in S /\ e.op = "second"
  BY <1>4 DEF Items, Marker, secondBranch
<1> HIDE DEF e
<1>6. /\ IsK(<<e>> \o Rest(i), S) /\ <<e>> \o Rest(i) # << >>
      /\ Head(<<e>> \o Rest(i)) = e
  BY <1>2, <1>5, ConsK
<1>7. s.k = <<e>> \o Rest(i) /\ s.own = states[i].own /\ DOMAIN s = {"k", "own"}
  BY DEF State
<1> HIDE DEF s
<1>8. IsPoolState(s, S) /\ Waits(s)
  BY <1>2, <1>5, <1>6, <1>7 DEF IsPoolState, Waits
<1>9. \A j \in DOMAIN states : IsPoolState(states[j], S)
  BY DEF PoolInv
<1>10. /\ \A j \in DOMAIN states' : IsPoolState(states'[j], S)
       /\ Pending' = Pending \cup {i}
  BY <1>1, <1>8, <1>9, Rewritten
<1>11. i \notin Pending
  BY <1>2, PendingIs
<1>12. tmp' \in Seq(Blocks) /\ Len(tmp') = Len(tmp) + 1
  BY <1>1, <1>4 DEF PoolInv
<1> QED
  BY <1>1, <1>10, <1>11, <1>12, Matched DEF PoolInv

LEMMA PopKeeps ==
  ASSUME NEW Statements, NEW Blocks, Language(Statements, Blocks),
         PoolInv(Statements, Blocks), Counted', NEW i \in DOMAIN states, Pop(i)
  PROVE  PoolInv(Statements, Blocks)'
<1> DEFINE S == Items(Statements, Blocks)
           s == State(Head(tmp) \o Rest(i), states[i].own)
<1>1. /\ At(i, {"second"}) /\ tmp # << >> /\ ~crashed /\ states' = With(i, s)
      /\ tmp' = Tail(tmp) /\ UNCHANGED <<program, loops>>
  BY DEF Pop, CanPop, Turn, WithK
<1>2. /\ IsQuiet(Rest(i), S) /\ Rest(i) # << >> /\ states[i].own \subseteq Vars
      /\ Waits(states[i])
  BY <1>1, Standing DEF Stops
<1>3. /\ Head(tmp) \in Blocks /\ tmp' \in Seq(Blocks) /\ Len(tmp') = Len(tmp) - 1
  BY <1>1, HeadTailProperties DEF PoolInv
<1>4. IsQuiet(Head(tmp) \o Rest(i), S)
  BY <1>2, <1>3, BlockItems, QuietConcat
<1>5. s.k = Head(tmp) \o Rest(i) /\ s.own = states[i].own /\ DOMAIN s = {"k", "own"}
  BY DEF State
<1> HIDE DEF s
<1>6. IsPoolState(s, S) /\ ~ Waits(s)
  BY <1>2, <1>4, <1>5, QuietStates DEF IsPoolState, IsQuiet
<1>7. \A j \in DOMAIN states : IsPoolState(states[j], S)
  BY DEF PoolInv
<1>8. /\ \A j \in DOMAIN states' : IsPoolState(states'[j], S)
      /\ Pending' = Pending \ {i}
  BY <1>1, <1>6, <1>7, Rewritten
<1>9. i \in Pending
  BY <1>2, PendingIs
<1> QED
  BY <1>1, <1>3, <1>8, <1>9, Matched DEF PoolInv

LEMMA SpawnKeeps ==
  ASSUME NEW Statements, NEW Blocks, Language(Statements, Blocks),
         PoolInv(Statements, Blocks), Counted', NEW i \in DOMAIN states, Spawn(i)
  PROVE  PoolInv(Statements, Blocks)' /\ Undisturbed
<1> DEFINE S == Items(Statements, Blocks)
           bs == Top(i).blocks
           e == secondBranch(Tail(bs), Top(i).first)
           r == State(<<e>> \o Rest(i), states[i].own)
           s == State(Head(bs) \o Rest(i), states[i].own)
<1>1. /\ At(i, {"second"}) /\ bs # << >> /\ ~crashed /\ Fork(With(i, r), s)
      /\ UNCHANGED <<program, tmp, loops>>
  BY DEF Spawn, CanSpawn, Turn, WithK
<1>2. /\ IsQuiet(Rest(i), S) /\ Rest(i) # << >> /\ states[i].own \subseteq Vars
      /\ Waits(states[i]) /\ Top(i) \in S /\ Top(i).op = "second"
  BY <1>1, Standing DEF Stops
<1>3. bs \in Seq(Blocks) /\ Top(i).first \in Blocks
  BY <1>2, ItemFields
<1>4. Head(bs) \in Blocks /\ Tail(bs) \in Seq(Blocks)
  BY <1>1, <1>3, HeadTailProperties
<1>5. IsQuiet(Head(bs) \o Rest(i), S)
  BY <1>2, <1>4, BlockItems, QuietConcat
<1> HIDE DEF bs
<1>6. e \in S /\ e.op = "second"
  BY <1>3, <1>4 DEF Items, Marker, secondBranch
<1> HIDE DEF e
<1>7. /\ IsK(<<e>> \o Rest(i), S) /\ <<e>> \o Rest(i) # << >>
      /\ Head(<<e>> \o Rest(i)) = e
  BY <1>2, <1>6, ConsK
<1>8. /\ r.k = <<e>> \o Rest(i) /\ r.own = states[i].own /\ DOMAIN r = {"k", "own"}
      /\ s.k = Head(bs) \o Rest(i) /\ s.own = states[i].own /\ DOMAIN s = {"k", "own"}
  BY DEF State
<1> HIDE DEF r, s
<1>9. IsPoolState(r, S) /\ Waits(r)
  BY <1>2, <1>6, <1>7, <1>8 DEF IsPoolState, Waits
<1>10. IsPoolState(s, S) /\ ~ Waits(s)
  BY <1>2, <1>5, <1>8, QuietStates DEF IsPoolState, IsQuiet
<1>11. Counted /\ \A j \in DOMAIN states : IsPoolState(states[j], S)
  BY DEF PoolInv
<1>12. /\ \A j \in DOMAIN states' : IsPoolState(states'[j], S)
       /\ Pending' = Pending
       /\ \A j \in Pending : (Top(j).first)' = Top(j).first
  <2>1. Waits(r) = Waits(states[i])
    BY <1>2, <1>9 DEF Waits
  <2>2. Head(r.k).first = Top(i).first
    BY <1>7, <1>8 DEF e, secondBranch
  <2> QED
    BY <1>1, <1>9, <1>10, <1>11, <2>1, <2>2, Forked
<1> QED
  BY <1>1, <1>12, Matched DEF PoolInv, Undisturbed

LEMMA LoopSpawnKeeps ==
  ASSUME NEW Statements, NEW Blocks, Language(Statements, Blocks),
         PoolInv(Statements, Blocks), Counted', NEW i \in DOMAIN states, LoopSpawn(i)
  PROVE  PoolInv(Statements, Blocks)' /\ Undisturbed
<1> DEFINE S == Items(Statements, Blocks)
           b == Top(i).body
           sep == loopSep(nstate, loops)
           end == loopEnd(nstate, loops)
           r == State((<<sep>> \o b) \o Rest(i), states[i].own)
           s == State(b \o <<end>>, states[i].own)
<1>1. /\ At(i, {"loop"}) /\ ~crashed /\ Fork(With(i, r), s)
      /\ loops' = loops + 1 /\ UNCHANGED <<program, tmp>>
  BY DEF LoopSpawn, Turn, WithK
<1>2. /\ IsQuiet(Rest(i), S) /\ Rest(i) # << >> /\ states[i].own \subseteq Vars
      /\ ~ Waits(states[i]) /\ Top(i) \in S /\ Top(i).op = "loop"
  BY <1>1, Standing DEF Stops
<1>3. b \in Blocks
  BY <1>2, ItemFields
<1>4. b \in Seq(S) /\ \A n \in DOMAIN b : b[n].op # "second"
  BY <1>3, BlockItems
<1> HIDE DEF b
<1>5. nstate \in Nat /\ loops \in Nat
  BY DEF PoolInv, Counted
<1>6. sep \in S /\ end \in S /\ sep.op = "loopSep" /\ end.op = "loopEnd"
  BY <1>5 DEF Items, Marker, loopSep, loopEnd
<1> HIDE DEF sep, end
<1>7. IsQuiet(b \o <<end>>, S)
  <2>1. IsQuiet(<<end>>, S) /\ <<end>> # << >>
    BY <1>6, StopIsQuiet DEF Stops
  <2> QED
    BY <1>4, <2>1, QuietConcat
<1>8. IsQuiet((<<sep>> \o b) \o Rest(i), S)
  <2>1. /\ <<sep>> \o b \in Seq(S) /\ Len(<<sep>> \o b) = 1 + Len(b)
        /\ (<<sep>> \o b)[1] = sep
        /\ \A n \in 1 .. Len(b) : (<<sep>> \o b)[n + 1] = b[n]
    BY <1>4, <1>6, ConcatProperties
  <2>2. \A n \in DOMAIN (<<sep>> \o b) : (<<sep>> \o b)[n].op # "second"
    <3> TAKE n \in DOMAIN (<<sep>> \o b)
    <3>1. CASE n = 1
      BY <1>6, <2>1, <3>1
    <3>2. CASE n # 1
      <4>1. n - 1 \in 1 .. Len(b) /\ n = (n - 1) + 1
        BY <1>4, <2>1, <3>2
      <4>2. (<<sep>> \o b)[n] = b[n - 1]
        BY <2>1, <4>1
      <4> QED
        BY <1>4, <4>1, <4>2
    <3> QED
      BY <3>1, <3>2
  <2> QED
    BY <1>2, <2>1, <2>2, QuietConcat
<1>9. /\ r.k = (<<sep>> \o b) \o Rest(i) /\ r.own = states[i].own
      /\ DOMAIN r = {"k", "own"}
      /\ s.k = b \o <<end>> /\ s.own = states[i].own /\ DOMAIN s = {"k", "own"}
  BY DEF State
<1> HIDE DEF r, s
<1>10. /\ IsPoolState(r, S) /\ ~ Waits(r)
       /\ IsPoolState(s, S) /\ ~ Waits(s)
  BY <1>2, <1>7, <1>8, <1>9, QuietStates DEF IsPoolState, IsQuiet
<1>11. Counted /\ \A j \in DOMAIN states : IsPoolState(states[j], S)
  BY DEF PoolInv
<1>12. /\ \A j \in DOMAIN states' : IsPoolState(states'[j], S)
       /\ Pending' = Pending
       /\ \A j \in Pending : (Top(j).first)' = Top(j).first
  <2>1. Waits(r) = Waits(states[i])
    BY <1>2, <1>10 DEF Waits
  <2> QED
    BY <1>1, <1>10, <1>11, <2>1, Forked
<1> QED
  BY <1>1, <1>5, <1>12, Matched DEF PoolInv, Undisturbed

LEMMA RemoveKeeps ==
  ASSUME NEW Statements, NEW Blocks, Language(Statements, Blocks),
         PoolInv(Statements, Blocks), Counted', NEW i \in DOMAIN states, Remove(i)
  PROVE  PoolInv(Statements, Blocks)' /\ Undisturbed
<1>1. /\ states[i].k = << >> /\ ~crashed /\ UNCHANGED <<program, tmp, loops>>
      /\ states' = [j \in DOMAIN states \ {i} |-> states[j]]
  BY DEF Remove, CanRemove, Turn
<1>2. ~ Waits(states[i])
  BY <1>1 DEF Waits
<1>3. \A j \in DOMAIN states : IsPoolState(states[j], Items(Statements, Blocks))
  BY DEF PoolInv
<1>4. /\ \A j \in DOMAIN states' : IsPoolState(states'[j], Items(Statements, Blocks))
      /\ Pending' = Pending
      /\ \A j \in Pending : (Top(j).first)' = Top(j).first
  BY <1>1, <1>2, <1>3, Gone
<1> QED
  BY <1>1, <1>4, Matched DEF PoolInv, Undisturbed

LEMMA JoinKeeps ==
  ASSUME NEW Statements, NEW Blocks, Language(Statements, Blocks),
         PoolInv(Statements, Blocks), Counted',
         NEW i \in DOMAIN states, NEW j \in DOMAIN states, Join(i, j)
  PROVE  PoolInv(Statements, Blocks)' /\ Undisturbed
<1> DEFINE S == Items(Statements, Blocks)
           s == State(Rest(i), states[i].own)
<1>1. /\ i # j /\ At(i, {"loopSep"}) /\ At(j, {"loopEnd"}) /\ ~crashed
      /\ states' = [h \in DOMAIN states \ {j} |-> IF h = i THEN s ELSE states[h]]
      /\ UNCHANGED <<program, tmp, loops>>
  BY DEF Join, Meet, Turn
<1>2. ~ Waits(states[j])
  BY <1>1, Standing
<1>3. /\ IsQuiet(Rest(i), S) /\ states[i].own \subseteq Vars /\ ~ Waits(states[i])
  BY <1>1, Standing
<1>4. s.k = Rest(i) /\ s.own = states[i].own /\ DOMAIN s = {"k", "own"}
  BY DEF State
<1> HIDE DEF s
<1>5. IsPoolState(s, S) /\ ~ Waits(s)
  BY <1>3, <1>4, QuietStates DEF IsPoolState, IsQuiet
<1>6. \A h \in DOMAIN states : IsPoolState(states[h], S)
  BY DEF PoolInv
<1>7. /\ DOMAIN states' = DOMAIN states \ {j}
      /\ \A h \in DOMAIN states' :
           \/ states'[h] = states[h]
           \/ ~ Waits(states[h]) /\ ~ Waits(states'[h]) /\ IsPoolState(states'[h], S)
  BY <1>1, <1>3, <1>5
<1>8. /\ \A h \in DOMAIN states' : IsPoolState(states'[h], S)
      /\ Pending' = Pending
      /\ \A h \in Pending : (Top(h).first)' = Top(h).first
  BY <1>2, <1>6, <1>7, Gone
<1> QED
  BY <1>1, <1>8, Matched DEF PoolInv, Undisturbed

-----------------------------------------------------------------------------
LEMMA PoolInvInit ==
  ASSUME NEW Statements, NEW Blocks, Language(Statements, Blocks), Init
  PROVE  PoolInv(Statements, Blocks) /\ Pending = {}
<1> DEFINE S == Items(Statements, Blocks)
           s == State(program \o <<returnType>>, {})
<1>1. /\ program \in Programs /\ states = [i \in {0} |-> s]
      /\ tmp = << >> /\ loops = 0 /\ Counted
  BY InitCounts DEF Init
<1>2. program \in Blocks
  BY <1>1 DEF Language
<1>3. IsQuiet(<<returnType>>, S) /\ <<returnType>> # << >>
  <2>1. returnType \in S /\ returnType.op \in Stops
    BY DEF Items, Marker, returnType, Stops
  <2> QED
    BY <2>1, StopIsQuiet
<1>4. IsQuiet(program \o <<returnType>>, S)
  BY <1>2, <1>3, BlockItems, QuietConcat
<1>5. s.k = program \o <<returnType>> /\ s.own = {} /\ DOMAIN s = {"k", "own"}
  BY DEF State
<1> HIDE DEF s
<1>6. IsPoolState(s, S) /\ ~ Waits(s)
  BY <1>4, <1>5, QuietStates DEF IsPoolState, IsQuiet
<1>7. Pending = {}
  BY <1>1, <1>6, PendingIs
<1>8. Len(tmp) = 0 /\ tmp \in Seq(Blocks) /\ Cardinality(Pending) = 0
  BY <1>1, <1>7, FS_EmptySet
<1> QED
  BY <1>1, <1>6, <1>7, <1>8 DEF PoolInv, TmpMatches

LEMMA PoolInvNext ==
  ASSUME NEW Statements, NEW Blocks, Language(Statements, Blocks),
         PoolInv(Statements, Blocks), [Next]_vars
  PROVE  PoolInv(Statements, Blocks)'
<1>1. Counted'
  BY NextCounts DEF PoolInv
<1>2. CASE UNCHANGED vars
  BY <1>1, <1>2 DEF vars, PoolInv, TmpMatches, Pending, At
<1>3. CASE Next
  <2> PICK i \in DOMAIN states :
        \/ Local(i) \/ BareReturn(i)
        \/ Push(i) \/ Spawn(i) \/ Pop(i) \/ Remove(i)
        \/ LoopSpawn(i) \/ \E j \in DOMAIN states : Join(i, j)
    BY <1>3 DEF Next
  <2> QED
    BY <1>1, LocalKeeps, BareReturnKeeps, PushKeeps, SpawnKeeps, PopKeeps, RemoveKeeps,
       LoopSpawnKeeps, JoinKeeps
<1> QED
  BY <1>2, <1>3

-----------------------------------------------------------------------------
(* One branch at a time.                                                   *)

LEMMA UndisturbedAlone ==
  ASSUME Alone, Undisturbed, ~ crashed
  PROVE  Alone'
BY DEF Alone, Undisturbed

\* When the turn is a push's, no branch is pending: a fork or a pop goes first.
LEMMA PushAlone ==
  ASSUME NEW Statements, NEW Blocks, PoolInv(Statements, Blocks),
         Compiled, NEW i \in DOMAIN states, Push(i)
  PROVE  Pending = {} /\ tmp = << >>
<1>1. At(i, {"branch"}) /\ ~crashed
      /\ \A j \in DOMAIN states : Rank(i) < Rank(j) \/ (Rank(i) = Rank(j) /\ i <= j)
  BY DEF Push, Turn
<1>2. Rank(i) = 4
  BY <1>1 DEF Rank, At, CanLocal, CanJoin, Meet, CanSpawn, CanRemove, CanPop
<1>3. /\ IsFiniteSet(Pending) /\ Len(tmp) = Cardinality(Pending) /\ tmp \in Seq(Blocks)
  BY <1>1, PendingCounts DEF PoolInv, TmpMatches
<1>4. ASSUME NEW j \in Pending PROVE FALSE
  <2>1. j \in DOMAIN states /\ At(j, {"second"})
    BY DEF Pending
  <2>2. tmp # << >>
    <3>1. Cardinality(Pending) # 0
      BY <1>3, FS_EmptySet
    <3> QED
      BY <1>3, <3>1
  <2>3. CanSpawn(j) \/ CanPop(j)
    BY <2>1, <2>2 DEF CanSpawn, CanPop
  <2>4. Rank(j) \in {2, 3}
    BY <2>1, <2>3 DEF Rank, At, CanLocal
  <2> QED
    BY <1>1, <1>2, <2>1, <2>4
<1>5. Pending = {}
  BY <1>4
<1>6. Len(tmp) = 0
  BY <1>3, <1>5, FS_EmptySet
<1> QED
  BY <1>3, <1>5, <1>6, EmptySeq

LEMMA PushKeepsAlone ==
  ASSUME NEW Statements, NEW Blocks, PoolInv(Statements, Blocks),
         NEW i \in DOMAIN states, Push(i)
  PROVE  Alone'
<1> SUFFICES ASSUME Compiled PROVE Alone'
  BY DEF Alone
<1> DEFINE e == secondBranch(Tail(Top(i).blocks), Head(Top(i).blocks))
           s == State(<<e>> \o Rest(i), states[i].own)
<1>1. Pending = {} /\ tmp' = <<e.first>> \o << >> /\ states' = With(i, s)
  BY PushAlone DEF Push, WithK, secondBranch
<1>2. /\ DOMAIN states' = DOMAIN states /\ states'[i] = s
      /\ \A j \in DOMAIN states : j # i => states'[j] = states[j]
  BY <1>1 DEF With
<1>3. Pending' \subseteq {i}
  <2>1. Pending' = {j \in DOMAIN states' : Waits(states'[j])}
    BY DEF Pending, At, Waits
  <2> QED
    BY <1>1, <1>2, <2>1, PendingIs
<1>4. (Top(i).first)' = e.first
  <2>1. s.k = <<e>> \o Rest(i) /\ Rest(i) \in Seq(Items(Statements, Blocks))
    <3>1. At(i, {"branch"})
      BY DEF Push
    <3>2. IsK(states[i].k, Items(Statements, Blocks)) /\ states[i].k # << >>
      BY <3>1 DEF PoolInv, IsPoolState, At
    <3> QED
      BY <3>2, HeadOfK DEF Rest, State
  <2> HIDE DEF e, s
  <2>2. Head(s.k) = e
    BY <2>1
  <2> QED
    BY <1>2, <2>2 DEF Top
<1>5. tmp' = <<e.first>>
  BY <1>1
<1> QED
  BY <1>3, <1>4, <1>5 DEF Alone

LEMMA PopKeepsAlone ==
  ASSUME NEW Statements, NEW Blocks, Language(Statements, Blocks),
         PoolInv(Statements, Blocks), Alone, Counted',
         NEW i \in DOMAIN states, Pop(i)
  PROVE  Alone'
<1> SUFFICES ASSUME Compiled PROVE Pending' = {}
  BY DEF Alone
<1>1. i \in Pending /\ ~crashed
  BY DEF Pop, CanPop, Pending, Turn
<1>2. Pending = {i} /\ Len(tmp') = 0
  BY <1>1 DEF Alone, Pop
<1>3. ~ crashed' /\ PoolInv(Statements, Blocks)'
  BY <1>1, PopKeeps DEF Pop
<1>4. IsFiniteSet(Pending') /\ Cardinality(Pending') = 0
  <2>1. Pending' \subseteq DOMAIN states'
    BY DEF Pending
  <2>2. IsFiniteSet(Pending')
    BY <1>3, <2>1, FS_Subset DEF PoolInv, Counted
  <2> QED
    BY <1>2, <1>3, <2>2 DEF PoolInv, TmpMatches
<1> QED
  BY <1>4, FS_EmptySet

LEMMA AloneNext ==
  ASSUME NEW Statements, NEW Blocks, Language(Statements, Blocks),
         PoolInv(Statements, Blocks), Alone, [Next]_vars
  PROVE  Alone'
<1>1. Counted'
  BY NextCounts DEF PoolInv
<1>2. CASE UNCHANGED vars
  BY <1>2 DEF vars, Alone, Pending, At, Top
<1>3. CASE Next
  <2> PICK i \in DOMAIN states :
        \/ Local(i) \/ BareReturn(i)
        \/ Push(i) \/ Spawn(i) \/ Pop(i) \/ Remove(i)
        \/ LoopSpawn(i) \/ \E j \in DOMAIN states : Join(i, j)
    BY <1>3 DEF Next
  <2>1. CASE Push(i) \/ Pop(i)
    BY <1>1, <2>1, PushKeepsAlone, PopKeepsAlone
  <2>2. CASE ~ (Push(i) \/ Pop(i))
    <3>1. Undisturbed
      BY <1>1, <2>2, LocalKeeps, BareReturnKeeps, SpawnKeeps, RemoveKeeps,
         LoopSpawnKeeps, JoinKeeps
    <3>2. ~ crashed
      BY <2>2 DEF Local, BareReturn, Spawn, Remove, LoopSpawn, Join, Turn
    <3> QED
      BY <3>1, <3>2, UndisturbedAlone
  <2> QED
    BY <2>1, <2>2
<1> QED
  BY <1>2, <1>3

\* What waits when a branch takes its block back is its own.
LEMMA AlonePops ==
  ASSUME Compiled, Alone, NEW i \in DOMAIN states, Pop(i)
  PROVE  Head(tmp) = Top(i).first
<1>1. i \in Pending /\ ~crashed
  BY DEF Pop, CanPop, Pending, Turn
<1>2. tmp = <<Top(i).first>>
  BY <1>1 DEF Alone
<1> QED
  BY <1>2

-----------------------------------------------------------------------------
LEMMA PoolInvTypes ==
  ASSUME NEW Statements, NEW Blocks, PoolInv(Statements, Blocks)
  PROVE  TypeOK /\ TmpMatches
BY DEF PoolInv, IsPoolState, TypeOK, Counted

(***************************************************************************)
(* The cells keep their types and one state at least is left (syntax.k's   *)
(* configuration under control.k), for every set of programs made of the   *)
(* statements and blocks of a language.                                    *)
(***************************************************************************)
THEOREM PoolTypeCorrect ==
  ASSUME NEW CONSTANT Statements, NEW CONSTANT Blocks, Language(Statements, Blocks)
  PROVE  Spec => []TypeOK
<1>1. Init => PoolInv(Statements, Blocks)
  BY PoolInvInit
<1>2. PoolInv(Statements, Blocks) /\ [Next]_vars => PoolInv(Statements, Blocks)'
  BY PoolInvNext
<1>3. PoolInv(Statements, Blocks) => TypeOK
  BY PoolInvTypes
<1> QED
  BY <1>1, <1>2, <1>3, PTL DEF Spec

(***************************************************************************)
(* Every block that waits in <tmp> has a branch that will take it, and     *)
(* every pending branch has a block waiting (control.k:14-19): as many of  *)
(* the one as of the other, in every order of the rules, until a fork      *)
(* collides.                                                               *)
(***************************************************************************)
THEOREM BlocksAreTaken ==
  ASSUME NEW CONSTANT Statements, NEW CONSTANT Blocks, Language(Statements, Blocks)
  PROVE  Spec => []TmpMatches
<1>1. Init => PoolInv(Statements, Blocks)
  BY PoolInvInit
<1>2. PoolInv(Statements, Blocks) /\ [Next]_vars => PoolInv(Statements, Blocks)'
  BY PoolInvNext
<1>3. PoolInv(Statements, Blocks) => TmpMatches
  BY PoolInvTypes
<1> QED
  BY <1>1, <1>2, <1>3, PTL DEF Spec

(***************************************************************************)
(* A branch takes back the block it put into <tmp> itself (control.k:      *)
(* 14-19), for programs of any size, in the order the committed build      *)
(* tries its rules: a pop is tried before a push.                          *)
(***************************************************************************)
THEOREM OwnBlockIsTaken ==
  ASSUME NEW CONSTANT Statements, NEW CONSTANT Blocks, Language(Statements, Blocks),
         Compiled
  PROVE  Spec => TakesOwnBlock
<1> DEFINE Inv == PoolInv(Statements, Blocks) /\ Alone
           OwnBlock == \A i \in DOMAIN states : Pop(i) => Head(tmp) = Top(i).first
<1>1. Init => Inv
  BY PoolInvInit DEF Alone
<1>2. Inv /\ [Next]_vars => Inv'
  BY PoolInvNext, AloneNext
<1>3. Inv /\ [Next]_vars => [OwnBlock]_vars
  BY AlonePops
<1>4. TakesOwnBlock <=> [][OwnBlock]_vars
  BY DEF TakesOwnBlock
<1> HIDE DEF Inv, OwnBlock
<1> QED
  BY <1>1, <1>2, <1>3, <1>4, PTL DEF Spec

=============================================================================
