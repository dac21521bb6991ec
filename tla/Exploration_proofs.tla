------------------------- MODULE Exploration_proofs -------------------------
(***************************************************************************)
(* nstate is the number of states, whatever the programs and the schedule. *)
(***************************************************************************)
EXTENDS Exploration, FiniteSetTheorems, TLAPS

\* What the counting needs: finitely many states, at least one, numbered by
\* naturals, and as many as nstate says.
Counted ==
  /\ DOMAIN states \subseteq Nat
  /\ IsFiniteSet(DOMAIN states)
  /\ DOMAIN states # {}
  /\ nstate \in Nat \ {0}
  /\ crashed \in BOOLEAN
  /\ NStateCounts

-----------------------------------------------------------------------------
\* A step that leaves the indexes and the count alone.
LEMMA Untouched ==
  ASSUME Counted, DOMAIN states' = DOMAIN states, nstate' = nstate, crashed' = crashed
  PROVE  Counted'
BY DEF Counted, NStateCounts

\* Rewriting the state i adds no index.
LEMMA WithKeeps ==
  ASSUME NEW i \in DOMAIN states, NEW s
  PROVE  DOMAIN With(i, s) = DOMAIN states
BY DEF With

\* A fork adds the index nstate and counts it, or collides.
LEMMA ForkCounts ==
  ASSUME Counted, ~crashed, NEW sts, NEW s, DOMAIN sts = DOMAIN states, Fork(sts, s)
  PROVE  Counted'
<1>1. nstate' = nstate + 1 /\ nstate \in Nat /\ nstate # 0
  BY DEF Fork, Counted
<1>2. CASE nstate \in DOMAIN sts
  BY <1>1, <1>2 DEF Fork, Counted, NStateCounts
<1>3. CASE nstate \notin DOMAIN sts
  <2>1. DOMAIN states' = DOMAIN states \cup {nstate} /\ crashed' = FALSE
    BY <1>3 DEF Fork
  <2>2. /\ IsFiniteSet(DOMAIN states')
        /\ Cardinality(DOMAIN states') = Cardinality(DOMAIN states) + 1
    BY <1>3, <2>1, FS_AddElement DEF Counted
  <2>3. nstate = Cardinality(DOMAIN states) /\ DOMAIN states \subseteq Nat
    BY DEF Counted, NStateCounts
  <2>4. DOMAIN states' \subseteq Nat /\ DOMAIN states' # {}
    BY <1>1, <2>1, <2>3
  <2>5. nstate' \in Nat \ {0} /\ nstate' = Cardinality(DOMAIN states')
    BY <1>1, <2>2, <2>3
  <2> QED
    BY <2>1, <2>2, <2>4, <2>5 DEF Counted, NStateCounts
<1> QED
  BY <1>2, <1>3

\* A state that goes is counted off, when it is not the last.
LEMMA RemovalCounts ==
  ASSUME Counted, ~crashed, UNCHANGED crashed, NEW i \in DOMAIN states, nstate # 1,
         DOMAIN states' = DOMAIN states \ {i}, nstate' = nstate - 1
  PROVE  Counted'
<1>1. nstate \in Nat \ {0} /\ nstate = Cardinality(DOMAIN states)
  BY DEF Counted, NStateCounts
<1>2. /\ IsFiniteSet(DOMAIN states')
      /\ Cardinality(DOMAIN states') = Cardinality(DOMAIN states) - 1
  BY FS_RemoveElement DEF Counted
<1>3. DOMAIN states' # {}
  BY <1>1, <1>2, FS_EmptySet
<1> QED
  BY <1>1, <1>2, <1>3 DEF Counted, NStateCounts

\* Where two states are, nstate is not 1.
LEMMA TwoStates ==
  ASSUME Counted, ~crashed, NEW i \in DOMAIN states, NEW j \in DOMAIN states, i # j
  PROVE  nstate # 1
<1>1. nstate = Cardinality(DOMAIN states)
  BY DEF Counted, NStateCounts
<1>2. /\ IsFiniteSet(DOMAIN states \ {i})
      /\ Cardinality(DOMAIN states \ {i}) = Cardinality(DOMAIN states) - 1
  BY FS_RemoveElement DEF Counted
<1>3. j \in DOMAIN states \ {i}
  OBVIOUS
<1>4. Cardinality(DOMAIN states \ {i}) # 0
  BY <1>2, <1>3, FS_EmptySet
<1> QED
  BY <1>1, <1>2, <1>4 DEF Counted

-----------------------------------------------------------------------------
LEMMA InitCounts == Init => Counted
<1> SUFFICES ASSUME Init PROVE Counted
  OBVIOUS
<1>1. DOMAIN states = {0}
  BY DEF Init
<1>2. IsFiniteSet({0}) /\ Cardinality({0}) = 1
  BY FS_Singleton
<1>3. nstate = 1 /\ crashed = FALSE
  BY DEF Init
<1>4. IsFiniteSet(DOMAIN states) /\ nstate = Cardinality(DOMAIN states)
  BY <1>1, <1>2, <1>3, Zenon
<1>5. DOMAIN states \subseteq Nat /\ DOMAIN states # {} /\ nstate \in Nat \ {0}
  BY <1>1, <1>3
<1> QED
  BY <1>3, <1>4, <1>5 DEF Counted, NStateCounts

LEMMA NextCounts == Counted /\ [Next]_vars => Counted'
<1> SUFFICES ASSUME Counted, [Next]_vars PROVE Counted'
  OBVIOUS
<1>1. CASE UNCHANGED vars
  BY <1>1, Untouched DEF vars
<1>2. ASSUME NEW i \in DOMAIN states, Local(i) \/ BareReturn(i) \/ Push(i) \/ Pop(i)
      PROVE  Counted'
  <2>1. DOMAIN states' = DOMAIN states
    BY <1>2, WithKeeps DEF Local, BareReturn, Push, Pop, WithK
  <2> QED
    BY <1>2, <2>1, Untouched DEF Local, BareReturn, Push, Pop
<1>3. ASSUME NEW i \in DOMAIN states, Spawn(i)
      PROVE  Counted'
  BY <1>3, WithKeeps, ForkCounts DEF Spawn, Turn, WithK
<1>4. ASSUME NEW i \in DOMAIN states, LoopSpawn(i)
      PROVE  Counted'
  BY <1>4, WithKeeps, ForkCounts DEF LoopSpawn, Turn, WithK
<1>5. ASSUME NEW i \in DOMAIN states, Remove(i)
      PROVE  Counted'
  BY <1>5, RemovalCounts DEF Remove, Turn, CanRemove
<1>6. ASSUME NEW i \in DOMAIN states, NEW j \in DOMAIN states, Join(i, j)
      PROVE  Counted'
  <2>1. i # j /\ ~crashed
    BY <1>6 DEF Join, Meet, Turn
  <2>2. nstate # 1
    BY <2>1, TwoStates
  <2> QED
    BY <1>6, <2>1, <2>2, RemovalCounts DEF Join
<1> QED
  BY <1>1, <1>2, <1>3, <1>4, <1>5, <1>6 DEF Next

(***************************************************************************)
(* The verdict and the forks may rely on nstate (control.k:21-54, 82-131): *)
(* it is the number of states, for every program and in every order of     *)
(* the rules, until a fork collides.                                       *)
(***************************************************************************)
THEOREM NStateIsTheCount == Spec => []NStateCounts
<1>1. Init => Counted
  BY InitCounts
<1>2. Counted /\ [Next]_vars => Counted'
  BY NextCounts
<1>3. Counted => NStateCounts
  BY DEF Counted
<1> QED
  BY <1>1, <1>2, <1>3, PTL DEF Spec

=============================================================================
