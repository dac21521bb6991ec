---------------------------- MODULE Exploration ----------------------------
(***************************************************************************)
(* The pool of <state>s that control.k forks for branches and loops, and   *)
(* the verdict lib.rs draws from what krun leaves of it.                   *)
(*                                                                         *)
(* Of the data of a state only "own" is kept, the variables that own a     *)
(* resource; a statement on a variable that owns none is stuck.  Module    *)
(* Ownership has the rest of it.  A program is a sequence of statements; a *)
(* <k> cell is a sequence of statements and of the markers control.k puts  *)
(* between them.  A fork whose index is taken makes the configuration      *)
(* meaningless (two bindings of one key): "crashed".                       *)
(***************************************************************************)
EXTENDS Integers, Sequences, FiniteSets

CONSTANTS
  Vars,      (* the program's variables                                    *)
  Programs,  (* the programs that are run                                  *)
  Compiled   (* whether rules apply in the order of the committed build    *)

ASSUME CompiledAssumption == Compiled \in BOOLEAN

VARIABLES
  program,   (* $PGM                                                       *)
  states,    (* <states>: from <index> to the other cells                  *)
  nstate,    (* <nstate>                                                   *)
  tmp,       (* <tmp>: first blocks of branches being forked               *)
  crashed,   (* a fork has collided                                        *)
  loops      (* history: loops forked so far                               *)

vars == <<program, states, nstate, tmp, crashed, loops>>

-----------------------------------------------------------------------------
(* Statements, and the markers of control.k.  The fields "first" and "run" *)
(* are history: the block a branch put into tmp, the loop a marker is of.  *)

use(v) == [op |-> "use", var |-> v]
move(v) == [op |-> "move", var |-> v]
init(v) == [op |-> "init", var |-> v]
ret == [op |-> "return"]
branch(blocks) == [op |-> "branch", blocks |-> blocks]
loop(body) == [op |-> "loop", body |-> body]

secondBranch(blocks, first) ==
  [op |-> "second", blocks |-> blocks, first |-> first]
loopSep(tag, run) == [op |-> "loopSep", tag |-> tag, run |-> run]
loopEnd(tag, run) == [op |-> "loopEnd", tag |-> tag, run |-> run]
value == [op |-> "value"]
returnType == [op |-> "returnType"]

State(k, own) == [k |-> k, own |-> own]

\* The head of <k> in state i is of one of the kinds.
At(i, kinds) == states[i].k # << >> /\ Head(states[i].k).op \in kinds

Top(i) == Head(states[i].k)
Rest(i) == Tail(states[i].k)

\* One state rewritten, or one more.
With(i, s) == [j \in DOMAIN states \cup {i} |-> IF j = i THEN s ELSE states[j]]

WithK(i, k) == With(i, State(k, states[i].own))

\* Mutant: a return drops nothing.
Returned_nothing(k) == k

-----------------------------------------------------------------------------
\* V ~> Ss drops what follows, up to the end of the function or of the loop.
Returned(k) ==
  LET stops == {n \in DOMAIN k : k[n].op \in {"loopEnd", "returnType"}}
      first == CHOOSE n \in stops : \A m \in stops : n <= m
  IN  SubSeq(k, first, Len(k))

\* What a statement makes of a state.
Step(s) ==
  LET h == Head(s.k)
      t == Tail(s.k)
  IN  CASE h.op = "use" -> State(t, s.own)
        [] h.op = "move" -> State(t, s.own \ {h.var})
        [] h.op = "init" -> State(t, s.own \cup {h.var})
        [] h.op = "return" -> State(Returned(s.k), s.own)
        [] h.op = "returnType" -> State(t, s.own)

CanLocal(i) ==
  \/ At(i, {"use", "move"}) /\ Top(i).var \in states[i].own
  \/ At(i, {"init", "return", "returnType"})

\* Mutant: the tags are not compared.
Meet_noTag(i, j) ==
  /\ i # j
  /\ At(i, {"loopSep"})
  /\ At(j, {"loopEnd"}) /\ Rest(j) = << >>
  /\ states[i].own \subseteq states[j].own

\* The loop of state i and its iteration in state j meet, nothing was moved.
Meet(i, j) ==
  /\ i # j
  /\ At(i, {"loopSep"})
  /\ At(j, {"loopEnd"}) /\ Rest(j) = << >>
  /\ Top(i).tag = Top(j).tag
  /\ states[i].own \subseteq states[j].own

\* Mutant: the last state goes too.
CanRemove_last(i) == states[i].k = << >>

CanJoin(i) == \E j \in DOMAIN states : Meet(i, j)
CanSpawn(i) == At(i, {"second"}) /\ Top(i).blocks # << >>
CanRemove(i) == states[i].k = << >> /\ nstate # 1

CanPop(i) == At(i, {"second"}) /\ Top(i).blocks = << >> /\ tmp # << >>

\* Mutant: a push is tried before a pop.
Rank_pushFirst(i) ==
  CASE CanLocal(i) -> 1
    [] CanJoin(i) \/ CanSpawn(i) \/ CanRemove(i) \/ At(i, {"loop"}) -> 2
    [] At(i, {"branch"}) -> 3
    [] CanPop(i) -> 4
    [] OTHER -> 5

(***************************************************************************)
(* The committed build tries its rules in groups, and in a group the       *)
(* states by ascending index: first the rules of a single state, then the  *)
(* join of a loop, the two forks and the removal, then the pop of tmp,     *)
(* then the push.  K itself lets any rule apply.                           *)
(***************************************************************************)
Rank(i) == CASE CanLocal(i) -> 1
             [] CanJoin(i) \/ CanSpawn(i) \/ CanRemove(i) \/ At(i, {"loop"}) -> 2
             [] CanPop(i) -> 3
             [] At(i, {"branch"}) -> 4
             [] OTHER -> 5

Turn(i) ==
  /\ ~crashed
  /\ Compiled => \A j \in DOMAIN states :
                   Rank(i) < Rank(j) \/ (Rank(i) = Rank(j) /\ i <= j)

-----------------------------------------------------------------------------
Init ==
  /\ program \in Programs
  /\ states = [i \in {0} |-> State(program \o <<returnType>>, {})]
  /\ nstate = 1
  /\ tmp = << >>
  /\ crashed = FALSE
  /\ loops = 0

\* A statement of state i.
Local(i) ==
  /\ Turn(i) /\ CanLocal(i)
  /\ states' = With(i, Step(states[i]))
  /\ UNCHANGED <<program, nstate, tmp, crashed, loops>>

\* V ~> .Stmts => V when a return ends a loop: the value meets #loopEnd bare.
BareReturn(i) ==
  /\ ~Compiled /\ Turn(i) /\ At(i, {"return"})
  /\ Rest(i)[1].op = "loopEnd"
  /\ states' = WithK(i, <<value>> \o Rest(i))
  /\ UNCHANGED <<program, nstate, tmp, crashed, loops>>

\* @ B, Bs; : the first block waits in tmp.
Push(i) ==
  /\ Turn(i) /\ At(i, {"branch"})
  /\ LET bs == Top(i).blocks
     IN  /\ tmp' = <<Head(bs)>> \o tmp
         /\ states' = WithK(i, <<secondBranch(Tail(bs), Head(bs))>> \o Rest(i))
  /\ UNCHANGED <<program, nstate, crashed, loops>>

\* A new state of index nstate beside the states in sts.
Fork(sts, s) ==
  /\ nstate' = nstate + 1
  /\ IF nstate \in DOMAIN sts
       THEN crashed' = TRUE /\ states' = states
       ELSE /\ crashed' = FALSE
            /\ states' = [j \in DOMAIN sts \cup {nstate} |->
                            IF j = nstate THEN s ELSE sts[j]]

\* #secondBranch(B, Bs): a new state takes the block B.
Spawn(i) ==
  /\ Turn(i) /\ CanSpawn(i)
  /\ LET bs == Top(i).blocks
     IN  Fork(WithK(i, <<secondBranch(Tail(bs), Top(i).first)>> \o Rest(i)),
              State(Head(bs) \o Rest(i), states[i].own))
  /\ UNCHANGED <<program, tmp, loops>>

\* Mutant: the block stays in tmp.
Pop_peek(i) ==
  /\ Turn(i) /\ CanPop(i)
  /\ states' = WithK(i, Head(tmp) \o Rest(i))
  /\ UNCHANGED <<program, nstate, tmp, crashed, loops>>

\* #secondBranch(): this state takes the block that is first in tmp.
Pop(i) ==
  /\ Turn(i) /\ CanPop(i)
  /\ states' = WithK(i, Head(tmp) \o Rest(i))
  /\ tmp' = Tail(tmp)
  /\ UNCHANGED <<program, nstate, crashed, loops>>

\* A state that has run to its end goes, but for the last one.
Remove(i) ==
  /\ Turn(i) /\ CanRemove(i)
  /\ states' = [j \in DOMAIN states \ {i} |-> states[j]]
  /\ nstate' = nstate - 1
  /\ UNCHANGED <<program, tmp, crashed, loops>>

\* ! B; : an iteration in a state of its own; this one waits for it.
LoopSpawn(i) ==
  /\ Turn(i) /\ At(i, {"loop"})
  /\ LET b == Top(i).body
     IN  Fork(WithK(i, <<loopSep(nstate, loops)>> \o b \o Rest(i)),
              State(b \o <<loopEnd(nstate, loops)>>, states[i].own))
  /\ loops' = loops + 1
  /\ UNCHANGED <<program, tmp>>

\* Mutant: the state that is joined goes, nstate stays.
Join_uncounted(i, j) ==
  /\ Turn(i) /\ Meet(i, j)
  /\ Compiled => \A h \in DOMAIN states : Meet(i, h) => j <= h
  /\ states' = [h \in DOMAIN states \ {j} |->
                  IF h = i THEN State(Rest(i), states[i].own) ELSE states[h]]
  /\ UNCHANGED <<program, nstate, tmp, crashed, loops>>

\* #loopSep meets #loopEnd.
Join(i, j) ==
  /\ Turn(i) /\ Meet(i, j)
  /\ Compiled => \A h \in DOMAIN states : Meet(i, h) => j <= h
  /\ states' = [h \in DOMAIN states \ {j} |->
                  IF h = i THEN State(Rest(i), states[i].own) ELSE states[h]]
  /\ nstate' = nstate - 1
  /\ UNCHANGED <<program, tmp, crashed, loops>>

Next ==
  \E i \in DOMAIN states :
    \/ Local(i) \/ BareReturn(i)
    \/ Push(i) \/ Spawn(i) \/ Pop(i) \/ Remove(i)
    \/ LoopSpawn(i) \/ \E j \in DOMAIN states : Join(i, j)

\* krun rewrites until no rule applies.
Spec == Init /\ [][Next]_vars /\ WF_vars(Next)

\* lib.rs, is_valid: one state is left and it has nothing to do.
Valid == ~crashed /\ nstate = 1 /\ \A i \in DOMAIN states : states[i].k = << >>

-----------------------------------------------------------------------------
\* The types of the cells; one state at least is left.
TypeOK ==
  /\ program \in Programs
  /\ DOMAIN states \subseteq Nat
  /\ \A i \in DOMAIN states :
       DOMAIN states[i] = {"k", "own"} /\ states[i].own \subseteq Vars
  /\ nstate \in Nat \ {0}
  /\ crashed \in BOOLEAN
  /\ loops \in Nat

(***************************************************************************)
(* nstate is the number of states (control.k:21-54, 82-131), although      *)
(* three forks and two removals keep it by hand: is_valid trusts it, and   *)
(* forks take it for an index.  A fork that collides is the exception.     *)
(***************************************************************************)
NStateCounts == ~crashed => nstate = Cardinality(DOMAIN states)

\* The states that have pushed a block and not popped it yet.
Pending == {i \in DOMAIN states : At(i, {"second"})}

(***************************************************************************)
(* Every block waiting in tmp has a branch that will take it and every     *)
(* branch has a block waiting (control.k:14-19): as many as are pending.   *)
(***************************************************************************)
TmpMatches == ~crashed => Len(tmp) = Cardinality(Pending)

(***************************************************************************)
(* A branch takes back its own first block (control.k:14-19), and not the  *)
(* block of a branch another state has pushed in between.                  *)
(***************************************************************************)
TakesOwnBlock == [][\A i \in DOMAIN states : Pop(i) => Head(tmp) = Top(i).first]_vars

(***************************************************************************)
(* A loop is compared with its own iteration (control.k:82-131): tags are  *)
(* values of nstate, and nstate goes down as well as up.                   *)
(***************************************************************************)
JoinsOwnLoop ==
  [][\A i, j \in DOMAIN states : Join(i, j) => Top(i).run = Top(j).run]_vars

(***************************************************************************)
(* The pool is explored in finitely many rewrites: a loop is unrolled once *)
(* and waits for one iteration, a fork shortens the branch it came from.   *)
(***************************************************************************)
Terminates == <>[](~ENABLED Next)

(***************************************************************************)
(* When nothing more can be rewritten the program is accepted (lib.rs,     *)
(* is_valid): true of the sound programs one expects OSL to validate.      *)
(***************************************************************************)
Accepted == ~ENABLED Next => Valid

=============================================================================
