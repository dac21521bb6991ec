------------------------------- MODULE Paths -------------------------------
(***************************************************************************)
(* What the exploration of Exploration.tla is for: whether every execution *)
(* path of a program runs without being stuck, by recursion on the program *)
(* and without states, forks or markers.                                   *)
(***************************************************************************)
EXTENDS Integers, Sequences

\* Bound: iterations of a loop.  A second one differs from the first in what
\* it finds owned; from the third on nothing new can be found.
MaxIterations == 3

Repeated(s, n) == [m \in 1 .. n * Len(s) |-> s[((m - 1) % Len(s)) + 1]]

RECURSIVE Runs(_, _)

\* Every path of k runs to its end when the variables own are owners.
Runs(k, own) ==
  LET h == Head(k)
      t == Tail(k)
  IN  \/ k = << >>
      \/ h.op = "return"
      \/ h.op = "use" /\ h.var \in own /\ Runs(t, own)
      \/ h.op = "move" /\ h.var \in own /\ Runs(t, own \ {h.var})
      \/ h.op = "init" /\ Runs(t, own \cup {h.var})
      \/ h.op = "branch" /\ \A b \in DOMAIN h.blocks : Runs(h.blocks[b] \o t, own)
      \/ h.op = "loop" /\ \A n \in 1 .. MaxIterations : Runs(Repeated(h.body, n) \o t, own)

=============================================================================
