----------------------------- MODULE Resources -----------------------------
(***************************************************************************)
(* What the ownership rules promise of resources, whatever the references  *)
(* do: a resource is created once, is in one place at a time, moves only   *)
(* by leaving its place, and never comes back once it is gone.             *)
(***************************************************************************)
EXTENDS Integers

CONSTANT Loc         \* the cells that can hold a resource: natural numbers

Transit == -1        \* the place of a resource that is being transferred

VARIABLES
  holds,   (* the pairs <<place, resource>>                                *)
  clock    (* resources are named by the time of their creation            *)

vars == <<holds, clock>>

InTransit == \E h \in holds : h[1] = Transit

Init == holds = {} /\ clock = 0

Create ==
  /\ ~InTransit
  /\ \A h \in holds : h[2] # clock
  /\ holds' = holds \cup {<<Transit, clock>>}
  /\ UNCHANGED clock

\* The resource n leaves its place.
Lift(l, n) ==
  /\ ~InTransit
  /\ <<l, n>> \in holds
  /\ holds' = (holds \ {<<l, n>>}) \cup {<<Transit, n>>}
  /\ UNCHANGED clock

\* It arrives at l; what l held is gone.
Land(l, n) ==
  /\ <<Transit, n>> \in holds
  /\ holds' = {h \in holds : h[1] \notin {l, Transit}} \cup {<<l, n>>}
  /\ clock' = clock + 1

\* The place l is given back, leaves its scope or becomes a reference.
Drop(l) ==
  /\ ~InTransit
  /\ holds' = {h \in holds : h[1] # l}
  /\ clock' \in {clock, clock + 1}

Next ==
  \/ Create
  \/ \E h \in holds : Lift(h[1], h[2])
  \/ \E l \in Loc, h \in holds : Land(l, h[2])
  \/ \E l \in Loc : Drop(l)

Spec == Init /\ [][Next]_vars

=============================================================================
