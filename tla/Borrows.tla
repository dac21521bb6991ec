------------------------------ MODULE Borrows ------------------------------
(***************************************************************************)
(* The values of an OSL store and the checks osl.k makes on them.          *)
(*                                                                         *)
(* A store maps locations (natural numbers) to values: an uninitialised    *)
(* cell, a resource, or a reference, the K term #br(BEG, END, #immRef(L))  *)
(* or #br(BEG, END, #mutRef(L)), whose lifetime so far is BEG .. END.      *)
(* Two fields are history, written and never read by the code: "id" names  *)
(* a resource from its creation on (K keeps only its properties), and      *)
(* "saw" is the resource the target of a reference held when the reference *)
(* was created.                                                            *)
(***************************************************************************)
EXTENDS Integers

Prop == {"copy", "mut"}

\* No resource: what a new reference saw when its target owned nothing.
NoRes == -1

uninit == [kind |-> "uninit"]
rs(props, id) == [kind |-> "rs", props |-> props, id |-> id]
br(kind, beg, end, to, saw) ==
  [kind |-> kind, beg |-> beg, end |-> end, to |-> to, saw |-> saw]

Resource == [kind : {"rs"}, props : SUBSET Prop, id : Nat]
Reference ==
  [kind : {"imm", "mut"}, beg : Nat, end : Nat, to : Nat, saw : Nat \cup {NoRes}]
Value == {uninit} \cup Resource \cup Reference

IsRes(v) == v.kind = "rs"
IsRef(v) == v.kind \in {"imm", "mut"}

\* K's M[x <- v].
Upd(f, x, v) == [y \in DOMAIN f \cup {x} |-> IF y = x THEN v ELSE f[y]]

\* K's removal of a binding.
Without(f, x) == [y \in DOMAIN f \ {x} |-> f[y]]

-----------------------------------------------------------------------------
\* #lc: one end of the lifetime l3 .. l4 lies in the interval (l1, l2].
lc(l1, l2, l3, l4) == \/ l1 < l3 /\ l3 <= l2
                      \/ l1 < l4 /\ l4 <= l2

\* The other references of st that name the same target as the one at l.
Others(l, st, to) == {o \in DOMAIN st \ {l} : IsRef(st[o]) /\ st[o].to = to}

\* Mutant: a mutable reference that is still in use is not looked at.
borrowimmck_blind(l, st, beg, now, to) == FALSE

\* #borrowimmck: does a mutable reference clash with beg .. now of l?
borrowimmck(l, st, beg, now, to) ==
  \E o \in Others(l, st, to) :
    st[o].kind = "mut" /\ lc(beg, now, st[o].beg, st[o].end)

\* #borrowmutck: does any other reference clash with beg .. now of l?
borrowmutck(l, st, beg, now, to) ==
  \E o \in Others(l, st, to) : lc(beg, now, st[o].beg, st[o].end)

\* #writeCK: no write to l is logged in beg .. end.
writeCK(l, beg, end, ws) ==
  \A w \in ws : w.loc = l => ~(beg <= w.at /\ w.at <= end)

(***************************************************************************)
(* #existRef walks the set of values and stops at the first reference of   *)
(* the given kind to l: its answer is that reference's alone, and which    *)
(* one comes first is the matching order's choice.  The value is the set   *)
(* of the answers it can give.                                             *)
(***************************************************************************)
existRef(kind, l, st, now) ==
  LET found == {o \in DOMAIN st : st[o].kind = kind /\ st[o].to = l}
  IN  IF found = {} THEN {FALSE} ELSE {st[o].end >= now : o \in found}

\* #checkInit: the cell is not uninitialised.
checkInit(l, st) == st[l] # uninit

\* The resource at l, if there is one.
ResAt(l, st) ==
  IF l \in DOMAIN st /\ IsRes(st[l]) THEN st[l].id ELSE NoRes

=============================================================================
