------------------------------ MODULE MCCalls ------------------------------
(* Instances of Calls for TLC.                                             *)
EXTENDS Calls, TLC

Symmetry == Permutations(Ids)
MutOnly == {{"mut"}}

StatementForms == {"decl", "new", "transfer", "borrow", "block", "unsafe"}
InnerReturns == AllCallForms \ {"outer"}
=============================================================================
