---------------------------- MODULE MCOwnership ----------------------------
(* Instances of Ownership for TLC: the classes of programs that are run.   *)
EXTENDS Ownership, TLC

Symmetry == Permutations(Ids)

\* Resources without properties, to be copied, and to be borrowed mutably.
SomeProps == {{}, {"copy"}, {"mut"}}

\* Every resource may be borrowed mutably, none may be copied.
MutOnly == {{"mut"}}

\* Programs without blocks that name the cells they write.
CoreForms == {"decl", "new", "transfer", "borrow", "mborrow", "rd", "deallocate"}

BlockForms == CoreForms \cup {"block", "unsafe"}

\* The statements of the paper's example of a use after free.
FreeForms == {"decl", "new", "mborrow", "deallocate", "through"}

MoveForms == {"decl", "new", "transfer", "borrow", "rd"}

\* Without blocks, with *x for an lvalue and transfers through references.
RefForms == CoreForms \cup {"deref", "through"}

=============================================================================
