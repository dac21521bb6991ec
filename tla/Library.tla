-------------------------------- MODULE Library --------------------------------
(***************************************************************************)
(* The functions of the C library that the transpiler puts in front of the *)
(* program, each with a body of its own, and the mutabilities of their     *)
(* parameters.  OSL has no variable numbers of arguments: printf, fprintf  *)
(* and scanf are written out once per number of arguments.                 *)
(***************************************************************************)
EXTENDS Scopes, SequencesExt

Owners(n) == [k \in 1 .. n |-> MutOwner]

Variadics == {"printf", "fprintf", "scanf"}

\* f1 to f5: f<n> has the fixed parameters and n - 1 more.
Unrolled(f, fixed, more) ==
  LET numbered(n) == f \o ToString(n)
  IN  [g \in {numbered(n) : n \in 1 .. 5} |->
         fixed \o [k \in 1 .. (CHOOSE n \in 1 .. 5 : g = numbered(n)) - 1 |-> more]]

\* fprintf<n> has one parameter more than its name says: the stream.
Numbered ==
  Unrolled("printf", <<ImmOwner>>, ImmRef) @@ Unrolled("scanf", <<ImmOwner>>, MutRef)
  @@ Unrolled("fprintf", <<MutRef, ImmOwner>>, ImmRef)

\* malloc, calloc, realloc and free are known and not printed.
Library ==
  Numbered @@
  [abs |-> Owners(1), rand |-> Owners(0), pow |-> Owners(2), fmod |-> Owners(2),
   atoi |-> <<ImmRef>>, atof |-> <<ImmRef>>, atol |-> <<ImmRef>>, strlen |-> <<ImmRef>>,
   memset |-> <<MutRef, MutOwner, MutOwner>>, perror |-> <<ImmOwner>>, exit |-> Owners(1),
   socket |-> Owners(3), htons |-> Owners(1), bind |-> Owners(3), listen |-> Owners(2),
   accept |-> <<MutOwner, ImmRef, ImmRef>>, close |-> Owners(1),
   write |-> <<MutOwner, ImmRef, MutOwner>>, read |-> <<MutOwner, ImmRef, MutOwner>>]

\* Functions that are called by their name and the number of arguments.
is_std_function_noScanf(f) == f \in {"fprintf", "printf", "pow", "fmod"}
is_std_function(f) == f \in {"fprintf", "scanf", "printf", "pow", "fmod"}

===============================================================================
