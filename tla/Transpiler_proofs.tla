--------------------------- MODULE Transpiler_proofs ---------------------------
(***************************************************************************)
(* The transpiler's scopes against C's, and the errors it collects, for    *)
(* every unit and every way expressions translate.                         *)
(***************************************************************************)
EXTENDS Transpiler, FiniteSetTheorems, SequenceTheorems, WellFoundedInduction, TLAPS

-----------------------------------------------------------------------------
(* Sequences of whatever.                                                  *)

Listed(s) == s \in Seq(ToSet(s))

LEMMA ListedAny ==
  ASSUME NEW S, NEW s \in Seq(S)
  PROVE  Listed(s)
<1>1. s \in [1 .. Len(s) -> S] /\ DOMAIN s = 1 .. Len(s) /\ Len(s) \in Nat
  BY LenProperties
<1>2. s \in [1 .. Len(s) -> ToSet(s)]
  BY <1>1 DEF ToSet
<1> QED
  BY <1>1, <1>2, SeqDef DEF Listed

LEMMA ListedLen ==
  ASSUME NEW s, Listed(s)
  PROVE  /\ Len(s) \in Nat
         /\ DOMAIN s = 1 .. Len(s)
BY LenProperties DEF Listed

\* A sequence with one more at the end.
LEMMA Pushed ==
  ASSUME NEW s, Listed(s), NEW e
  PROVE  /\ Listed(Append(s, e))
         /\ Len(Append(s, e)) = Len(s) + 1
         /\ \A i \in 1 .. Len(s) : Append(s, e)[i] = s[i]
         /\ Append(s, e)[Len(s) + 1] = e
<1> DEFINE S == ToSet(s) \cup {e}
<1>1. s \in Seq(S)
  BY SeqDef DEF Listed
<1>2. Append(s, e) \in Seq(S)
  BY <1>1
<1>3. Listed(Append(s, e))
  BY <1>2, ListedAny
<1>4. /\ Len(Append(s, e)) = Len(s) + 1
      /\ \A i \in 1 .. Len(s) : Append(s, e)[i] = s[i]
      /\ Append(s, e)[Len(s) + 1] = e
  BY <1>1, AppendProperties
<1> QED
  BY <1>3, <1>4

\* A sequence without its last n.
LEMMA Popped ==
  ASSUME NEW s, Listed(s), NEW n \in 0 .. Len(s)
  PROVE  /\ Listed(SubSeq(s, 1, Len(s) - n))
         /\ Len(SubSeq(s, 1, Len(s) - n)) = Len(s) - n
         /\ \A i \in 1 .. Len(s) - n : SubSeq(s, 1, Len(s) - n)[i] = s[i]
<1>1. s \in Seq(ToSet(s)) /\ Len(s) \in Nat /\ n \in Nat /\ Len(s) - n \in 0 .. Len(s)
  BY ListedLen DEF Listed
<1>2. SubSeq(s, 1, Len(s) - n) \in Seq(ToSet(s))
  BY <1>1, SubSeqProperties
<1>3. /\ Len(SubSeq(s, 1, Len(s) - n)) = Len(s) - n
      /\ \A i \in 1 .. Len(s) - n : SubSeq(s, 1, Len(s) - n)[i] = s[i]
  BY <1>1, SubSeqProperties
<1> QED
  BY <1>2, <1>3, ListedAny

\* A sequence with another last element.
LEMMA Replaced ==
  ASSUME NEW s, Listed(s), Len(s) > 0, NEW e
  PROVE  /\ Listed(WithTop(s, e))
         /\ Len(WithTop(s, e)) = Len(s)
         /\ \A i \in 1 .. Len(s) - 1 : WithTop(s, e)[i] = s[i]
         /\ WithTop(s, e)[Len(s)] = e
<1> DEFINE t == SubSeq(s, 1, Len(s) - 1)
<1>2. Len(s) \in Nat /\ 1 \in 0 .. Len(s)
  BY ListedLen
<1>1. Listed(t) /\ Len(t) = Len(s) - 1 /\ \A i \in 1 .. Len(s) - 1 : t[i] = s[i]
  BY <1>2, Popped
<1> HIDE DEF t
<1>3. /\ Listed(Append(t, e))
      /\ Len(Append(t, e)) = Len(t) + 1
      /\ \A i \in 1 .. Len(t) : Append(t, e)[i] = t[i]
      /\ Append(t, e)[Len(t) + 1] = e
  BY <1>1, Pushed
<1>4. WithTop(s, e) = Append(t, e)
  BY DEF WithTop, t
<1> QED
  BY <1>1, <1>2, <1>3, <1>4

\* The same by EXCEPT.
LEMMA Excepted ==
  ASSUME NEW s, Listed(s), Len(s) > 0, NEW e
  PROVE  LET t == [s EXCEPT ![Len(s)] = e]
         IN  /\ Listed(t)
             /\ Len(t) = Len(s)
             /\ \A i \in 1 .. Len(s) - 1 : t[i] = s[i]
             /\ t[Len(s)] = e
<1> DEFINE t == [s EXCEPT ![Len(s)] = e]
           S == ToSet(s) \cup {e}
<1>1. s \in Seq(S) /\ Len(s) \in Nat /\ DOMAIN s = 1 .. Len(s)
  BY SeqDef, ListedLen DEF Listed
<1>2. t \in Seq(S) /\ Len(t) = Len(s)
  BY <1>1, ExceptSeq
<1>3. (\A i \in 1 .. Len(s) - 1 : t[i] = s[i]) /\ t[Len(s)] = e
  BY <1>1
<1> QED
  BY <1>2, <1>3, ListedAny

\* The greatest of some numbers up to n.
LEMMA MaxIn ==
  ASSUME NEW n \in Nat, NEW S, S \subseteq 1 .. n, S # {}
  PROVE  Max(S) \in S /\ \A y \in S : y <= Max(S)
<1> DEFINE Above(x) == {y \in 1 .. n : y > x}
           T == {Above(x) : x \in S}
<1>1. IsFiniteSet(1 .. n)
  BY FS_Interval
<1>2. IsWellFoundedOn(StrictSubsetOrdering(1 .. n), FiniteSubsetsOf(1 .. n))
  BY FS_StrictSubsetOrderingWellFounded
<1>3. T \subseteq FiniteSubsetsOf(1 .. n) /\ T # {}
  <2>1. \A x \in S : Above(x) \in SUBSET (1 .. n)
    OBVIOUS
  <2>2. FiniteSubsetsOf(1 .. n) = SUBSET (1 .. n)
    BY <1>1, FS_FiniteSubsetsOfFinite
  <2> HIDE DEF Above
  <2>3. T \subseteq SUBSET (1 .. n) /\ T # {}
    BY <2>1
  <2> QED
    BY <2>2, <2>3
<1>4. PICK t \in T : \A u \in T : ~ (<<u, t>> \in StrictSubsetOrdering(1 .. n))
  <2> HIDE DEF T
  <2> QED
    BY <1>2, <1>3, WFMin
<1>5. PICK x \in S : t = Above(x)
  OBVIOUS
<1>6. \A y \in S : y <= x
  <2> SUFFICES ASSUME NEW y \in S, ~(y <= x) PROVE FALSE
    OBVIOUS
  <2>1. x \in Int /\ y \in Int /\ y > x /\ y \in 1 .. n
    OBVIOUS
  <2>2. Above(y) \in T /\ Above(y) \subseteq Above(x) /\ y \in Above(x) /\ y \notin Above(y)
    BY <2>1
  <2>3. <<Above(y), Above(x)>> \in (SUBSET (1 .. n)) \X (SUBSET (1 .. n))
    OBVIOUS
  <2> HIDE DEF Above, T
  <2>4. <<Above(y), Above(x)>> \in StrictSubsetOrdering(1 .. n)
    BY <2>2, <2>3 DEF StrictSubsetOrdering
  <2> QED
    BY <1>4, <1>5, <2>2, <2>4
<1>7. \E z \in S : \A y \in S : z >= y
  BY <1>6
<1>8. Max(S) \in S /\ \A y \in S : Max(S) >= y
  BY <1>7 DEF Max
<1> QED
  BY <1>8

-----------------------------------------------------------------------------
(* Types.                                                                  *)

Fields == {"kind", "name", "params", "head", "tail", "headOk", "ok",
           "out", "first", "src", "first_src"}

IsFrame(fr) ==
  /\ fr = [f \in Fields |-> fr[f]]
  /\ fr.ok \in BOOLEAN /\ fr.headOk \in BOOLEAN

IsContext(c) ==
  /\ c = [scopes |-> c.scopes, types |-> c.types]
  /\ Listed(c.scopes) /\ Len(c.scopes) > 0

\* One unit, in it one function, and everything else in the function.
Nested(s) ==
  /\ s[1].kind = "unit"
  /\ \A i \in 2 .. Len(s) : s[i].kind # "unit"
  /\ \A i \in 2 .. Len(s) : s[i].kind = "function" <=> i = 2

Shape ==
  /\ Listed(stack) /\ Len(stack) > 0
  /\ \A i \in 1 .. Len(stack) : IsFrame(stack[i])
  /\ Nested(stack)
  /\ Listed(scopes) /\ Len(scopes) > 0
  /\ IsContext(context)

LEMMA NewFrame ==
  ASSUME NEW kind, NEW head, NEW tail
  PROVE  LET fr == Frame(kind, head, tail)
         IN  IsFrame(fr) /\ fr.kind = kind /\ fr.ok = TRUE /\ fr.headOk = TRUE
BY DEF Frame, IsFrame, Fields

\* What an error or more statements make of a frame.
Becomes(new, fr, bad) ==
  /\ IsFrame(new)
  /\ new.kind = fr.kind /\ new.name = fr.name /\ new.headOk = fr.headOk
  /\ new.ok = (fr.ok /\ ~bad)

LEMMA MoreBecomes ==
  ASSUME NEW fr, IsFrame(fr), NEW osl, NEW c
  PROVE  Becomes(More(fr, osl, c), fr, FALSE)
BY DEF More, IsFrame, Fields, Becomes

LEMMA BadBecomes ==
  ASSUME NEW fr, IsFrame(fr)
  PROVE  Becomes(Bad(fr), fr, TRUE)
BY DEF Bad, IsFrame, Fields, Becomes

LEMMA SameBecomes ==
  ASSUME NEW fr, IsFrame(fr)
  PROVE  Becomes(fr, fr, FALSE)
BY DEF IsFrame, Becomes

\* The steps of the stack: work in the open construct, one that opens, and
\* one that is left.
Worked(bad) ==
  /\ Listed(stack') /\ Len(stack') = Len(stack)
  /\ \A i \in 1 .. Len(stack) - 1 : stack'[i] = stack[i]
  /\ Becomes(stack'[Len(stack)], Top, bad)

Opened(fr) ==
  /\ IsFrame(fr)
  /\ Listed(stack') /\ Len(stack') = Len(stack) + 1
  /\ \A i \in 1 .. Len(stack) : stack'[i] = stack[i]
  /\ stack'[Len(stack) + 1] = fr

Dropped(bad) ==
  /\ Len(stack) > 1
  /\ Listed(stack') /\ Len(stack') = Len(stack) - 1
  /\ \A i \in 1 .. Len(stack) - 2 : stack'[i] = stack[i]
  /\ Becomes(stack'[Len(stack) - 1], stack[Len(stack) - 1], bad)

LEMMA TopFrame ==
  ASSUME Shape
  PROVE  /\ Len(stack) \in Nat \ {0} /\ Len(scopes) \in Nat \ {0}
         /\ Len(context.scopes) \in Nat \ {0}
         /\ IsFrame(Top) /\ Top = stack[Len(stack)]
<1>1. Listed(stack) /\ Listed(scopes) /\ Listed(context.scopes)
  BY DEF Shape, IsContext
<1>2. Len(stack) \in Nat \ {0} /\ Len(scopes) \in Nat \ {0} /\ Len(context.scopes) \in Nat \ {0}
  BY <1>1, ListedLen DEF Shape, IsContext
<1> QED
  BY <1>2 DEF Shape, Top

LEMMA WithTopWorks ==
  ASSUME Shape, NEW fr, NEW bad, Becomes(fr, Top, bad), stack' = WithTop(stack, fr)
  PROVE  Worked(bad)
BY Replaced DEF Worked, Shape

LEMMA SameWorks ==
  ASSUME Shape, stack' = stack
  PROVE  Worked(FALSE)
BY TopFrame, SameBecomes DEF Worked, Shape

LEMMA AppendOpens ==
  ASSUME Shape, NEW fr, IsFrame(fr), stack' = Append(stack, fr)
  PROVE  Opened(fr)
BY Pushed DEF Opened, Shape

LEMMA BelowDrops ==
  ASSUME Shape, Len(stack) > 1, NEW fr, NEW bad,
         Becomes(fr, stack[Len(stack) - 1], bad), stack' = WithTop(Below, fr)
  PROVE  /\ Dropped(bad)
         /\ Below[Len(Below)] = stack[Len(stack) - 1]
<1>1. Len(stack) \in Nat /\ Listed(stack) /\ 1 \in 0 .. Len(stack)
  BY TopFrame DEF Shape
<1>2. /\ Listed(Below) /\ Len(Below) = Len(stack) - 1
      /\ \A i \in 1 .. Len(stack) - 1 : Below[i] = stack[i]
  BY <1>1, Popped DEF Below
<1>3. /\ Listed(WithTop(Below, fr)) /\ Len(WithTop(Below, fr)) = Len(Below)
      /\ \A i \in 1 .. Len(Below) - 1 : WithTop(Below, fr)[i] = Below[i]
      /\ WithTop(Below, fr)[Len(Below)] = fr
  BY <1>1, <1>2, Replaced
<1> QED
  BY <1>1, <1>2, <1>3 DEF Dropped

LEMMA BelowLast ==
  ASSUME Shape, Len(stack) > 1
  PROVE  Below[Len(Below)] = stack[Len(stack) - 1] /\ IsFrame(stack[Len(stack) - 1])
<1>1. Len(stack) \in Nat /\ Listed(stack) /\ 1 \in 0 .. Len(stack)
  BY TopFrame DEF Shape
<1>2. /\ Len(Below) = Len(stack) - 1
      /\ \A i \in 1 .. Len(stack) - 1 : Below[i] = stack[i]
  BY <1>1, Popped DEF Below
<1> QED
  BY <1>1, <1>2 DEF Shape

\* The outcome of a translation.
LEMMA Outcomes ==
  ASSUME Shape, NEW r, NEW frames, Outcome(r, frames)
  PROVE  \/ r.res = "ok" /\ stack' = frames /\ status' = "running"
         \/ Failed(r) /\ Worked(TRUE) /\ status' = "running"
         \/ r.res \in Panics /\ Worked(FALSE) /\ status' \in Panics
<1>1. CASE r.res = "ok"
  BY <1>1 DEF Outcome, Panics, Failed
<1>2. CASE r.res \in Panics
  <2>1. stack' = stack /\ status' \in Panics
    BY <1>2 DEF Outcome, Panics, Failed
  <2> QED
    BY <1>2, <2>1, SameWorks
<1>3. CASE r.res \notin {"ok"} \cup Panics
  <2>1. stack' = WithTop(stack, Bad(Top)) /\ status' = "running" /\ Failed(r)
    BY <1>3 DEF Outcome, Panics, Failed
  <2>2. Becomes(Bad(Top), Top, TRUE)
    BY TopFrame, BadBecomes
  <2> QED
    BY <2>1, <2>2, WithTopWorks
<1> QED
  BY <1>1, <1>2, <1>3

-----------------------------------------------------------------------------
(* What each action does to the stack and the notes.                       *)

Hints == {"constant", "alone", "misfit", "member", "early", "inMember"}

LEMMA Noting ==
  ASSUME NEW r, NEW exprs, NEW note, Noted(r, exprs, note)
  PROVE  /\ notes \cup note \subseteq notes'
         /\ notes' \subseteq notes \cup note \cup Hints \cup {"error"}
         /\ "error" \notin note => ("error" \in notes' <=> "error" \in notes \/ Failed(r))
<1> DEFINE noted == UNION {NotedOf(r, e) : e \in exprs}
<1>1. noted \subseteq Hints
  <2>1. \A e : NotedOf(r, e) \subseteq Hints
    BY DEF NotedOf, Hints
  <2> QED
    BY <2>1
<1>2. "error" \notin Hints
  BY DEF Hints
<1>3. notes' = notes \cup note \cup noted \cup (IF Failed(r) THEN {"error"} ELSE {})
  BY DEF Noted
<1> HIDE DEF noted
<1> QED
  BY <1>1, <1>2, <1>3

\* The errors that come up in a step are noted, and the notes grow by more.
Notes(bad, more) ==
  /\ notes \cup more \subseteq notes'
  /\ notes' \subseteq notes \cup more \cup Hints \cup {"error"}
  /\ "error" \in notes' <=> "error" \in notes \/ bad

Going == status' \in {"running"} \cup Panics

\* A statement without statements in it.
LEMMA StatementWorks ==
  ASSUME Shape, NEW r, NEW exprs, NEW osl, NEW c,
         Outcome(r, WithTop(stack, More(Top, osl, c))), Noted(r, exprs, {})
  PROVE  \E bad \in BOOLEAN : Worked(bad) /\ Notes(bad, {}) /\ Going /\ (bad => status' = "running")
<1>1. Becomes(More(Top, osl, c), Top, FALSE)
  BY TopFrame, MoreBecomes
<1>2. stack' = WithTop(stack, More(Top, osl, c)) => Worked(FALSE)
  BY <1>1, WithTopWorks
<1>3. /\ notes \subseteq notes' /\ notes' \subseteq notes \cup Hints \cup {"error"}
      /\ "error" \in notes' <=> "error" \in notes \/ Failed(r)
  BY Noting
<1>4. Failed(r) => r.res \notin Panics /\ r.res # "ok"
  BY DEF Failed
<1>5. CASE r.res = "ok" /\ stack' = WithTop(stack, More(Top, osl, c)) /\ status' = "running"
  <2>1. Worked(FALSE) /\ Notes(FALSE, {})
    BY <1>2, <1>3, <1>4, <1>5 DEF Notes
  <2> QED
    BY <1>5, <2>1 DEF Going
<1>6. CASE Failed(r) /\ Worked(TRUE) /\ status' = "running"
  BY <1>3, <1>6 DEF Notes, Going
<1>7. CASE r.res \in Panics /\ Worked(FALSE) /\ status' \in Panics
  <2>1. Notes(FALSE, {})
    BY <1>3, <1>4, <1>7 DEF Notes
  <2> QED
    BY <1>7, <2>1 DEF Going
<1> QED
  BY <1>5, <1>6, <1>7, Outcomes

\* A construct that opens, or does not when its head does not translate.
LEMMA ConstructOpens ==
  ASSUME Shape, NEW r, NEW exprs, NEW fr, IsFrame(fr), NEW note, "error" \notin note,
         Outcome(r, Append(stack, fr)), Noted(r, exprs, note)
  PROVE  \/ r.res = "ok" /\ Opened(fr) /\ Notes(FALSE, note) /\ status' = "running"
         \/ r.res # "ok" /\ Worked(TRUE) /\ Notes(TRUE, note) /\ status' = "running"
         \/ r.res # "ok" /\ Worked(FALSE) /\ Notes(FALSE, note) /\ status' \in Panics
<1>1. stack' = Append(stack, fr) => Opened(fr)
  BY AppendOpens
<1>2. /\ notes \cup note \subseteq notes' /\ notes' \subseteq notes \cup note \cup Hints \cup {"error"}
      /\ "error" \in notes' <=> "error" \in notes \/ Failed(r)
  BY Noting
<1>3. Failed(r) => r.res \notin Panics /\ r.res # "ok"
  BY DEF Failed
<1>4. "ok" \notin Panics
  BY DEF Panics
<1>5. CASE r.res = "ok" /\ stack' = Append(stack, fr) /\ status' = "running"
  BY <1>1, <1>2, <1>3, <1>5 DEF Notes
<1>6. CASE Failed(r) /\ Worked(TRUE) /\ status' = "running"
  BY <1>2, <1>3, <1>6 DEF Notes
<1>7. CASE r.res \in Panics /\ Worked(FALSE) /\ status' \in Panics
  BY <1>2, <1>3, <1>4, <1>7 DEF Notes
<1> QED
  BY <1>5, <1>6, <1>7, Outcomes

\* The four statements that leave scopes alone.
Stated ==
  /\ UNCHANGED <<context, scopes>>
  /\ \E bad \in BOOLEAN, more \in SUBSET {"returnVoid"} :
       Worked(bad) /\ Notes(bad, more) /\ Going /\ (bad => status' = "running")

LEMMA StatementStated ==
  ASSUME Shape, status = "running",
         \/ ExpressionStatement
         \/ \E e \in Conds : Return(e)
         \/ ReturnVoid
         \/ Unsupported
  PROVE  Stated /\ InBody
<1>1. CASE ExpressionStatement
  <2>0. PICK e \in LegalIn(scopes, Exprs) :
          LET r == transpile_expression(e, context)
          IN  /\ Outcome(r, WithTop(stack, More(Top, Code(r), <<ExpressionC(e, Code(r))>>)))
              /\ Noted(r, {e}, {})
    BY <1>1 DEF ExpressionStatement
  <2> DEFINE r == transpile_expression(e, context)
  <2>1. /\ Outcome(r, WithTop(stack, More(Top, Code(r), <<ExpressionC(e, Code(r))>>)))
        /\ Noted(r, {e}, {}) /\ UNCHANGED <<context, scopes>> /\ InBody
    BY <1>1, <2>0 DEF ExpressionStatement
  <2> HIDE DEF r
  <2>2. \E bad \in BOOLEAN : Worked(bad) /\ Notes(bad, {}) /\ Going /\ (bad => status' = "running")
    BY <2>1, StatementWorks
  <2> QED
    BY <2>1, <2>2 DEF Stated
<1>2. ASSUME NEW e \in Conds, Return(e) PROVE Stated /\ InBody
  <2> DEFINE r == transpile_expression(e, context)
  <2>1. /\ Outcome(r, WithTop(stack, More(Top, <<val(r.exp)>>, <<CodeC("return", <<val(r.exp)>>)>>)))
        /\ Noted(r, {e}, {}) /\ UNCHANGED <<context, scopes>> /\ InBody
    BY <1>2 DEF Return
  <2> HIDE DEF r
  <2>2. \E bad \in BOOLEAN : Worked(bad) /\ Notes(bad, {}) /\ Going /\ (bad => status' = "running")
    BY <2>1, StatementWorks
  <2> QED
    BY <2>1, <2>2 DEF Stated
<1>3. CASE ReturnVoid
  <2>1. /\ stack' = WithTop(stack, More(Top, << >>, <<CodeC("return", << >>)>>))
        /\ notes' = notes \cup {"returnVoid"} /\ UNCHANGED <<context, status, scopes>> /\ InBody
    BY <1>3 DEF ReturnVoid
  <2>2. Worked(FALSE)
    BY <2>1, TopFrame, MoreBecomes, WithTopWorks
  <2>3. Notes(FALSE, {"returnVoid"}) /\ Going
    BY <2>1 DEF Notes, Going
  <2> QED
    BY <2>1, <2>2, <2>3 DEF Stated
<1>4. CASE Unsupported
  <2>1. /\ Outcome(Error, stack) /\ Noted(Error, {}, {}) /\ UNCHANGED <<context, scopes>> /\ InBody
    BY <1>4 DEF Unsupported
  <2>2. Failed(Error) /\ Error.res \notin Panics /\ Error.res # "ok"
    BY DEF Error, Fail, Failed, Panics
  <2>3. Worked(TRUE) /\ status' = "running"
    BY <2>1, <2>2, Outcomes
  <2>4. Notes(TRUE, {})
    BY <2>1, <2>2, Noting DEF Notes
  <2> QED
    BY <2>1, <2>3, <2>4 DEF Stated, Going
<1> QED
  BY <1>1, <1>2, <1>3, <1>4

-----------------------------------------------------------------------------
(* What each action does to the scopes of C and of the transpiler.         *)

\* The variables of a scope.
VarsIn(sc) == {x \in DOMAIN sc : sc[x].kind = "variable"}

LEMMA NoVars == VarsIn(<< >>) = {}
BY DEF VarsIn

LEMMA BoundVars ==
  ASSUME NEW f, NEW x, NEW v
  PROVE  /\ v.kind = "variable" => VarsIn(Bound(f, x, v)) = VarsIn(f) \cup {x}
         /\ v.kind # "variable" => VarsIn(Bound(f, x, v)) = VarsIn(f) \ {x}
         /\ Bound(f, x, v)[x] = v
         /\ \A y \in DOMAIN f \ {x} : Bound(f, x, v)[y] = f[y]
BY DEF VarsIn, Bound

LEMMA Creates ==
  ASSUME NEW c, IsContext(c)
  PROVE  LET d == create_new_scope(c)
         IN  /\ IsContext(d) /\ Len(d.scopes) = Len(c.scopes) + 1
             /\ \A k \in 1 .. Len(c.scopes) : d.scopes[k] = c.scopes[k]
             /\ d.scopes[Len(c.scopes) + 1] = << >>
<1> DEFINE d == create_new_scope(c)
<1>1. d.scopes = Append(c.scopes, << >>) /\ d = [scopes |-> d.scopes, types |-> d.types]
  BY DEF create_new_scope, IsContext
<1>2. /\ Listed(Append(c.scopes, << >>))
      /\ Len(Append(c.scopes, << >>)) = Len(c.scopes) + 1
      /\ \A i \in 1 .. Len(c.scopes) : Append(c.scopes, << >>)[i] = c.scopes[i]
      /\ Append(c.scopes, << >>)[Len(c.scopes) + 1] = << >>
  BY Pushed DEF IsContext
<1>3. Len(c.scopes) \in Nat /\ Len(c.scopes) > 0
  BY ListedLen DEF IsContext
<1> HIDE DEF d
<1>4. /\ IsContext(d) /\ Len(d.scopes) = Len(c.scopes) + 1
      /\ \A k \in 1 .. Len(c.scopes) : d.scopes[k] = c.scopes[k]
      /\ d.scopes[Len(c.scopes) + 1] = << >>
  BY <1>1, <1>2, <1>3 DEF IsContext
<1> QED
  BY <1>4 DEF d

LEMMA Pops ==
  ASSUME NEW c, IsContext(c), Len(c.scopes) > 1
  PROVE  LET d == pop_last_scope(c)
         IN  /\ IsContext(d) /\ Len(d.scopes) = Len(c.scopes) - 1
             /\ \A k \in 1 .. Len(c.scopes) - 1 : d.scopes[k] = c.scopes[k]
<1> DEFINE d == pop_last_scope(c)
           t == SubSeq(c.scopes, 1, Len(c.scopes) - 1)
<1>0. c = [scopes |-> c.scopes, types |-> c.types] /\ d = [c EXCEPT !.scopes = t]
  BY DEF pop_last_scope, IsContext
<1>1. d.scopes = t /\ d = [scopes |-> d.scopes, types |-> d.types]
  <2> HIDE DEF d, t
  <2> QED
    BY <1>0
<1>2. Len(c.scopes) \in Nat /\ Listed(c.scopes) /\ 1 \in 0 .. Len(c.scopes)
  BY ListedLen DEF IsContext
<1>3. /\ Listed(t) /\ Len(t) = Len(c.scopes) - 1
      /\ \A k \in 1 .. Len(c.scopes) - 1 : t[k] = c.scopes[k]
  BY <1>2, Popped
<1> HIDE DEF d, t
<1>4. /\ IsContext(d) /\ Len(d.scopes) = Len(c.scopes) - 1
      /\ \A k \in 1 .. Len(c.scopes) - 1 : d.scopes[k] = c.scopes[k]
  BY <1>1, <1>2, <1>3 DEF IsContext
<1> QED
  BY <1>4 DEF d

LEMMA Inserts ==
  ASSUME NEW c, IsContext(c), NEW x, NEW item
  PROVE  LET d == insert_in_last_scope(c, x, item)
         IN  /\ IsContext(d) /\ Len(d.scopes) = Len(c.scopes)
             /\ \A k \in 1 .. Len(c.scopes) - 1 : d.scopes[k] = c.scopes[k]
             /\ d.scopes[Len(c.scopes)] = Bound(c.scopes[Len(c.scopes)], x, item)
<1> DEFINE d == insert_in_last_scope(c, x, item)
           b == Bound(c.scopes[Len(c.scopes)], x, item)
           t == [c.scopes EXCEPT ![Len(c.scopes)] = b]
<1>1. d.scopes = t /\ d = [scopes |-> d.scopes, types |-> d.types]
  BY DEF insert_in_last_scope, IsContext
<1>2. Len(c.scopes) \in Nat /\ Listed(c.scopes) /\ Len(c.scopes) > 0
  BY ListedLen DEF IsContext
<1> HIDE DEF b
<1>3. /\ Listed(t) /\ Len(t) = Len(c.scopes)
      /\ \A k \in 1 .. Len(c.scopes) - 1 : t[k] = c.scopes[k]
      /\ t[Len(c.scopes)] = b
  BY <1>2, Excepted
<1> HIDE DEF d, t
<1>4. /\ IsContext(d) /\ Len(d.scopes) = Len(c.scopes)
      /\ \A k \in 1 .. Len(c.scopes) - 1 : d.scopes[k] = c.scopes[k]
      /\ d.scopes[Len(c.scopes)] = b
  BY <1>1, <1>2, <1>3 DEF IsContext
<1> QED
  BY <1>4 DEF d, b

LEMMA InScopes ==
  ASSUME NEW s, Listed(s), Len(s) > 0, NEW x, NEW item
  PROVE  LET t == InScope(s, x, item)
         IN  /\ Listed(t) /\ Len(t) = Len(s)
             /\ \A k \in 1 .. Len(s) - 1 : t[k] = s[k]
             /\ t[Len(s)] = Bound(s[Len(s)], x, item)
<1> DEFINE b == Bound(s[Len(s)], x, item)
           t == [s EXCEPT ![Len(s)] = b]
<1>1. InScope(s, x, item) = t
  BY DEF InScope
<1> HIDE DEF b
<1>2. /\ Listed(t) /\ Len(t) = Len(s)
      /\ \A k \in 1 .. Len(s) - 1 : t[k] = s[k]
      /\ t[Len(s)] = b
  BY Excepted
<1> HIDE DEF t
<1> QED
  BY <1>1, <1>2 DEF b

\* The last scope has the variables new besides those it had; it keeps the
\* items of the others.
Grown(sc, bc, new) ==
  /\ VarsIn(sc) = VarsIn(bc) \cup new
  /\ \A y \in VarsIn(bc) \ new : sc[y] = bc[y]

GrownLast(s, t, new) ==
  /\ Listed(t) /\ Len(t) = Len(s)
  /\ \A k \in 1 .. Len(s) - 1 : t[k] = s[k]
  /\ Grown(t[Len(s)], s[Len(s)], new)

LEMMA BoundGrows ==
  ASSUME NEW f, NEW x, NEW v, v.kind = "variable"
  PROVE  Grown(Bound(f, x, v), f, {x})
BY BoundVars DEF Grown, VarsIn

\* Variables come into the open scopes, the same in both when agree.
Declared(new, agree) ==
  /\ GrownLast(scopes, scopes', new)
  /\ VarsIn(scopes[Len(scopes)]) \cap new = {}
  /\ IsContext(context') /\ GrownLast(context.scopes, context'.scopes, new)
  /\ agree => \A x \in new :
       scopes'[Len(scopes)][x] = context'.scopes[Len(context.scopes)][x]

LEMMA Items ==
  /\ \A type \in VariableTypes : ItemOf(type).kind = "variable"
  /\ \A type \in ParameterTypes : ParameterOf(type).kind = "variable"
BY DEF VariableTypes, ParameterTypes, ItemOf, ParameterOf, Variable

\* One variable is declared.
LEMMA OneDeclared ==
  ASSUME Shape, NEW x, Fresh(x), NEW ci, NEW ti, ci.kind = "variable", ti.kind = "variable",
         scopes' = InScope(scopes, x, ci),
         NEW c, IsContext(c), c.scopes = context.scopes,
         context' = insert_in_last_scope(c, x, ti)
  PROVE  Declared({x}, ci = ti)
<1>1. Listed(scopes) /\ Len(scopes) > 0 /\ Len(scopes) \in Nat
  BY TopFrame DEF Shape
<1>2. /\ Listed(scopes') /\ Len(scopes') = Len(scopes)
      /\ \A k \in 1 .. Len(scopes) - 1 : scopes'[k] = scopes[k]
      /\ scopes'[Len(scopes)] = Bound(scopes[Len(scopes)], x, ci)
  BY <1>1, InScopes
<1>3. /\ IsContext(context') /\ Len(context'.scopes) = Len(context.scopes)
      /\ \A k \in 1 .. Len(context.scopes) - 1 : context'.scopes[k] = context.scopes[k]
      /\ context'.scopes[Len(context.scopes)] = Bound(context.scopes[Len(context.scopes)], x, ti)
  BY Inserts
<1>4. GrownLast(scopes, scopes', {x})
  BY <1>2, BoundGrows DEF GrownLast
<1>5. GrownLast(context.scopes, context'.scopes, {x})
  BY <1>3, BoundGrows DEF GrownLast, IsContext
<1>6. VarsIn(scopes[Len(scopes)]) \cap {x} = {}
  BY DEF Fresh, VarsIn
<1>7. ci = ti => scopes'[Len(scopes)][x] = context'.scopes[Len(context.scopes)][x]
  BY <1>2, <1>3, BoundVars
<1> QED
  BY <1>3, <1>4, <1>5, <1>6, <1>7 DEF Declared

DeclareNotes == {"tagOnly", "enumVariable", "untagged", "untaggedAgain"}

\* The three declarations of variables.
Declares ==
  /\ Top.kind # "switch"
  /\ \E new : \E agree, bad \in BOOLEAN : \E more \in SUBSET DeclareNotes :
       /\ Worked(bad) /\ Notes(bad, more) /\ Going /\ (bad => status' = "running")
       /\ Declared(new, agree) /\ (~agree => "tagOnly" \in more)

LEMMA VariableDeclares ==
  ASSUME Shape, status = "running", NEW v \in Variables, Declare(v.name, v.type, v.init)
  PROVE  Declares
<1> DEFINE x == v.name
           item == ItemOf(v.type)
           r == Declaration(x, v.type, v.init, context')
<1>1. /\ Fresh(x) /\ scopes' = InScope(scopes, x, item) /\ Top.kind # "switch"
      /\ context' = insert_in_last_scope(context, x, item)
  BY DEF Declare
<1>2. /\ Outcome(r, WithTop(stack, More(Top, Code(r), <<CodeC("declaration", Code(r))>>)))
      /\ Noted(r, Initialised(x, v.init), {})
  BY DEF Declare
<1> HIDE DEF r
<1>3. \E bad \in BOOLEAN : Worked(bad) /\ Notes(bad, {}) /\ Going /\ (bad => status' = "running")
  BY <1>2, StatementWorks
<1>4. item.kind = "variable"
  BY Items, TranspilerAssumption
<1>5. Declared({x}, TRUE)
  BY <1>1, <1>4, OneDeclared DEF Shape
<1>6. {} \in SUBSET DeclareNotes
  OBVIOUS
<1> QED
  BY <1>1, <1>3, <1>5, <1>6 DEF Declares

LEMMA StructDeclares ==
  ASSUME Shape, status = "running", NEW v \in Structs, DeclareStruct(v.tag, v.fields, v.name)
  PROVE  Declares
<1> DEFINE x == v.name
           props == get_props_of_struct_from_fields(v.fields)
           ci == Variable(MutOwner, tags'[v.tag])
           ti == Variable(MutOwner, props)
           c == [context EXCEPT !.types = Bound(@, v.tag, Struct(props))]
           more == IF v.fields = << >> THEN {"tagOnly"} ELSE {}
           code == <<CodeC("declaration", <<decl(x)>>)>>
<1>1. /\ Fresh(x) /\ scopes' = InScope(scopes, x, ci) /\ Top.kind # "switch"
      /\ context' = insert_in_last_scope(c, x, ti)
      /\ stack' = WithTop(stack, More(Top, <<decl(x)>>, code))
      /\ notes' = notes \cup more
      /\ UNCHANGED status
  BY DEF DeclareStruct
<1>2. v.fields # << >> => tags' = Bound(tags, v.tag, props)
  BY DEF DeclareStruct
<1> HIDE DEF props, code
<1>3. v.fields # << >> => tags'[v.tag] = props
  BY <1>2, BoundVars
<1>4. IsContext(c) /\ c.scopes = context.scopes
  BY DEF Shape, IsContext
<1>5. ci.kind = "variable" /\ ti.kind = "variable" /\ (v.fields # << >> => ci = ti)
  BY <1>3 DEF Variable
<1> HIDE DEF c, ci, ti
<1>6. Declared({x}, ci = ti)
  BY <1>1, <1>4, <1>5, OneDeclared
<1>7. Worked(FALSE)
  BY <1>1, TopFrame, MoreBecomes, WithTopWorks
<1>8. more \in SUBSET DeclareNotes /\ "error" \notin more /\ (ci # ti => "tagOnly" \in more)
  BY <1>5 DEF DeclareNotes
<1>9. Notes(FALSE, more) /\ Going
  BY <1>1, <1>8 DEF Notes, Going
<1>10. (ci = ti) \in BOOLEAN
  OBVIOUS
<1> QED
  BY <1>1, <1>6, <1>7, <1>8, <1>9, <1>10 DEF Declares

LEMMA EnumDeclares ==
  ASSUME Shape, status = "running", NEW v \in Enums, DefineEnum(v.tag, v.constants, v.name)
  PROVE  Declares
<1> DEFINE new == v.name
           item == ItemOf("enum")
           last == scopes[Len(scopes)]
           merged == [y \in v.constants \cup new \cup DOMAIN last |->
                        IF y \in v.constants THEN Enumerator ELSE IF y \in new THEN item ELSE last[y]]
           declared == Just(new, << >>, LAMBDA name : <<decl(name)>>)
           code == <<CodeC("declaration", declared)>>
           c == [context EXCEPT !.types = Bound(@, EnumKey(v.tag), Enum(v.constants))]
           more == IF new # {} THEN {"enumVariable"} ELSE
                   IF v.tag # {} THEN {} ELSE
                   IF "untagged" \in notes THEN {"untaggedAgain"} ELSE {"untagged"}
<1>1. /\ Top.kind # "switch" /\ \A x \in v.constants \cup new : Fresh(x)
      /\ scopes' = [scopes EXCEPT ![Len(scopes)] = merged]
      /\ stack' = WithTop(stack, More(Top, declared, code))
      /\ notes' = notes \cup more
      /\ UNCHANGED status
  BY DEF DefineEnum
<1>2. new = {} => context' = c
  BY DEF DefineEnum, Just
<1>3. new # {} => context' = insert_in_last_scope(context, CHOOSE x \in new : TRUE, item)
  BY DEF DefineEnum, Just
<1> HIDE DEF declared, code
<1>4. Worked(FALSE)
  BY <1>1, TopFrame, MoreBecomes, WithTopWorks
<1>5. more \in SUBSET DeclareNotes /\ "error" \notin more
  BY DEF DeclareNotes
<1>6. Notes(FALSE, more) /\ Going
  BY <1>1, <1>5 DEF Notes, Going
<1> HIDE DEF more
<1>7. item.kind = "variable" /\ Enumerator.kind = "enumerator"
  BY Items DEF VariableTypes, Enumerator
<1>8. v.constants \cap new = {} /\ \A x, y \in new : x = y
  BY TranspilerAssumption
<1> HIDE DEF item
<1>9. /\ DOMAIN merged = v.constants \cup new \cup DOMAIN last
      /\ \A x \in v.constants : merged[x] = Enumerator
      /\ \A x \in new : merged[x] = item
      /\ \A x \in DOMAIN last \ (v.constants \cup new) : merged[x] = last[x]
  BY <1>8
<1>10. (v.constants \cup new) \cap DOMAIN last = {}
  BY <1>1 DEF Fresh
<1> HIDE DEF merged, last
<1>11. Grown(merged, last, new) /\ VarsIn(last) \cap new = {}
  <2>1. VarsIn(merged) = VarsIn(last) \cup new
    BY <1>7, <1>9, <1>10 DEF VarsIn
  <2>2. VarsIn(last) \subseteq DOMAIN last
    BY DEF VarsIn
  <2> QED
    BY <2>1, <2>2, <1>9, <1>10 DEF Grown
<1>12. Listed(scopes) /\ Len(scopes) > 0 /\ Len(scopes) \in Nat
  BY TopFrame DEF Shape
<1>13. /\ Listed(scopes') /\ Len(scopes') = Len(scopes)
       /\ \A k \in 1 .. Len(scopes) - 1 : scopes'[k] = scopes[k]
       /\ scopes'[Len(scopes)] = merged
  <2> DEFINE t == [scopes EXCEPT ![Len(scopes)] = merged]
  <2>1. /\ Listed(t) /\ Len(t) = Len(scopes)
        /\ \A k \in 1 .. Len(scopes) - 1 : t[k] = scopes[k]
        /\ t[Len(scopes)] = merged
    BY <1>12, Excepted
  <2>2. scopes' = t
    BY <1>1
  <2> QED
    BY <2>1, <2>2
<1>14. GrownLast(scopes, scopes', new) /\ VarsIn(scopes[Len(scopes)]) \cap new = {}
  <2>1. scopes'[Len(scopes)] = merged /\ last = scopes[Len(scopes)]
    BY <1>13 DEF last
  <2>2. Grown(scopes'[Len(scopes)], scopes[Len(scopes)], new)
    BY <1>11, <2>1
  <2>3. VarsIn(scopes[Len(scopes)]) \cap new = {}
    BY <1>11, <2>1
  <2> QED
    BY <1>13, <2>2, <2>3 DEF GrownLast
<1>15. CASE new = {}
  <2>1. IsContext(context') /\ context'.scopes = context.scopes
    BY <1>2, <1>15 DEF Shape, IsContext
  <2>2. GrownLast(context.scopes, context'.scopes, new)
    BY <1>15, <2>1 DEF GrownLast, Grown, IsContext
  <2>3. Declared(new, TRUE)
    BY <1>14, <1>15, <2>1, <2>2 DEF Declared
  <2> QED
    BY <1>1, <1>4, <1>5, <1>6, <2>3 DEF Declares
<1>16. CASE new # {}
  <2> DEFINE x == CHOOSE y \in new : TRUE
  <2>1. new = {x}
    BY <1>8, <1>16
  <2>2. context' = insert_in_last_scope(context, x, item)
    BY <1>3, <1>16
  <2> HIDE DEF x
  <2>3. /\ IsContext(context') /\ Len(context'.scopes) = Len(context.scopes)
        /\ \A k \in 1 .. Len(context.scopes) - 1 : context'.scopes[k] = context.scopes[k]
        /\ context'.scopes[Len(context.scopes)] = Bound(context.scopes[Len(context.scopes)], x, item)
    BY <2>2, Inserts DEF Shape
  <2>4. GrownLast(context.scopes, context'.scopes, {x})
    BY <1>7, <2>3, BoundGrows DEF GrownLast, IsContext
  <2>5. scopes'[Len(scopes)][x] = context'.scopes[Len(context.scopes)][x]
    BY <1>9, <1>13, <2>1, <2>3, BoundVars
  <2>6. Declared(new, TRUE)
    BY <1>14, <2>1, <2>3, <2>4, <2>5 DEF Declared
  <2> QED
    BY <1>1, <1>4, <1>5, <1>6, <2>6 DEF Declares
<1> QED
  BY <1>15, <1>16

-----------------------------------------------------------------------------
(* Constructs that open.                                                   *)

OpenNotes == {"block", "while", "do", "for", "switch", "ahead"}

\* Without a scope of its own in the transpiler.
OpensPlain ==
  \E fr : \E more \in SUBSET OpenNotes :
    /\ Opened(fr) /\ fr.ok /\ fr.headOk /\ Notes(FALSE, more) /\ status' = "running"
    /\ fr.kind \in {"block", "unsafe", "switch", "case"} /\ Top.kind # "unit"
    /\ fr.kind \in {"block", "unsafe"} => "block" \in more
    /\ fr.kind = "switch" => "switch" \in more
    /\ fr.kind = "case" => Top.kind = "switch"
    /\ scopes' = Append(scopes, << >>) /\ context' = context

\* With one.
OpensScoped ==
  \E fr : \E more \in SUBSET OpenNotes, bad \in BOOLEAN :
    /\ Opened(fr) /\ fr.ok /\ Notes(bad, more)
    /\ Going /\ (status' = "running" => (bad <=> ~fr.headOk))
    /\ fr.kind \in {"while", "do", "if"} /\ InBody
    /\ scopes' = Append(scopes, << >>) /\ context' = create_new_scope(context)

\* A header with a declaration.
OpensFor ==
  \E fr, x, item : \E more \in SUBSET OpenNotes :
    /\ Opened(fr) /\ fr.ok /\ fr.headOk /\ Notes(FALSE, more) /\ status' = "running"
    /\ fr.kind = "for" /\ InBody /\ item.kind = "variable"
    /\ scopes' = Append(InScope(Append(scopes, << >>), x, item), << >>)
    /\ context' = insert_in_last_scope(create_new_scope(context), x, item)

\* A head that does not translate; a scope may be left.
OpensNothing ==
  \E bad \in BOOLEAN : \E more \in SUBSET OpenNotes :
    /\ Worked(bad) /\ Notes(bad, more) /\ InBody
    /\ IF bad THEN status' = "running" ELSE status' \in Panics
    /\ UNCHANGED scopes
    /\ \/ context' = context
       \/ context' = create_new_scope(context)
       \/ \E x, item : /\ item.kind = "variable"
                       /\ context' = insert_in_last_scope(create_new_scope(context), x, item)

LEMMA NotInUnit == InBody <=> Top.kind # "unit" /\ Top.kind # "switch"
BY DEF InBody

LEMMA BlockOpens ==
  ASSUME Shape, status = "running", NEW kind, OpenBlock(kind)
  PROVE  OpensPlain
<1> DEFINE fr == Frame(kind, << >>, << >>)
<1>1. /\ kind \in {"block", "unsafe"} /\ InBody /\ stack' = Append(stack, fr)
      /\ scopes' = Append(scopes, << >>) /\ notes' = notes \cup {"block"}
      /\ UNCHANGED <<context, status>>
  BY DEF OpenBlock, Enter
<1>2. IsFrame(fr) /\ fr.kind = kind /\ fr.ok = TRUE /\ fr.headOk = TRUE
  BY NewFrame
<1> HIDE DEF fr
<1>3. Opened(fr)
  BY <1>1, <1>2, AppendOpens
<1>4. Notes(FALSE, {"block"}) /\ {"block"} \in SUBSET OpenNotes
  BY <1>1 DEF Notes, OpenNotes
<1> QED
  BY <1>1, <1>2, <1>3, <1>4, NotInUnit DEF OpensPlain

LEMMA CaseOpens ==
  ASSUME Shape, status = "running", OpenCase
  PROVE  OpensPlain
<1> DEFINE fr == Frame("case", << >>, << >>)
<1>1. /\ Top.kind = "switch" /\ stack' = Append(stack, fr)
      /\ scopes' = Append(scopes, << >>) /\ UNCHANGED <<context, status, notes>>
  BY DEF OpenCase, Enter
<1>2. IsFrame(fr) /\ fr.kind = "case" /\ fr.ok = TRUE /\ fr.headOk = TRUE
  BY NewFrame
<1> HIDE DEF fr
<1>3. Opened(fr)
  BY <1>1, <1>2, AppendOpens
<1>4. Notes(FALSE, {}) /\ {} \in SUBSET OpenNotes
  BY <1>1 DEF Notes, OpenNotes
<1> QED
  BY <1>1, <1>2, <1>3, <1>4 DEF OpensPlain

LEMMA SwitchOpens ==
  ASSUME Shape, status = "running", NEW e, OpenSwitch(e)
  PROVE  (OpensPlain \/ OpensNothing) /\ "switch" \in notes'
<1> DEFINE r == transpile_expression(e, context)
           fr == Frame("switch", Code(r), << >>)
<1>1. /\ InBody /\ Outcome(r, Append(stack, fr)) /\ Noted(r, {e}, {"switch"})
      /\ scopes' = IF r.res = "ok" THEN Append(scopes, << >>) ELSE scopes
      /\ context' = context
  BY DEF OpenSwitch, Opening
<1> HIDE DEF r
<1>2. IsFrame(fr) /\ fr.kind = "switch" /\ fr.ok = TRUE /\ fr.headOk = TRUE
  BY NewFrame
<1> HIDE DEF fr
<1>3. {"switch"} \in SUBSET OpenNotes /\ "error" \notin {"switch"}
  BY DEF OpenNotes
<1>4. \/ r.res = "ok" /\ Opened(fr) /\ Notes(FALSE, {"switch"}) /\ status' = "running"
      \/ r.res # "ok" /\ Worked(TRUE) /\ Notes(TRUE, {"switch"}) /\ status' = "running"
      \/ r.res # "ok" /\ Worked(FALSE) /\ Notes(FALSE, {"switch"}) /\ status' \in Panics
  BY <1>1, <1>2, <1>3, ConstructOpens
<1>5. "switch" \in notes'
  BY <1>4 DEF Notes
<1>6. CASE r.res = "ok"
  <2>1. Opened(fr) /\ Notes(FALSE, {"switch"}) /\ status' = "running" /\ scopes' = Append(scopes, << >>)
    BY <1>1, <1>4, <1>6
  <2> QED
    BY <1>1, <1>2, <1>3, <1>5, <2>1, NotInUnit DEF OpensPlain
<1>7. CASE r.res # "ok"
  <2>1. UNCHANGED scopes
    BY <1>1, <1>7
  <2>2. PICK bad \in BOOLEAN : /\ Worked(bad) /\ Notes(bad, {"switch"})
                               /\ IF bad THEN status' = "running" ELSE status' \in Panics
    BY <1>4, <1>7
  <2> QED
    BY <1>1, <1>3, <1>5, <2>1, <2>2 DEF OpensNothing
<1> QED
  BY <1>6, <1>7

LEMMA LoopOpens ==
  ASSUME Shape, status = "running", NEW kind, NEW e, OpenLoop(kind, e)
  PROVE  OpensScoped \/ OpensNothing
<1> DEFINE r == transpile_condition_expression(e, context')
           head == IF kind = "while" THEN Code(r) ELSE << >>
           fr == Frame(kind, head, Code(r))
<1>1. /\ InBody /\ kind \in {"while", "do"}
      /\ Outcome(r, Append(stack, fr)) /\ Noted(r, {e}, {kind})
      /\ scopes' = IF r.res = "ok" THEN Append(scopes, << >>) ELSE scopes
      /\ context' = create_new_scope(context)
  BY DEF OpenLoop, Opening
<1> HIDE DEF r, head
<1>2. IsFrame(fr) /\ fr.kind = kind /\ fr.ok = TRUE /\ fr.headOk = TRUE
  BY NewFrame
<1> HIDE DEF fr
<1>3. {kind} \in SUBSET OpenNotes /\ "error" \notin {kind}
  BY <1>1 DEF OpenNotes
<1>4. \/ r.res = "ok" /\ Opened(fr) /\ Notes(FALSE, {kind}) /\ status' = "running"
      \/ r.res # "ok" /\ Worked(TRUE) /\ Notes(TRUE, {kind}) /\ status' = "running"
      \/ r.res # "ok" /\ Worked(FALSE) /\ Notes(FALSE, {kind}) /\ status' \in Panics
  BY <1>1, <1>2, <1>3, ConstructOpens
<1>5. CASE r.res = "ok"
  <2>1. Opened(fr) /\ Notes(FALSE, {kind}) /\ status' = "running" /\ scopes' = Append(scopes, << >>)
    BY <1>1, <1>4, <1>5
  <2> QED
    BY <1>1, <1>2, <1>3, <2>1 DEF OpensScoped, Going
<1>6. CASE r.res # "ok"
  <2>1. UNCHANGED scopes
    BY <1>1, <1>6
  <2>2. PICK bad \in BOOLEAN : /\ Worked(bad) /\ Notes(bad, {kind})
                               /\ IF bad THEN status' = "running" ELSE status' \in Panics
    BY <1>4, <1>6
  <2> QED
    BY <1>1, <1>3, <2>1, <2>2 DEF OpensNothing
<1> QED
  BY <1>5, <1>6

LEMMA IfOpens ==
  ASSUME Shape, status = "running", NEW e, OpenIf(e)
  PROVE  OpensScoped
<1> DEFINE r == transpile_condition_expression(e, context')
           f0 == Frame("if", Code(r), << >>)
           fr == [f0 EXCEPT !.headOk = r.res = "ok"]
<1>1. /\ InBody /\ stack' = Append(stack, fr) /\ Noted(r, {e}, {})
      /\ status' = IF r.res \in Panics THEN r.res ELSE "running"
      /\ scopes' = Append(scopes, << >>)
      /\ context' = create_new_scope(context)
  BY DEF OpenIf, Enter
<1> HIDE DEF r
<1>2. IsFrame(f0) /\ f0.kind = "if" /\ f0.ok = TRUE
  BY NewFrame
<1> HIDE DEF f0
<1>3. IsFrame(fr) /\ fr.kind = "if" /\ fr.ok = TRUE /\ (fr.headOk <=> r.res = "ok")
  BY <1>2 DEF IsFrame, Fields
<1> HIDE DEF fr
<1>4. Opened(fr)
  BY <1>1, <1>3, AppendOpens
<1>5. Notes(Failed(r), {}) /\ {} \in SUBSET OpenNotes
  <2>1. /\ notes \subseteq notes' /\ notes' \subseteq notes \cup Hints \cup {"error"}
        /\ "error" \in notes' <=> "error" \in notes \/ Failed(r)
    BY <1>1, Noting
  <2> QED
    BY <2>1 DEF Notes
<1>6. Going /\ (status' = "running" => (Failed(r) <=> ~fr.headOk)) /\ Failed(r) \in BOOLEAN
  BY <1>1, <1>3 DEF Going, Failed, Panics
<1> QED
  BY <1>1, <1>3, <1>4, <1>5, <1>6 DEF OpensScoped

LEMMA ForOpens ==
  ASSUME Shape, status = "running", NEW h \in Headers,
         OpenFor(h.name, h.type, h.init, h.cond, h.step)
  PROVE  OpensFor \/ OpensNothing
<1> DEFINE x == h.name
           item == ItemOf(h.type)
           inner == InScope(Append(scopes, << >>), x, item)
           opened == create_new_scope(context)
           inside == insert_in_last_scope(opened, x, item)
           condition == transpile_condition_expression(h.cond, opened)
           rs == <<condition, Declaration(x, h.type, h.init, inside),
                   transpile_expression(h.step, inside)>>
           r == All(rs, LAMBDA ok : ok[1])
           fr == Frame("for", Code(rs[2]) \o Code(rs[1]), Code(rs[3]) \o Code(rs[1]))
           exprs == Initialised(x, h.init) \cup {h.cond, h.step}
           note == {"for"} \cup (IF condition.res \in Panics /\ AddressWith(x, h.cond)
                                   THEN {"ahead"} ELSE {})
<1>1. /\ InBody
      /\ Outcome(r, Append(stack, fr)) /\ Noted(r, exprs, note)
      /\ scopes' = IF r.res = "ok" THEN Append(inner, << >>) ELSE scopes
      /\ context' = IF condition.res = "ok" THEN inside ELSE opened
  BY DEF OpenFor, Opening, ForFrame
<1>2. r.res = "ok" => condition.res = "ok"
  <2> DEFINE bad == {n \in DOMAIN rs : rs[n].res # "ok"}
  <2>1. 1 \in DOMAIN rs /\ rs[1] = condition
    OBVIOUS
  <2>2. r = IF bad = {} THEN rs[1] ELSE rs[Min(bad)]
    BY DEF All
  <2>3. CASE bad = {}
    BY <2>1, <2>3
  <2>4. CASE bad # {} /\ 1 \in bad
    <3>1. \A y \in bad : y \in Int /\ 1 <= y
      OBVIOUS
    <3>2. Min(bad) = 1
      <4> HIDE DEF bad
      <4>1. \A z \in bad : (\A y \in bad : z <= y) => z = 1
        BY <2>4, <3>1
      <4> QED
        BY <2>4, <3>1, <4>1 DEF Min
    <3>3. rs[1].res # "ok"
      BY <2>4
    <3> QED
      BY <2>2, <2>4, <3>2, <3>3
  <2>5. CASE 1 \notin bad
    BY <2>1, <2>5
  <2> QED
    BY <2>3, <2>4, <2>5
<1> HIDE DEF r, condition, rs
<1>3. item.kind = "variable"
  BY Items, TranspilerAssumption
<1>4. IsFrame(fr) /\ fr.kind = "for" /\ fr.ok = TRUE /\ fr.headOk = TRUE
  BY NewFrame
<1> HIDE DEF fr
<1>5. note \in SUBSET OpenNotes /\ "error" \notin note
  BY DEF OpenNotes
<1> HIDE DEF exprs, note
<1>6. \/ r.res = "ok" /\ Opened(fr) /\ Notes(FALSE, note) /\ status' = "running"
      \/ r.res # "ok" /\ Worked(TRUE) /\ Notes(TRUE, note) /\ status' = "running"
      \/ r.res # "ok" /\ Worked(FALSE) /\ Notes(FALSE, note) /\ status' \in Panics
  BY <1>1, <1>4, <1>5, ConstructOpens
<1>7. CASE r.res = "ok"
  <2>1. Opened(fr) /\ Notes(FALSE, note) /\ status' = "running"
        /\ scopes' = Append(inner, << >>) /\ context' = inside
    BY <1>1, <1>2, <1>6, <1>7
  <2> QED
    BY <1>1, <1>3, <1>4, <1>5, <2>1 DEF OpensFor
<1>8. CASE r.res # "ok"
  <2>1. UNCHANGED scopes /\ (context' = opened \/ context' = inside)
    BY <1>1, <1>8
  <2>2. PICK bad \in BOOLEAN : /\ Worked(bad) /\ Notes(bad, note)
                               /\ IF bad THEN status' = "running" ELSE status' \in Panics
    BY <1>6, <1>8
  <2> QED
    BY <1>1, <1>3, <1>5, <2>1, <2>2 DEF OpensNothing
<1> QED
  BY <1>7, <1>8

-----------------------------------------------------------------------------
(* Functions, elses, and constructs that close.                            *)

Width(fr) == IF fr.kind = "for" THEN 2 ELSE 1

\* A function opens, with a scope for its parameters.
OpensFunction ==
  \E fr, item, items :
    /\ Top.kind = "unit"
    /\ Opened(fr) /\ fr.ok /\ fr.headOk /\ fr.kind = "function"
    /\ UNCHANGED <<status, notes>>
    /\ fr.name \notin DOMAIN scopes[1] /\ item.kind = "function"
    /\ VarsIn(items) = DOMAIN items
    /\ scopes' = Append(InScope(scopes, fr.name, item), items)
    /\ context' = [context EXCEPT !.scopes = Append(@, items)]

LEMMA FunctionOpens ==
  ASSUME Shape, NEW f \in Functions, OpenFunction(f.name, f.params)
  PROVE  OpensFunction
<1> DEFINE params == f.params
           names == {params[n].name : n \in DOMAIN params}
           items == [x \in names |-> ParameterOf((CHOOSE p \in ToSet(params) : p.name = x).type)]
           f0 == Frame("function", << >>, << >>)
           fr == [f0 EXCEPT !.name = f.name, !.params = params]
           item == Function(Mutabilities(params))
<1>1. /\ Top.kind = "unit" /\ f.name \notin DOMAIN scopes[1]
      /\ context' = [context EXCEPT !.scopes = Append(@, items)]
      /\ stack' = Append(stack, fr)
      /\ scopes' = Append(InScope(scopes, f.name, item), items)
      /\ UNCHANGED <<status, notes>>
  BY DEF OpenFunction
<1>2. item.kind = "function"
  BY DEF Function
<1> HIDE DEF item
<1>3. VarsIn(items) = DOMAIN items
  <2> SUFFICES ASSUME NEW x \in names PROVE items[x].kind = "variable"
    BY DEF VarsIn
  <2> DEFINE p == CHOOSE p \in ToSet(params) : p.name = x
  <2>1. \E q \in ToSet(params) : q.name = x
    BY DEF ToSet
  <2>2. p \in ToSet(params)
    BY <2>1
  <2>3. p.type \in ParameterTypes
    BY <2>2, TranspilerAssumption DEF ToSet
  <2>4. items[x] = ParameterOf(p.type)
    OBVIOUS
  <2> HIDE DEF p, items
  <2> QED
    BY <2>3, <2>4, Items
<1> HIDE DEF items
<1>4. IsFrame(f0) /\ f0.kind = "function" /\ f0.ok = TRUE /\ f0.headOk = TRUE
  BY NewFrame
<1> HIDE DEF f0
<1>5. IsFrame(fr) /\ fr.kind = "function" /\ fr.ok /\ fr.headOk /\ fr.name = f.name
  BY <1>4 DEF IsFrame, Fields
<1> HIDE DEF fr
<1>6. Opened(fr)
  BY <1>1, <1>5, AppendOpens
<1> QED
  BY <1>1, <1>2, <1>3, <1>5, <1>6 DEF OpensFunction

\* An if goes on with its other block.
Switches ==
  /\ Top.kind = "if"
  /\ Listed(stack') /\ Len(stack') = Len(stack)
  /\ \A i \in 1 .. Len(stack) - 1 : stack'[i] = stack[i]
  /\ LET new == stack'[Len(stack)]
     IN  IsFrame(new) /\ new.kind = "else" /\ new.ok = Top.ok /\ new.headOk = Top.headOk
  /\ scopes' = Append(SubSeq(scopes, 1, Len(scopes) - 1), << >>)
  /\ notes' = notes \cup {"else"}
  /\ UNCHANGED <<context, status>>

LEMMA ElseSwitches ==
  ASSUME Shape, Else
  PROVE  Switches
<1> DEFINE fr == [Top EXCEPT !.kind = "else", !.first = @ \o Top.out, !.out = << >>,
                             !.first_src = @ \o Top.src, !.src = << >>]
<1>1. /\ Top.kind = "if" /\ stack' = WithTop(stack, fr)
      /\ scopes' = Append(SubSeq(scopes, 1, Len(scopes) - 1), << >>)
      /\ notes' = notes \cup {"else"}
      /\ UNCHANGED <<context, status>>
  BY DEF Else
<1>2. IsFrame(fr) /\ fr.kind = "else" /\ fr.ok = Top.ok /\ fr.headOk = Top.headOk
  BY TopFrame DEF IsFrame, Fields
<1> HIDE DEF fr
<1>3. /\ Listed(stack') /\ Len(stack') = Len(stack)
      /\ \A i \in 1 .. Len(stack) - 1 : stack'[i] = stack[i]
      /\ stack'[Len(stack)] = fr
  BY <1>1, Replaced DEF Shape
<1> QED
  BY <1>1, <1>2, <1>3 DEF Switches

\* A construct, a case or a function is left.
Leaves(bad) ==
  /\ Dropped(bad) /\ UNCHANGED status
  /\ notes \subseteq notes' /\ notes' \subseteq notes \cup {"oneBlock", "closed"}
  /\ scopes' = SubSeq(scopes, 1, Len(scopes) - Width(Top))

LeavesConstruct ==
  /\ Leaves(~Translated(Top)) /\ Top.kind \notin {"unit", "function", "case"}
  /\ context' = IF OwnsScope(Top) /\ Top.ok THEN pop_last_scope(context) ELSE context

LeavesCase == Leaves(FALSE) /\ Top.kind = "case" /\ UNCHANGED context

LeavesFunction ==
  /\ Leaves(~Top.ok) /\ Top.kind = "function" /\ "closed" \in notes'
  /\ \E item : /\ item.kind = "function"
               /\ context' = IF Top.ok THEN insert_in_last_scope(context, Top.name, item)
                                       ELSE context

LEMMA Deep ==
  ASSUME Shape, Top.kind # "unit"
  PROVE  Len(stack) > 1
BY TopFrame DEF Shape, Nested

LEMMA ConstructLeft ==
  ASSUME Shape, Close
  PROVE  LeavesConstruct
<1> DEFINE parent == Below[Len(Below)]
           fr == IF Translated(Top) THEN More(parent, Closed(Top), <<ClosedC(Top)>>) ELSE Bad(parent)
<1>1. /\ Top.kind \notin {"unit", "function", "case"} /\ stack' = WithTop(Below, fr)
      /\ context' = IF OwnsScope(Top) /\ Top.ok THEN pop_last_scope(context) ELSE context
      /\ scopes' = SubSeq(scopes, 1, Len(scopes) - (IF Top.kind = "for" THEN 2 ELSE 1))
      /\ notes' = IF OneBlock(Top) THEN notes \cup {"oneBlock"} ELSE notes
      /\ UNCHANGED status
  BY DEF Close, Left
<1>2. Len(stack) > 1
  BY <1>1, Deep
<1>3. parent = stack[Len(stack) - 1] /\ IsFrame(parent)
  BY <1>2, BelowLast
<1> HIDE DEF parent
<1>4. Becomes(fr, parent, ~Translated(Top))
  BY <1>3, MoreBecomes, BadBecomes DEF Becomes
<1> HIDE DEF fr
<1>5. Dropped(~Translated(Top))
  BY <1>1, <1>2, <1>3, <1>4, BelowDrops
<1> QED
  BY <1>1, <1>5 DEF LeavesConstruct, Leaves, Width

LEMMA CaseLeft ==
  ASSUME Shape, CloseCase
  PROVE  LeavesCase
<1> DEFINE parent == Below[Len(Below)]
           fr == IF Top.ok /\ Top.out # << >> THEN [parent EXCEPT !.first = Append(@, Top.out)]
                                              ELSE parent
<1>1. /\ Top.kind = "case" /\ stack' = WithTop(Below, fr)
      /\ scopes' = SubSeq(scopes, 1, Len(scopes) - 1)
      /\ UNCHANGED <<context, status, notes>>
  BY DEF CloseCase, Left
<1>2. Len(stack) > 1
  BY <1>1, Deep
<1>3. parent = stack[Len(stack) - 1] /\ IsFrame(parent)
  BY <1>2, BelowLast
<1> HIDE DEF parent
<1>4. Becomes(fr, parent, FALSE)
  BY <1>3 DEF Becomes, IsFrame, Fields
<1> HIDE DEF fr
<1>5. Dropped(FALSE)
  BY <1>1, <1>2, <1>3, <1>4, BelowDrops
<1> QED
  BY <1>1, <1>5 DEF LeavesCase, Leaves, Width

LEMMA FunctionLeft ==
  ASSUME Shape, CloseFunction
  PROVE  LeavesFunction
<1> DEFINE parent == Below[Len(Below)]
           code == <<fn(Top.name, Top.params, Top.out)>>
           c == <<C("function", << >>, Top.src, << >>, << >>)>>
           fr == IF Top.ok THEN More(parent, code, c) ELSE Bad(parent)
           item == Function(Mutabilities(Top.params))
<1>1. /\ Top.kind = "function" /\ stack' = WithTop(Below, fr)
      /\ context' = IF Top.ok THEN insert_in_last_scope(context, Top.name, item) ELSE context
      /\ scopes' = SubSeq(scopes, 1, Len(scopes) - 1)
      /\ notes' = notes \cup {"closed"}
      /\ UNCHANGED status
  BY DEF CloseFunction, Left
<1>2. item.kind = "function"
  BY DEF Function
<1> HIDE DEF item, code, c
<1>3. Len(stack) > 1
  BY <1>1, Deep
<1>4. parent = stack[Len(stack) - 1] /\ IsFrame(parent)
  BY <1>3, BelowLast
<1> HIDE DEF parent
<1>5. Becomes(fr, parent, ~Top.ok)
  BY <1>4, MoreBecomes, BadBecomes DEF Becomes
<1> HIDE DEF fr
<1>6. Dropped(~Top.ok)
  BY <1>1, <1>3, <1>4, <1>5, BelowDrops
<1> QED
  BY <1>1, <1>2, <1>6 DEF LeavesFunction, Leaves, Width

\* A statement of a switch without a label.
Skips ==
  /\ Top.kind = "switch" /\ UNCHANGED <<context, stack, status, scopes>>
  /\ Notes(TRUE, {})

LEMMA UnlabelledSkips ==
  ASSUME Shape, NEW e, Unlabelled(e)
  PROVE  Skips
<1>1. Failed(Error)
  BY DEF Error, Fail, Failed, Panics
<1>2. Noted(Error, {}, {}) /\ Top.kind = "switch" /\ UNCHANGED <<context, stack, status, scopes>>
  BY DEF Unlabelled
<1>3. Notes(TRUE, {})
  BY <1>1, <1>2, Noting DEF Notes
<1> QED
  BY <1>2, <1>3 DEF Skips

\* The end of the unit.
Ends ==
  /\ Top.kind = "unit" /\ Worked(FALSE)
  /\ status' = IF Top.ok THEN "done" ELSE "failed"
  /\ UNCHANGED <<context, scopes, notes>>

LEMMA UnitEnds ==
  ASSUME Shape, CloseUnit
  PROVE  Ends
<1> DEFINE code == IF Top.ok THEN <<call("main", << >>)>> ELSE << >>
<1>1. /\ Top.kind = "unit" /\ stack' = WithTop(stack, More(Top, code, << >>))
      /\ status' = IF Top.ok THEN "done" ELSE "failed"
      /\ UNCHANGED <<context, scopes, notes>>
  BY DEF CloseUnit
<1> HIDE DEF code
<1>2. Worked(FALSE)
  BY <1>1, TopFrame, MoreBecomes, WithTopWorks
<1> QED
  BY <1>1, <1>2 DEF Ends

-----------------------------------------------------------------------------
(* Every step is one of these.                                             *)

Step ==
  /\ status = "running"
  /\ \/ Stated /\ InBody
     \/ Declares
     \/ OpensPlain
     \/ OpensScoped
     \/ OpensFor
     \/ OpensFunction
     \/ OpensNothing
     \/ Switches
     \/ Skips
     \/ LeavesConstruct
     \/ LeavesCase
     \/ LeavesFunction
     \/ Ends

LEMMA Steps ==
  ASSUME Shape, Next
  PROVE  Step
<1>1. status = "running"
  BY DEF Next, ExpressionStatement, ReturnVoid, Unsupported, Declare, DeclareStruct, DefineEnum,
         OpenBlock, OpenLoop, OpenFor, OpenIf, OpenSwitch, Return, Unlabelled, Else, OpenCase,
         Close, CloseCase, OpenFunction, CloseFunction, CloseUnit, Form
<1>2. CASE ExpressionStatement \/ ReturnVoid \/ Unsupported \/ (\E e \in Conds : Return(e))
  BY <1>1, <1>2, StatementStated DEF Step
<1>3. CASE \/ \E v \in Variables : Declare(v.name, v.type, v.init)
           \/ \E v \in Structs : DeclareStruct(v.tag, v.fields, v.name)
           \/ \E v \in Enums : DefineEnum(v.tag, v.constants, v.name)
  BY <1>1, <1>3, VariableDeclares, StructDeclares, EnumDeclares DEF Step
<1>4. CASE (\E kind \in {"block", "unsafe"} : OpenBlock(kind)) \/ OpenCase
  BY <1>1, <1>4, BlockOpens, CaseOpens DEF Step
<1>5. CASE \/ \E kind \in {"while", "do"}, e \in Conds : OpenLoop(kind, e)
           \/ \E h \in Headers : OpenFor(h.name, h.type, h.init, h.cond, h.step)
           \/ \E e \in Conds : OpenIf(e) \/ OpenSwitch(e)
  BY <1>1, <1>5, LoopOpens, ForOpens, IfOpens, SwitchOpens DEF Step
<1>6. CASE (\E e \in Conds : Unlabelled(e)) \/ Else
  BY <1>1, <1>6, UnlabelledSkips, ElseSwitches DEF Step
<1>7. CASE Close \/ CloseCase \/ CloseFunction \/ CloseUnit
  BY <1>1, <1>7, ConstructLeft, CaseLeft, FunctionLeft, UnitEnds DEF Step
<1>8. CASE \E f \in Functions : OpenFunction(f.name, f.params)
  BY <1>1, <1>8, FunctionOpens DEF Step
<1> QED
  BY <1>2, <1>3, <1>4, <1>5, <1>6, <1>7, <1>8 DEF Next

-----------------------------------------------------------------------------
(* How the scopes of C and of the transpiler lie along the open constructs *)

Own(fr) == IF OwnsScope(fr) THEN 1 ELSE 0

\* Of C's n scopes c[i] are there when construct i is open.
Levels(c, frames, n) ==
  /\ c \in [1 .. Len(frames) -> Nat]
  /\ c[1] = 1 /\ c[Len(frames)] = n
  /\ \A i \in 1 .. Len(frames) - 1 : c[i + 1] = c[i] + Width(frames[i + 1])
  /\ \A i \in 1 .. Len(frames) : \A j \in 1 .. i - 1 : c[j] < c[i]

\* Of the transpiler's n scopes h[i] stay until what is in i is left.
Heights(h, frames, n) ==
  /\ h \in [1 .. Len(frames) -> Nat]
  /\ h[1] >= 1 /\ h[Len(frames)] = n
  /\ \A i \in 1 .. Len(frames) - 1 : h[i] + Own(frames[i + 1]) <= h[i + 1]
  /\ \A i \in 1 .. Len(frames) : \A j \in 1 .. i - 1 : h[j] <= h[i]

\* The variables of the first are among those of the second.
Held(c, h, s, t) ==
  \A i \in DOMAIN c : \A m \in 1 .. c[i] : \A x \in VarsIn(s[m]) :
    \E k \in 1 .. h[i] : x \in VarsIn(t[k])

\* The function's name is not that of a global variable.
Unshadowed == Len(stack) > 1 => stack[2].name \notin VarsIn(scopes[1])

Scoped ==
  /\ Unshadowed
  /\ \E c, h : /\ Levels(c, stack, Len(scopes)) /\ Heights(h, stack, Len(context.scopes))
               /\ Held(c, h, scopes, context.scopes)

LEMMA Widths ==
  \A fr : /\ Width(fr) \in {1, 2}
          /\ Own(fr) \in {0, 1}
BY DEF Width, Own

\* The last changed, one more, one less.
Raised(h, n, m) == [h EXCEPT ![n] = m]
Longer(h, n, m) == [i \in 1 .. n + 1 |-> IF i = n + 1 THEN m ELSE h[i]]
Shorter(h, n, m) == [i \in 1 .. n |-> IF i = n THEN m ELSE h[i]]

\* Work in the last construct.
LEMMA LevelsWork ==
  ASSUME NEW c, NEW f, NEW g, NEW n, Levels(c, f, n), Len(f) \in Nat \ {0},
         Len(g) = Len(f), \A i \in 1 .. Len(f) : Width(g[i]) = Width(f[i])
  PROVE  Levels(c, g, n)
BY DEF Levels

LEMMA HeightsWork ==
  ASSUME NEW h, NEW f, NEW g, NEW n, Heights(h, f, n), Len(f) \in Nat \ {0},
         Len(g) = Len(f), \A i \in 1 .. Len(f) : Own(g[i]) = Own(f[i]),
         NEW m \in Nat, m >= n
  PROVE  Heights(Raised(h, Len(f), m), g, m)
<1> DEFINE d == Raised(h, Len(f), m)
<1>0. /\ h \in [1 .. Len(f) -> Nat] /\ h[Len(f)] = n /\ Len(f) \in 1 .. Len(f)
  BY DEF Heights
<1>1. /\ d \in [1 .. Len(f) -> Nat] /\ d[Len(f)] = m /\ h[Len(f)] = n /\ n \in Nat
      /\ \A i \in 1 .. Len(f) : d[i] \in Nat /\ h[i] \in Nat
      /\ \A i \in 1 .. Len(f) - 1 : d[i] = h[i]
  BY <1>0 DEF Raised
<1>2. \A i \in 1 .. Len(f) : d[i] >= h[i]
  BY <1>1
<1>3. \A i \in 1 .. Len(f) - 1 : i \in 1 .. Len(f) /\ i + 1 \in 1 .. Len(f)
  OBVIOUS
<1>4. \A i \in 1 .. Len(f) : \A j \in 1 .. i - 1 : j \in 1 .. Len(f) - 1 /\ j \in 1 .. Len(f)
  OBVIOUS
<1> HIDE DEF d
<1>5. \A i \in 1 .. Len(f) - 1 : d[i] + Own(g[i + 1]) <= d[i + 1]
  <2> SUFFICES ASSUME NEW i \in 1 .. Len(f) - 1 PROVE d[i] + Own(g[i + 1]) <= d[i + 1]
    OBVIOUS
  <2>1. h[i] + Own(f[i + 1]) <= h[i + 1] /\ d[i] = h[i] /\ d[i + 1] >= h[i + 1]
    BY <1>1, <1>2, <1>3 DEF Heights
  <2>2. Own(g[i + 1]) = Own(f[i + 1]) /\ Own(f[i + 1]) \in Int
    BY <1>3, Widths
  <2>3. d[i] \in Nat /\ h[i + 1] \in Nat /\ d[i + 1] \in Nat
    BY <1>1, <1>3
  <2> QED
    BY <2>1, <2>2, <2>3
<1>6. \A i \in 1 .. Len(f) : \A j \in 1 .. i - 1 : d[j] <= d[i]
  <2> SUFFICES ASSUME NEW i \in 1 .. Len(f), NEW j \in 1 .. i - 1 PROVE d[j] <= d[i]
    OBVIOUS
  <2>1. d[j] = h[j] /\ h[j] <= h[i] /\ h[i] <= d[i]
    BY <1>1, <1>2, <1>4 DEF Heights
  <2> QED
    BY <1>1, <1>4, <2>1
<1>7. d[1] >= 1
  BY <1>1, <1>2 DEF Heights
<1> QED
  BY <1>1, <1>5, <1>6, <1>7 DEF Heights, d

\* A construct opens.
LEMMA LevelsPush ==
  ASSUME NEW c, NEW f, NEW g, NEW n, Levels(c, f, n), Len(f) \in Nat \ {0},
         Len(g) = Len(f) + 1, \A i \in 1 .. Len(f) : g[i] = f[i]
  PROVE  LET top == n + Width(g[Len(f) + 1])
         IN  Levels(Longer(c, Len(f), top), g, top)
<1> DEFINE top == n + Width(g[Len(f) + 1])
           d == Longer(c, Len(f), top)
<1>1. /\ c[Len(f)] = n /\ n \in Nat /\ top \in Nat /\ top > n
      /\ \A i \in 1 .. Len(f) : c[i] \in Nat
  BY Widths DEF Levels
<1>2. /\ d \in [1 .. Len(g) -> Nat] /\ d[Len(f) + 1] = top
      /\ \A i \in 1 .. Len(f) : d[i] = c[i]
  BY <1>1 DEF Longer
<1>3. \A i \in 1 .. Len(f) + 1 - 1 : /\ i \in 1 .. Len(f) /\ (i = Len(f) \/ i \in 1 .. Len(f) - 1)
                                     /\ i + 1 \in 1 .. Len(f) + 1
  OBVIOUS
<1>4. c[1] = 1 /\ d[1] = 1
  BY <1>2 DEF Levels
<1> HIDE DEF d
<1>5. \A i \in 1 .. Len(g) - 1 : d[i + 1] = d[i] + Width(g[i + 1])
  <2> SUFFICES ASSUME NEW i \in 1 .. Len(g) - 1 PROVE d[i + 1] = d[i] + Width(g[i + 1])
    OBVIOUS
  <2>1. CASE i = Len(f)
    BY <1>1, <1>2, <2>1
  <2>2. CASE i \in 1 .. Len(f) - 1
    <3>1. i \in 1 .. Len(f) /\ i + 1 \in 1 .. Len(f) /\ c[i + 1] = c[i] + Width(f[i + 1])
      BY <2>2 DEF Levels
    <3> QED
      BY <1>2, <3>1
  <2> QED
    BY <1>3, <2>1, <2>2
<1>6. \A i \in 1 .. Len(f) : c[i] <= n
  <2>1. \A i \in 1 .. Len(f) - 1 : c[i] < c[Len(f)]
    BY DEF Levels
  <2> QED
    BY <1>1, <2>1
<1>7. \A i \in 1 .. Len(g) : \A j \in 1 .. i - 1 : d[j] < d[i]
  <2> SUFFICES ASSUME NEW i \in 1 .. Len(g), NEW j \in 1 .. i - 1 PROVE d[j] < d[i]
    OBVIOUS
  <2>0. j \in 1 .. Len(f) /\ d[j] = c[j]
    BY <1>2
  <2>1. CASE i = Len(f) + 1
    BY <1>1, <1>2, <1>6, <2>0, <2>1
  <2>2. CASE i # Len(f) + 1
    <3>0. i \in 1 .. Len(f)
      BY <2>2
    <3>1. c[j] < c[i]
      BY <3>0 DEF Levels
    <3> QED
      BY <1>2, <2>0, <3>0, <3>1
  <2> QED
    BY <2>1, <2>2
<1>8. Levels(d, g, top)
  BY <1>2, <1>4, <1>5, <1>7 DEF Levels
<1> QED
  BY <1>8 DEF d

LEMMA HeightsPush ==
  ASSUME NEW h, NEW f, NEW g, NEW n, Heights(h, f, n), Len(f) \in Nat \ {0},
         Len(g) = Len(f) + 1, \A i \in 1 .. Len(f) : g[i] = f[i],
         NEW m \in Nat, m >= n + Own(g[Len(f) + 1])
  PROVE  Heights(Longer(h, Len(f), m), g, m)
<1> DEFINE d == Longer(h, Len(f), m)
<1>1. /\ h[Len(f)] = n /\ n \in Nat /\ m >= n
      /\ \A i \in 1 .. Len(f) : h[i] \in Nat
  BY Widths DEF Heights
<1>2. /\ d \in [1 .. Len(g) -> Nat] /\ d[Len(f) + 1] = m
      /\ \A i \in 1 .. Len(f) : d[i] = h[i]
  BY <1>1 DEF Longer
<1>3. \A i \in 1 .. Len(f) + 1 - 1 : /\ i \in 1 .. Len(f) /\ (i = Len(f) \/ i \in 1 .. Len(f) - 1)
                                     /\ i + 1 \in 1 .. Len(f) + 1
  OBVIOUS
<1>4. h[1] >= 1 /\ d[1] >= 1
  BY <1>2 DEF Heights
<1> HIDE DEF d
<1>5. \A i \in 1 .. Len(g) - 1 : d[i] + Own(g[i + 1]) <= d[i + 1]
  <2> SUFFICES ASSUME NEW i \in 1 .. Len(g) - 1 PROVE d[i] + Own(g[i + 1]) <= d[i + 1]
    OBVIOUS
  <2>1. CASE i = Len(f)
    BY <1>1, <1>2, <2>1
  <2>2. CASE i \in 1 .. Len(f) - 1
    <3>1. i \in 1 .. Len(f) /\ i + 1 \in 1 .. Len(f) /\ h[i] + Own(f[i + 1]) <= h[i + 1]
      BY <2>2 DEF Heights
    <3> QED
      BY <1>2, <3>1
  <2> QED
    BY <1>3, <2>1, <2>2
<1>6. \A i \in 1 .. Len(f) : h[i] <= n
  <2>1. \A i \in 1 .. Len(f) - 1 : h[i] <= h[Len(f)]
    BY DEF Heights
  <2> QED
    BY <1>1, <2>1
<1>7. \A i \in 1 .. Len(g) : \A j \in 1 .. i - 1 : d[j] <= d[i]
  <2> SUFFICES ASSUME NEW i \in 1 .. Len(g), NEW j \in 1 .. i - 1 PROVE d[j] <= d[i]
    OBVIOUS
  <2>0. j \in 1 .. Len(f) /\ d[j] = h[j]
    BY <1>2
  <2>1. CASE i = Len(f) + 1
    BY <1>1, <1>2, <1>6, <2>0, <2>1
  <2>2. CASE i # Len(f) + 1
    <3>1. i \in 1 .. Len(f) /\ h[j] <= h[i]
      BY <2>2 DEF Heights
    <3> QED
      BY <1>2, <2>0, <3>1
  <2> QED
    BY <2>1, <2>2
<1>8. Heights(d, g, m)
  BY <1>2, <1>4, <1>5, <1>7 DEF Heights
<1> QED
  BY <1>8 DEF d

\* A construct is left.
LEMMA LevelsDrop ==
  ASSUME NEW c, NEW f, NEW g, NEW n, Levels(c, f, n), Len(f) \in Nat \ {0, 1},
         Len(g) = Len(f) - 1, \A i \in 1 .. Len(g) : Width(g[i]) = Width(f[i])
  PROVE  /\ Levels(Shorter(c, Len(g), n - Width(f[Len(f)])), g, n - Width(f[Len(f)]))
         /\ n - Width(f[Len(f)]) \in Nat \ {0}
<1> DEFINE d == Shorter(c, Len(g), n - Width(f[Len(f)]))
           last == Len(g)
<1>1. /\ last \in 1 .. Len(f) - 1 /\ last + 1 = Len(f) /\ 1 \in 1 .. last /\ last \in 1 .. last
      /\ \A i \in 1 .. last : i \in 1 .. Len(f) /\ i \in 1 .. Len(f) - 1
      /\ \A i \in 1 .. last - 1 : i \in 1 .. last /\ i + 1 \in 1 .. last
  OBVIOUS
<1> HIDE DEF last
<1>2. /\ n = c[last] + Width(f[Len(f)]) /\ c[last] \in Nat /\ c[1] = 1
      /\ \A i \in 1 .. last : c[i] \in Nat
  BY <1>1 DEF Levels
<1>3. /\ d \in [1 .. Len(g) -> Nat] /\ \A i \in 1 .. last : d[i] = c[i]
  <2>1. n - Width(f[Len(f)]) = c[last]
    BY <1>2, Widths
  <2>2. d = Shorter(c, last, c[last])
    BY <2>1 DEF last
  <2> HIDE DEF d
  <2>3. d \in [1 .. last -> Nat] /\ \A i \in 1 .. last : d[i] = c[i]
    BY <1>2, <2>2 DEF Shorter
  <2> QED
    BY <2>3 DEF last
<1> HIDE DEF d
<1>4. c[last] >= 1
  <2>1. CASE last = 1
    BY <1>2, <2>1
  <2>2. CASE last # 1
    <3>1. 1 \in 1 .. last - 1 /\ last \in 1 .. Len(f)
      BY <1>1, <2>2
    <3>2. c[1] < c[last]
      BY <3>1 DEF Levels
    <3> QED
      BY <1>2, <3>2
  <2> QED
    BY <2>1, <2>2
<1>5. n - Width(f[Len(f)]) = c[last]
  BY <1>2, Widths
<1>6. Levels(d, g, c[last])
  <2>1. \A i \in 1 .. last - 1 : d[i + 1] = d[i] + Width(g[i + 1])
    <3> SUFFICES ASSUME NEW i \in 1 .. last - 1 PROVE d[i + 1] = d[i] + Width(g[i + 1])
      OBVIOUS
    <3>1. i \in 1 .. last /\ i + 1 \in 1 .. last /\ c[i + 1] = c[i] + Width(f[i + 1])
      BY <1>1 DEF Levels
    <3> QED
      BY <1>3, <3>1 DEF last
  <2>2. \A i \in 1 .. last : \A j \in 1 .. i - 1 : d[j] < d[i]
    <3> SUFFICES ASSUME NEW i \in 1 .. last, NEW j \in 1 .. i - 1 PROVE d[j] < d[i]
      OBVIOUS
    <3>1. i \in 1 .. Len(f) /\ j \in 1 .. last /\ c[j] < c[i]
      BY <1>1 DEF Levels
    <3> QED
      BY <1>3, <3>1
  <2> QED
    BY <1>1, <1>2, <1>3, <2>1, <2>2 DEF Levels, last
<1> QED
  BY <1>4, <1>5, <1>6, <1>2 DEF d

LEMMA HeightsDrop ==
  ASSUME NEW h, NEW f, NEW g, NEW n, Heights(h, f, n), Len(f) \in Nat \ {0, 1},
         Len(g) = Len(f) - 1, \A i \in 1 .. Len(g) : Own(g[i]) = Own(f[i]),
         NEW m \in Nat, m >= n - Own(f[Len(f)])
  PROVE  Heights(Shorter(h, Len(g), m), g, m)
<1> DEFINE last == Len(g)
           d == Shorter(h, last, m)
<1>1. /\ last \in 1 .. Len(f) - 1 /\ last + 1 = Len(f) /\ 1 \in 1 .. last /\ last \in 1 .. last
      /\ \A i \in 1 .. last : i \in 1 .. Len(f) /\ i \in 1 .. Len(f) - 1
      /\ \A i \in 1 .. last - 1 : i \in 1 .. last /\ i + 1 \in 1 .. last
  OBVIOUS
<1>2. /\ h[last] + Own(f[Len(f)]) <= n /\ h[last] \in Nat /\ n \in Nat
      /\ \A i \in 1 .. last : h[i] \in Nat
  <2>1. h[Len(f)] = n /\ Len(f) \in 1 .. Len(f)
    BY DEF Heights
  <2> QED
    BY <1>1, <2>1 DEF Heights
<1>3. m >= h[last]
  BY <1>2, Widths
<1> HIDE DEF last
<1>4. /\ d \in [1 .. last -> Nat] /\ d[last] = m
      /\ \A i \in 1 .. last - 1 : d[i] = h[i]
      /\ \A i \in 1 .. last : d[i] >= h[i]
  BY <1>1, <1>2, <1>3 DEF Shorter
<1> HIDE DEF d
<1>5. \A i \in 1 .. last - 1 : d[i] + Own(g[i + 1]) <= d[i + 1]
  <2> SUFFICES ASSUME NEW i \in 1 .. last - 1 PROVE d[i] + Own(g[i + 1]) <= d[i + 1]
    OBVIOUS
  <2>1. i \in 1 .. last /\ i + 1 \in 1 .. last /\ h[i] + Own(f[i + 1]) <= h[i + 1]
    BY <1>1 DEF Heights
  <2>2. d[i + 1] >= h[i + 1] /\ d[i] = h[i] /\ d[i + 1] \in Nat /\ h[i + 1] \in Nat /\ h[i] \in Nat
    BY <1>2, <1>4, <2>1
  <2>3. Own(g[i + 1]) = Own(f[i + 1]) /\ Own(f[i + 1]) \in Int
    BY <2>1, Widths DEF last
  <2> QED
    BY <2>1, <2>2, <2>3
<1>6. \A i \in 1 .. last : \A j \in 1 .. i - 1 : d[j] <= d[i]
  <2> SUFFICES ASSUME NEW i \in 1 .. last, NEW j \in 1 .. i - 1 PROVE d[j] <= d[i]
    OBVIOUS
  <2>1. i \in 1 .. Len(f) /\ j \in 1 .. last - 1 /\ j \in 1 .. last /\ h[j] <= h[i]
    BY <1>1 DEF Heights
  <2> QED
    BY <1>2, <1>4, <2>1
<1>7. d[1] >= 1
  <2>1. h[1] >= 1 /\ d[1] >= h[1] /\ d[1] \in Nat /\ h[1] \in Nat
    BY <1>1, <1>2, <1>4 DEF Heights
  <2> QED
    BY <2>1
<1>8. Heights(d, g, m)
  BY <1>1, <1>4, <1>5, <1>6, <1>7 DEF Heights, last
<1> QED
  BY <1>8 DEF d, last

-----------------------------------------------------------------------------
(* What a step does to the scopes s of C and t of the transpiler.          *)

LEMMA Bounds ==
  ASSUME NEW c, NEW h, NEW f, NEW n, NEW n2, Levels(c, f, n), Heights(h, f, n2), Len(f) \in Nat \ {0}
  PROVE  /\ DOMAIN c = 1 .. Len(f) /\ c[Len(f)] = n /\ h[Len(f)] = n2
         /\ n \in Nat /\ n2 \in Nat /\ n >= 1 /\ n2 >= 1
         /\ \A i \in 1 .. Len(f) : /\ c[i] \in Nat /\ 1 <= c[i] /\ c[i] <= n
                                   /\ h[i] \in Nat /\ 1 <= h[i] /\ h[i] <= n2
                                   /\ i # Len(f) => c[i] < n
<1>1. /\ DOMAIN c = 1 .. Len(f) /\ c[Len(f)] = n /\ h[Len(f)] = n2 /\ c[1] = 1 /\ h[1] >= 1
      /\ \A i \in 1 .. Len(f) : c[i] \in Nat /\ h[i] \in Nat
  BY DEF Levels, Heights
<1>2. 1 \in 1 .. Len(f) /\ Len(f) \in 1 .. Len(f)
  OBVIOUS
<1>3. n \in Nat /\ n2 \in Nat
  BY <1>1, <1>2
<1>4. \A i \in 1 .. Len(f) : c[i] <= n /\ h[i] <= n2 /\ (i # Len(f) => c[i] < n)
  <2> SUFFICES ASSUME NEW i \in 1 .. Len(f)
               PROVE  c[i] <= n /\ h[i] <= n2 /\ (i # Len(f) => c[i] < n)
    OBVIOUS
  <2>1. CASE i = Len(f)
    BY <1>1, <1>3, <2>1
  <2>2. CASE i \in 1 .. Len(f) - 1
    <3>1. c[i] < c[Len(f)] /\ h[i] <= h[Len(f)]
      BY <1>2, <2>2 DEF Levels, Heights
    <3> QED
      BY <1>1, <1>3, <3>1
  <2> QED
    BY <2>1, <2>2
<1>5. \A i \in 1 .. Len(f) : 1 <= c[i] /\ 1 <= h[i]
  <2> SUFFICES ASSUME NEW i \in 1 .. Len(f) PROVE 1 <= c[i] /\ 1 <= h[i]
    OBVIOUS
  <2>1. CASE i = 1
    BY <1>1, <1>2, <2>1
  <2>2. CASE 1 \in 1 .. i - 1
    <3>1. c[1] < c[i] /\ h[1] <= h[i]
      BY <2>2 DEF Levels, Heights
    <3> QED
      BY <1>1, <1>2, <3>1
  <2> QED
    BY <2>1, <2>2
<1>6. n >= 1 /\ n2 >= 1
  BY <1>1, <1>2, <1>3, <1>5
<1> QED
  BY <1>1, <1>3, <1>4, <1>5, <1>6

LEMMA OneOrMore == \A n \in Nat \ {0} : n = 1 \/ n > 1
OBVIOUS

LEMMA Within ==
  ASSUME NEW a \in Int, NEW b \in Int, a <= b, NEW k \in 1 .. a
  PROVE  k \in 1 .. b
OBVIOUS

\* Variables come into the open scopes; scopes of the transpiler are left.
VarsWork(s, s2, t, t2, new) ==
  /\ Len(s2) = Len(s)
  /\ \A k \in 1 .. Len(s) - 1 : VarsIn(s2[k]) \subseteq VarsIn(s[k])
  /\ VarsIn(s2[Len(s)]) \subseteq VarsIn(s[Len(s)]) \cup new
  /\ Len(t2) >= Len(t)
  /\ \A k \in 1 .. Len(t) : VarsIn(t[k]) \subseteq VarsIn(t2[k])
  /\ new \subseteq VarsIn(t2[Len(t)])

\* A construct opens, with its scopes.
VarsPush(fr, s, s2, t, t2) ==
  /\ Len(s2) = Len(s) + Width(fr)
  /\ \A k \in 1 .. Len(s) : VarsIn(s2[k]) \subseteq VarsIn(s[k])
  /\ \A k \in Len(s) + 1 .. Len(s2) : VarsIn(s2[k]) \subseteq VarsIn(t2[Len(t2)])
  /\ Len(t2) >= Len(t) + Own(fr)
  /\ \A k \in 1 .. Len(t) : VarsIn(t[k]) \subseteq VarsIn(t2[k])

\* A construct is left, and with it the variables lost.
VarsDrop(fr, s, s2, t, t2, lost) ==
  /\ Len(s2) = Len(s) - Width(fr)
  /\ \A k \in 1 .. Len(s) - Width(fr) : VarsIn(s2[k]) \subseteq VarsIn(s[k]) \ lost
  /\ Len(t2) >= Len(t) - Own(fr)
  /\ \A k \in 1 .. Len(t) - Own(fr) : VarsIn(t[k]) \ lost \subseteq VarsIn(t2[k])

LEMMA HeldWork ==
  ASSUME NEW c, NEW h, NEW f, NEW s, NEW s2, NEW t, NEW t2, NEW new,
         Levels(c, f, Len(s)), Heights(h, f, Len(t)), Held(c, h, s, t),
         Len(f) \in Nat \ {0}, Len(t2) \in Nat, VarsWork(s, s2, t, t2, new)
  PROVE  Held(c, Raised(h, Len(f), Len(t2)), s2, t2)
<1> DEFINE d == Raised(h, Len(f), Len(t2))
<1>1. /\ DOMAIN c = 1 .. Len(f) /\ c[Len(f)] = Len(s) /\ h[Len(f)] = Len(t)
      /\ Len(s) \in Nat /\ Len(t) \in Nat /\ Len(s) >= 1 /\ Len(t) >= 1
      /\ \A i \in 1 .. Len(f) : /\ c[i] \in Nat /\ 1 <= c[i] /\ c[i] <= Len(s)
                                /\ h[i] \in Nat /\ 1 <= h[i] /\ h[i] <= Len(t)
                                /\ i # Len(f) => c[i] < Len(s)
  BY Bounds
<1>2. h \in [1 .. Len(f) -> Nat] /\ Len(t2) >= Len(t)
  BY DEF Heights, VarsWork
<1>3. \A i \in 1 .. Len(f) : d[i] \in Nat /\ d[i] >= h[i]
  BY <1>1, <1>2 DEF Raised
<1> HIDE DEF d
<1> SUFFICES ASSUME NEW i \in 1 .. Len(f), NEW k \in 1 .. c[i], NEW x \in VarsIn(s2[k])
             PROVE  \E q \in 1 .. d[i] : x \in VarsIn(t2[q])
  BY <1>1 DEF Held, d
<1>4. CASE x \in VarsIn(s[k])
  <2>1. PICK q \in 1 .. h[i] : x \in VarsIn(t[q])
    BY <1>1, <1>4 DEF Held
  <2>2. q \in 1 .. Len(t) /\ q \in 1 .. d[i]
    BY <1>1, <1>3
  <2>3. x \in VarsIn(t2[q])
    BY <2>1, <2>2 DEF VarsWork
  <2> QED
    BY <2>2, <2>3
<1>5. CASE x \notin VarsIn(s[k])
  <2>1. c[i] \in Nat /\ c[i] <= Len(s)
    BY <1>1
  <2>2. k \in 1 .. Len(s) - 1 \/ k = Len(s)
    BY <1>1, <2>1
  <2>3. k = Len(s) /\ x \in new
    BY <1>5, <2>2 DEF VarsWork
  <2>4. i = Len(f)
    BY <1>1, <2>3
  <2>5. x \in VarsIn(t2[Len(t)])
    BY <2>3 DEF VarsWork
  <2>6. Len(t) \in 1 .. d[i]
    BY <1>1, <1>3, <2>4
  <2> QED
    BY <2>5, <2>6
<1> QED
  BY <1>4, <1>5

LEMMA HeldPush ==
  ASSUME NEW c, NEW h, NEW f, NEW fr, NEW s, NEW s2, NEW t, NEW t2,
         Levels(c, f, Len(s)), Heights(h, f, Len(t)), Held(c, h, s, t),
         Len(f) \in Nat \ {0}, Len(t2) \in Nat, VarsPush(fr, s, s2, t, t2)
  PROVE  Held(Longer(c, Len(f), Len(s2)), Longer(h, Len(f), Len(t2)), s2, t2)
<1> DEFINE c2 == Longer(c, Len(f), Len(s2))
           h2 == Longer(h, Len(f), Len(t2))
<1>1. /\ DOMAIN c = 1 .. Len(f) /\ c[Len(f)] = Len(s) /\ h[Len(f)] = Len(t)
      /\ Len(s) \in Nat /\ Len(t) \in Nat /\ Len(s) >= 1 /\ Len(t) >= 1
      /\ \A i \in 1 .. Len(f) : /\ c[i] \in Nat /\ 1 <= c[i] /\ c[i] <= Len(s)
                                /\ h[i] \in Nat /\ 1 <= h[i] /\ h[i] <= Len(t)
                                /\ i # Len(f) => c[i] < Len(s)
  BY Bounds
<1>2. /\ DOMAIN c2 = 1 .. Len(f) + 1
      /\ \A i \in 1 .. Len(f) : c2[i] = c[i] /\ h2[i] = h[i]
      /\ c2[Len(f) + 1] = Len(s2) /\ h2[Len(f) + 1] = Len(t2)
  BY DEF Longer
<1>3. Len(s2) \in Nat /\ Len(t2) >= Len(t)
  BY <1>1, Widths DEF VarsPush
<1> HIDE DEF c2, h2
<1>4. ASSUME NEW i \in 1 .. Len(f), NEW k \in 1 .. c[i], NEW x \in VarsIn(s2[k])
      PROVE  \E q \in 1 .. h[i] : x \in VarsIn(t2[q])
  <2>1. k \in 1 .. Len(s)
    BY <1>1, Within
  <2>2. x \in VarsIn(s[k])
    BY <2>1 DEF VarsPush
  <2>3. PICK q \in 1 .. h[i] : x \in VarsIn(t[q])
    BY <1>1, <2>2 DEF Held
  <2>4. q \in 1 .. Len(t)
    BY <1>1, Within
  <2> QED
    BY <2>3, <2>4 DEF VarsPush
<1>5. ASSUME NEW k \in 1 .. Len(s2), NEW x \in VarsIn(s2[k])
      PROVE  \E q \in 1 .. Len(t2) : x \in VarsIn(t2[q])
  <2>1. CASE k \in 1 .. Len(s)
    <3>1. Len(f) \in 1 .. Len(f) /\ k \in 1 .. c[Len(f)]
      BY <1>1, <2>1
    <3>2. PICK q \in 1 .. h[Len(f)] : x \in VarsIn(t2[q])
      BY <1>4, <3>1
    <3>3. q \in 1 .. Len(t2)
      BY <1>1, <1>3, Within
    <3> QED
      BY <3>2, <3>3
  <2>2. CASE k \in Len(s) + 1 .. Len(s2)
    <3>1. x \in VarsIn(t2[Len(t2)])
      BY <2>2 DEF VarsPush
    <3>2. Len(t2) \in 1 .. Len(t2)
      BY <1>1, <1>3
    <3> QED
      BY <3>1, <3>2
  <2> QED
    BY <1>1, <1>3, <2>1, <2>2
<1>6. Held(c2, h2, s2, t2)
  <2> SUFFICES ASSUME NEW i \in 1 .. Len(f) + 1, NEW k \in 1 .. c2[i], NEW x \in VarsIn(s2[k])
               PROVE  \E q \in 1 .. h2[i] : x \in VarsIn(t2[q])
    BY <1>2 DEF Held
  <2>1. CASE i = Len(f) + 1
    BY <1>2, <1>5, <2>1
  <2>2. CASE i \in 1 .. Len(f)
    BY <1>2, <1>4, <2>2
  <2> QED
    BY <2>1, <2>2
<1> QED
  BY <1>6 DEF c2, h2

LEMMA HeldDrop ==
  ASSUME NEW c, NEW h, NEW f, NEW s, NEW s2, NEW t, NEW t2, NEW lost, NEW last,
         Levels(c, f, Len(s)), Heights(h, f, Len(t)), Held(c, h, s, t),
         Len(f) \in Nat \ {0, 1}, last = Len(f) - 1,
         Len(t2) \in Nat, VarsDrop(f[Len(f)], s, s2, t, t2, lost)
  PROVE  Held(Shorter(c, last, Len(s2)), Shorter(h, last, Len(t2)), s2, t2)
<1> DEFINE c2 == Shorter(c, last, Len(s2))
           h2 == Shorter(h, last, Len(t2))
           w == Width(f[Len(f)])
           o == Own(f[Len(f)])
<1>1. w \in Nat /\ o \in Nat
  BY Widths
<1>2. /\ Len(s2) = Len(s) - w /\ Len(t2) >= Len(t) - o
      /\ \A k \in 1 .. Len(s) - w : VarsIn(s2[k]) \subseteq VarsIn(s[k]) \ lost
      /\ \A k \in 1 .. Len(t) - o : VarsIn(t[k]) \ lost \subseteq VarsIn(t2[k])
  BY DEF VarsDrop
<1>3. /\ last \in 1 .. Len(f) - 1 /\ last \in 1 .. Len(f) /\ last + 1 = Len(f)
      /\ \A i \in 1 .. last : i \in 1 .. Len(f)
      /\ \A i \in 1 .. last : i \in 1 .. last - 1 \/ i = last
  <2>1. Len(f) \in Nat /\ Len(f) >= 2
    OBVIOUS
  <2> QED
    BY <2>1
<1>4. /\ DOMAIN c = 1 .. Len(f)
      /\ Len(s) \in Nat /\ Len(t) \in Nat
      /\ \A i \in 1 .. Len(f) : c[i] \in Nat /\ h[i] \in Nat
      /\ c[Len(f)] = Len(s) /\ h[Len(f)] = Len(t)
  <2>1. Len(f) \in Nat \ {0}
    OBVIOUS
  <2> QED
    BY <2>1, Bounds
<1>5. Len(s) = c[last] + w /\ h[last] + o <= Len(t)
  <2>1. c[last + 1] = c[last] + Width(f[last + 1]) /\ h[last] + Own(f[last + 1]) <= h[last + 1]
    BY <1>3 DEF Levels, Heights
  <2> QED
    BY <1>3, <1>4, <2>1
<1> HIDE DEF w, o
<1>11. /\ c[last] \in Nat /\ h[last] \in Nat
       /\ \A i \in 1 .. last : c[i] \in Nat /\ h[i] \in Nat
  BY <1>3, <1>4
<1>6. Len(s2) = c[last] /\ h[last] <= Len(t2)
  <2>1. Len(s2) = Len(s) - w /\ Len(t2) >= Len(t) - o /\ Len(t2) \in Int
    BY <1>2
  <2>2. Len(s) = c[last] + w /\ h[last] + o <= Len(t)
    BY <1>5
  <2>3. c[last] \in Int /\ h[last] \in Int /\ w \in Int /\ o \in Int /\ Len(t) \in Int
    BY <1>1, <1>4, <1>11
  <2>4. Len(s2) = c[last]
    BY ONLY <2>1, <2>2, <2>3
  <2>5. h[last] <= Len(t2)
    BY ONLY <2>1, <2>2, <2>3
  <2> QED
    BY <2>4, <2>5
<1>7. /\ DOMAIN c2 = 1 .. last
      /\ \A i \in 1 .. last : c2[i] = c[i] /\ (h2[i] = h[i] \/ i = last)
      /\ h2[last] = Len(t2)
  BY <1>3, <1>6 DEF Shorter
<1> HIDE DEF c2, h2
<1>8. \A i \in 1 .. last : c[i] <= c[last] /\ h[i] <= h[last]
  <2> SUFFICES ASSUME NEW i \in 1 .. last PROVE c[i] <= c[last] /\ h[i] <= h[last]
    OBVIOUS
  <2>1. CASE i \in 1 .. last - 1
    <3>1. c[i] < c[last] /\ h[i] <= h[last]
      BY <1>3, <2>1 DEF Levels, Heights
    <3> QED
      BY <1>11, <3>1
  <2>2. CASE i = last
    BY <1>11, <2>2
  <2> QED
    BY <1>3, <2>1, <2>2
<1>9. \A i \in 1 .. last : h[i] <= h2[i] /\ h2[i] \in Nat
  <2> SUFFICES ASSUME NEW i \in 1 .. last PROVE h[i] <= h2[i] /\ h2[i] \in Nat
    OBVIOUS
  <2>1. CASE i = last
    BY <1>6, <1>7, <2>1
  <2>2. CASE h2[i] = h[i]
    BY <1>11, <2>2
  <2> QED
    BY <1>7, <2>1, <2>2
<1>10. Held(c2, h2, s2, t2)
  <2> SUFFICES ASSUME NEW i \in 1 .. last, NEW k \in 1 .. c2[i], NEW x \in VarsIn(s2[k])
               PROVE  \E q \in 1 .. h2[i] : x \in VarsIn(t2[q])
    BY <1>7 DEF Held
  <2>1. k \in 1 .. c[i] /\ i \in 1 .. Len(f)
    BY <1>3, <1>7
  <2>2. k \in 1 .. Len(s) - w
    <3>0. c[i] \in Nat
      BY <1>4, <2>1
    <3>1. c[i] <= c[last] /\ c[last] = Len(s) - w /\ c[i] \in Int /\ c[last] \in Int
      <4>1. c[i] <= c[last]
        BY <1>8
      <4>2. Len(s) = c[last] + w /\ c[last] \in Int /\ w \in Int
        BY <1>1, <1>5, <1>11
      <4>3. c[last] = Len(s) - w
        BY ONLY <4>2
      <4> QED
        BY <3>0, <4>1, <4>2, <4>3
    <3> QED
      BY <2>1, <3>1, Within
  <2>3. x \in VarsIn(s[k]) /\ x \notin lost
    BY <1>2, <2>2
  <2>4. PICK q \in 1 .. h[i] : x \in VarsIn(t[q])
    BY <1>4, <2>1, <2>3 DEF Held
  <2>5. h[i] \in Int /\ h2[i] \in Int /\ h[i] <= h2[i]
    BY <1>4, <1>9, <2>1
  <2>6. h[i] <= Len(t) - o /\ Len(t) - o \in Int
    <3>1. h[last] \in Int /\ h[i] <= h[last] /\ h[last] <= Len(t) - o
      <4>1. h[i] <= h[last]
        BY <1>8
      <4>2. h[last] + o <= Len(t) /\ h[last] \in Int /\ o \in Int /\ Len(t) \in Int
        BY <1>1, <1>4, <1>5, <1>11
      <4>3. h[last] <= Len(t) - o
        BY ONLY <4>2
      <4> QED
        BY <4>1, <4>2, <4>3
    <3>2. Len(t) - o \in Int
      BY <1>1, <1>4
    <3> QED
      BY <2>5, <3>1, <3>2
  <2>7. q \in 1 .. h2[i] /\ q \in 1 .. Len(t) - o
    BY <2>5, <2>6, Within
  <2> QED
    BY <1>2, <2>3, <2>4, <2>7
<1> QED
  BY <1>10 DEF c2, h2

LEMMA Room ==
  ASSUME Shape, Scoped, Len(stack) > 1
  PROVE  /\ Len(scopes) - Width(Top) \in Nat \ {0}
         /\ OwnsScope(Top) => Len(context.scopes) > 1
         /\ Top.kind = "function" => Len(stack) = 2 /\ Len(scopes) = 2
<1>1. PICK c, h : Levels(c, stack, Len(scopes)) /\ Heights(h, stack, Len(context.scopes))
  BY DEF Scoped
<1>2. Len(stack) \in Nat \ {0, 1} /\ Top = stack[Len(stack)]
  BY TopFrame
<1>3. Len(scopes) - Width(Top) \in Nat \ {0}
  <2>1. Len(Below) = Len(stack) - 1 /\ \A i \in 1 .. Len(Below) : Below[i] = stack[i]
    BY <1>2, Popped DEF Below, Shape
  <2> QED
    BY <1>1, <1>2, <2>1, LevelsDrop
<1>4. OwnsScope(Top) => Len(context.scopes) > 1
  <2> DEFINE n == Len(stack) - 1
  <2>1. n \in 1 .. Len(stack) - 1 /\ n + 1 = Len(stack) /\ n \in 1 .. Len(stack)
    BY <1>2
  <2> HIDE DEF n
  <2>2. h[n] + Own(Top) <= Len(context.scopes) /\ h[n] \in Nat /\ h[1] >= 1 /\ h[1] \in Nat
    BY <1>1, <1>2, <2>1 DEF Heights
  <2>3. n = 1 \/ h[1] <= h[n]
    BY <1>1, <2>1 DEF Heights
  <2> QED
    BY <2>2, <2>3, TopFrame DEF Own
<1>5. Top.kind = "function" => Len(stack) = 2 /\ Len(scopes) = 2
  <2> SUFFICES ASSUME Top.kind = "function" PROVE Len(stack) = 2 /\ Len(scopes) = 2
    OBVIOUS
  <2>1. Len(stack) = 2
    <3>1. Len(stack) \in 2 .. Len(stack)
      BY <1>2
    <3> QED
      BY <1>2, <3>1 DEF Shape, Nested
  <2>2. c[2] = c[1] + Width(stack[2]) /\ c[1] = 1 /\ c[2] = Len(scopes)
    BY <1>1, <2>1 DEF Levels
  <2>3. Width(stack[2]) = 1
    BY <1>2, <2>1 DEF Width
  <2>4. 1 + 1 = 2
    OBVIOUS
  <2> HIDE DEF Width
  <2> QED
    BY <2>1, <2>2, <2>3, <2>4
<1> QED
  BY <1>3, <1>4, <1>5

-----------------------------------------------------------------------------
(* The types hold.                                                         *)

LEMMA WorkedFrames ==
  ASSUME Shape, NEW bad, Worked(bad)
  PROVE  /\ Listed(stack') /\ Len(stack') = Len(stack)
         /\ \A i \in 1 .. Len(stack) : IsFrame(stack'[i])
         /\ \A i \in 1 .. Len(stack) : stack'[i].kind = stack[i].kind
         /\ \A i \in 1 .. Len(stack) : stack'[i].name = stack[i].name
         /\ \A i \in 1 .. Len(stack) : stack'[i].headOk = stack[i].headOk
         /\ Nested(stack')
<1>1. Len(stack) \in Nat \ {0} /\ Top = stack[Len(stack)]
  BY TopFrame
<1>2. \A i \in 1 .. Len(stack) : i \in 1 .. Len(stack) - 1 \/ i = Len(stack)
  BY <1>1
<1>3. \A i \in 1 .. Len(stack) : /\ IsFrame(stack'[i])
                                 /\ stack'[i].kind = stack[i].kind
                                 /\ stack'[i].name = stack[i].name
                                 /\ stack'[i].headOk = stack[i].headOk
  BY <1>1, <1>2 DEF Worked, Becomes, Shape
<1>4. Nested(stack')
  BY <1>1, <1>3 DEF Worked, Nested, Shape
<1> QED
  BY <1>3, <1>4 DEF Worked

LEMMA OpenedFrames ==
  ASSUME Shape, NEW fr, Opened(fr), fr.kind # "unit", fr.kind = "function" <=> Top.kind = "unit"
  PROVE  /\ Listed(stack') /\ Len(stack') = Len(stack) + 1
         /\ \A i \in 1 .. Len(stack') : IsFrame(stack'[i])
         /\ Nested(stack')
<1>1. Len(stack) \in Nat \ {0} /\ Top = stack[Len(stack)]
  BY TopFrame
<1>2. \A i \in 1 .. Len(stack') : i \in 1 .. Len(stack) \/ i = Len(stack) + 1
  BY <1>1 DEF Opened
<1>3. \A i \in 1 .. Len(stack') : IsFrame(stack'[i])
  BY <1>1, <1>2 DEF Opened, Shape
<1>4. Top.kind = "unit" <=> Len(stack) = 1
  BY <1>1 DEF Shape, Nested
<1>5. Nested(stack')
  <2>1. stack'[1].kind = "unit"
    BY <1>1 DEF Opened, Shape, Nested
  <2>2. \A i \in 2 .. Len(stack') : (i \in 2 .. Len(stack) /\ stack'[i] = stack[i])
                                    \/ (i = Len(stack) + 1 /\ stack'[i] = fr)
    BY <1>1 DEF Opened
  <2>3. \A i \in 2 .. Len(stack') : stack'[i].kind # "unit" /\ (stack'[i].kind = "function" <=> i = 2)
    BY <1>1, <1>4, <2>2 DEF Shape, Nested
  <2> QED
    BY <2>1, <2>3 DEF Nested
<1> QED
  BY <1>3, <1>5 DEF Opened

LEMMA DroppedFrames ==
  ASSUME Shape, NEW bad, Dropped(bad)
  PROVE  /\ Listed(stack') /\ Len(stack') = Len(stack) - 1 /\ Len(stack') > 0
         /\ \A i \in 1 .. Len(stack') : IsFrame(stack'[i])
         /\ \A i \in 1 .. Len(stack') : stack'[i].kind = stack[i].kind
         /\ \A i \in 1 .. Len(stack') : stack'[i].name = stack[i].name
         /\ \A i \in 1 .. Len(stack') : stack'[i].headOk = stack[i].headOk
         /\ Nested(stack')
<1>1. Len(stack) \in Nat \ {0, 1} /\ Len(stack') = Len(stack) - 1
  BY TopFrame DEF Dropped
<1>2. \A i \in 1 .. Len(stack') : i \in 1 .. Len(stack) - 2 \/ i = Len(stack) - 1
  BY <1>1
<1>3. \A i \in 1 .. Len(stack') : /\ IsFrame(stack'[i])
                                 /\ stack'[i].kind = stack[i].kind
                                 /\ stack'[i].name = stack[i].name
                                 /\ stack'[i].headOk = stack[i].headOk
  BY <1>1, <1>2 DEF Dropped, Becomes, Shape
<1>4. Nested(stack')
  BY <1>1, <1>3 DEF Nested, Shape
<1> QED
  BY <1>1, <1>3, <1>4 DEF Dropped

-----------------------------------------------------------------------------
(* Scoped stays.                                                           *)

FramesWork ==
  /\ Listed(stack') /\ Len(stack') = Len(stack)
  /\ \A i \in 1 .. Len(stack) : IsFrame(stack'[i])
  /\ \A i \in 1 .. Len(stack) : Width(stack'[i]) = Width(stack[i])
  /\ \A i \in 1 .. Len(stack) : Own(stack'[i]) = Own(stack[i])
  /\ Len(stack) > 1 => stack'[2].name = stack[2].name
  /\ Nested(stack')

LEMMA ScopedWork ==
  ASSUME Shape, Scoped, FramesWork, NEW new, Listed(scopes'), IsContext(context'),
         VarsWork(scopes, scopes', context.scopes, context'.scopes, new)
  PROVE  Shape' /\ Scoped'
<1>1. /\ Len(stack) \in Nat \ {0} /\ Len(scopes) \in Nat \ {0}
      /\ Len(scopes') = Len(scopes) /\ Len(context'.scopes) >= Len(context.scopes)
  BY TopFrame DEF VarsWork
<1>2. Len(context'.scopes) \in Nat
  BY ListedLen DEF IsContext
<1>3. Shape'
  BY <1>1 DEF Shape, FramesWork
<1>4. PICK c, h : /\ Levels(c, stack, Len(scopes)) /\ Heights(h, stack, Len(context.scopes))
                  /\ Held(c, h, scopes, context.scopes)
  BY DEF Scoped
<1>5. /\ Len(stack') = Len(stack)
      /\ \A i \in 1 .. Len(stack) : Width(stack'[i]) = Width(stack[i])
      /\ \A i \in 1 .. Len(stack) : Own(stack'[i]) = Own(stack[i])
  BY DEF FramesWork
<1>6. Levels(c, stack', Len(scopes'))
  BY <1>1, <1>4, <1>5, LevelsWork
<1>7. Heights(Raised(h, Len(stack), Len(context'.scopes)), stack', Len(context'.scopes))
  BY <1>1, <1>2, <1>4, <1>5, HeightsWork
<1>8. Held(c, Raised(h, Len(stack), Len(context'.scopes)), scopes', context'.scopes)
  BY <1>1, <1>2, <1>4, HeldWork
<1>9. Unshadowed'
  <2> SUFFICES ASSUME Len(stack') > 1 PROVE stack'[2].name \notin VarsIn(scopes'[1])
    BY DEF Unshadowed
  <2>1. Len(stack) > 1 /\ stack'[2].name = stack[2].name
    BY <1>5 DEF FramesWork
  <2>2. 1 \in 1 .. Len(scopes) - 1
    <3>1. Len(scopes) - Width(Top) \in Nat \ {0} /\ Width(Top) \in {1, 2} /\ Len(scopes) \in Nat
      BY <1>1, <2>1, Room, Widths
    <3> QED
      BY ONLY <3>1
  <2>3. VarsIn(scopes'[1]) \subseteq VarsIn(scopes[1])
    BY <2>2 DEF VarsWork
  <2> QED
    BY <2>1, <2>3 DEF Scoped, Unshadowed
<1> QED
  BY <1>3, <1>6, <1>7, <1>8, <1>9 DEF Scoped

LEMMA ScopedPush ==
  ASSUME Shape, Scoped, NEW fr, Opened(fr), fr.kind # "unit", fr.kind = "function" <=> Top.kind = "unit",
         fr.kind = "function" => fr.name \notin VarsIn(scopes[1]),
         Listed(scopes'), IsContext(context'),
         VarsPush(fr, scopes, scopes', context.scopes, context'.scopes)
  PROVE  Shape' /\ Scoped'
<1>1. /\ Len(stack) \in Nat \ {0} /\ Len(scopes) \in Nat \ {0}
      /\ Len(scopes') = Len(scopes) + Width(fr)
      /\ Len(context'.scopes) >= Len(context.scopes) + Own(fr)
  BY TopFrame DEF VarsPush
<1>2. Len(context'.scopes) \in Nat
  BY ListedLen DEF IsContext
<1>3. Shape'
  <2>1. Len(scopes') > 0
    BY <1>1, Widths
  <2>2. /\ Listed(stack') /\ Len(stack') = Len(stack) + 1
        /\ \A i \in 1 .. Len(stack') : IsFrame(stack'[i])
        /\ Nested(stack')
    BY OpenedFrames
  <2> QED
    BY <1>1, <2>1, <2>2 DEF Shape
<1>4. PICK c, h : /\ Levels(c, stack, Len(scopes)) /\ Heights(h, stack, Len(context.scopes))
                  /\ Held(c, h, scopes, context.scopes)
  BY DEF Scoped
<1>5. /\ Len(stack') = Len(stack) + 1 /\ \A i \in 1 .. Len(stack) : stack'[i] = stack[i]
      /\ stack'[Len(stack) + 1] = fr
  BY DEF Opened
<1>6. Levels(Longer(c, Len(stack), Len(scopes')), stack', Len(scopes'))
  BY <1>1, <1>4, <1>5, LevelsPush
<1>7. Heights(Longer(h, Len(stack), Len(context'.scopes)), stack', Len(context'.scopes))
  BY <1>1, <1>2, <1>4, <1>5, HeightsPush
<1>8. Held(Longer(c, Len(stack), Len(scopes')), Longer(h, Len(stack), Len(context'.scopes)),
           scopes', context'.scopes)
  BY <1>1, <1>2, <1>4, HeldPush
<1>9. Unshadowed'
  <2>1. VarsIn(scopes'[1]) \subseteq VarsIn(scopes[1])
    <3>1. 1 \in 1 .. Len(scopes)
      BY <1>1
    <3> QED
      BY <3>1 DEF VarsPush
  <2>2. CASE Len(stack) = 1
    <3>1. stack'[2] = fr /\ Top = stack[1]
      BY <1>5, <2>2 DEF Top
    <3>2. fr.kind = "function"
      BY <3>1 DEF Shape, Nested
    <3> QED
      BY <2>1, <3>1, <3>2 DEF Unshadowed
  <2>3. CASE Len(stack) > 1
    <3>1. stack'[2] = stack[2] /\ stack[2].name \notin VarsIn(scopes[1])
      BY <1>1, <1>5, <2>3 DEF Scoped, Unshadowed
    <3> QED
      BY <2>1, <3>1 DEF Unshadowed
  <2>4. Len(stack) = 1 \/ Len(stack) > 1
    BY <1>1, OneOrMore
  <2> QED
    BY <2>2, <2>3, <2>4
<1> QED
  BY <1>3, <1>6, <1>7, <1>8, <1>9 DEF Scoped

LEMMA ScopedDrop ==
  ASSUME Shape, Scoped, NEW bad, Dropped(bad), NEW lost, Listed(scopes'), IsContext(context'),
         VarsDrop(Top, scopes, scopes', context.scopes, context'.scopes, lost)
  PROVE  Shape' /\ Scoped'
<1>1. /\ Len(stack) \in Nat /\ Len(stack) > 1 /\ Top = stack[Len(stack)]
      /\ Len(scopes') = Len(scopes) - Width(Top)
      /\ Len(context'.scopes) >= Len(context.scopes) - Own(Top)
  BY TopFrame DEF Dropped, VarsDrop
<1>2. Len(context'.scopes) \in Nat /\ Len(stack) \in Nat \ {0, 1}
  BY <1>1, ListedLen DEF IsContext
<1>3. /\ Listed(stack') /\ Len(stack') = Len(stack) - 1 /\ Len(stack') > 0
      /\ \A i \in 1 .. Len(stack') : IsFrame(stack'[i])
      /\ \A i \in 1 .. Len(stack') : stack'[i].kind = stack[i].kind
      /\ \A i \in 1 .. Len(stack') : stack'[i].name = stack[i].name
      /\ Nested(stack')
  BY DroppedFrames
<1>4. Len(scopes) - Width(Top) \in Nat \ {0}
  BY <1>1, Room
<1>5. Shape'
  <2>1. Len(scopes') > 0
    BY <1>1, <1>4
  <2> QED
    BY <1>3, <2>1 DEF Shape
<1>6. PICK c, h : /\ Levels(c, stack, Len(scopes)) /\ Heights(h, stack, Len(context.scopes))
                  /\ Held(c, h, scopes, context.scopes)
  BY DEF Scoped
<1>7. /\ \A i \in 1 .. Len(stack') : Width(stack'[i]) = Width(stack[i])
      /\ \A i \in 1 .. Len(stack') : Own(stack'[i]) = Own(stack[i])
  BY <1>3 DEF Width, Own, OwnsScope
<1>8. Levels(Shorter(c, Len(stack'), Len(scopes')), stack', Len(scopes'))
  BY <1>1, <1>2, <1>3, <1>6, <1>7, LevelsDrop
<1>9. Heights(Shorter(h, Len(stack'), Len(context'.scopes)), stack', Len(context'.scopes))
  BY <1>1, <1>2, <1>3, <1>6, <1>7, HeightsDrop
<1>10. Held(Shorter(c, Len(stack'), Len(scopes')), Shorter(h, Len(stack'), Len(context'.scopes)),
            scopes', context'.scopes)
  BY <1>1, <1>2, <1>3, <1>6, HeldDrop
<1>11. Unshadowed'
  <2> SUFFICES ASSUME Len(stack') > 1 PROVE stack'[2].name \notin VarsIn(scopes'[1])
    BY DEF Unshadowed
  <2>1. stack'[2].name = stack[2].name
    <3>1. 2 \in 1 .. Len(stack')
      <4>1. Len(stack') = Len(stack) - 1 /\ Len(stack) \in Nat /\ Len(stack') > 1
        BY <1>1, <1>3
      <4> QED
        BY ONLY <4>1
    <3> QED
      BY <1>3, <3>1
  <2>2. VarsIn(scopes'[1]) \subseteq VarsIn(scopes[1])
    <3>1. 1 \in 1 .. Len(scopes) - Width(Top)
      BY <1>4
    <3> QED
      BY <3>1 DEF VarsDrop
  <2> QED
    BY <1>1, <2>1, <2>2 DEF Scoped, Unshadowed
<1> QED
  BY <1>5, <1>8, <1>9, <1>10, <1>11 DEF Scoped

\* The scopes before the last are kept.
LEMMA WorksVars ==
  ASSUME NEW s, NEW s2, NEW t, NEW t2, NEW new, Len(t) \in Nat \ {0},
         Len(s2) = Len(s), \A k \in 1 .. Len(s) - 1 : s2[k] = s[k],
         VarsIn(s2[Len(s)]) \subseteq VarsIn(s[Len(s)]) \cup new,
         Len(t2) = Len(t), \A k \in 1 .. Len(t) - 1 : t2[k] = t[k],
         VarsIn(t2[Len(t)]) = VarsIn(t[Len(t)]) \cup new
  PROVE  VarsWork(s, s2, t, t2, new)
<1>1. \A k \in 1 .. Len(t) : VarsIn(t[k]) \subseteq VarsIn(t2[k])
  <2>1. \A k \in 1 .. Len(t) : k \in 1 .. Len(t) - 1 \/ k = Len(t)
    OBVIOUS
  <2> QED
    BY <2>1
<1>2. Len(t2) >= Len(t)
  OBVIOUS
<1> QED
  BY <1>1, <1>2 DEF VarsWork

LEMMA PushesVars ==
  ASSUME NEW fr, NEW s, NEW s2, NEW t, NEW t2, NEW n \in Nat, Len(t) \in Nat,
         Own(fr) = n, Len(s2) = Len(s) + Width(fr), Len(t2) = Len(t) + n,
         \A k \in 1 .. Len(s) : VarsIn(s2[k]) \subseteq VarsIn(s[k]),
         \A k \in Len(s) + 1 .. Len(s2) : VarsIn(s2[k]) \subseteq VarsIn(t2[Len(t2)]),
         \A k \in 1 .. Len(t) : VarsIn(t[k]) \subseteq VarsIn(t2[k])
  PROVE  VarsPush(fr, s, s2, t, t2)
<1>1. Len(t2) >= Len(t) + Own(fr)
  OBVIOUS
<1> QED
  BY <1>1 DEF VarsPush

\* Work in the open construct.
LEMMA WorkedWork ==
  ASSUME Shape, NEW bad, Worked(bad)
  PROVE  FramesWork
<1>1. /\ Listed(stack') /\ Len(stack') = Len(stack)
      /\ \A i \in 1 .. Len(stack) : IsFrame(stack'[i])
      /\ \A i \in 1 .. Len(stack) : stack'[i].kind = stack[i].kind
      /\ \A i \in 1 .. Len(stack) : stack'[i].name = stack[i].name
      /\ Nested(stack')
  BY WorkedFrames
<1>2. Len(stack) > 1 => 2 \in 1 .. Len(stack)
  BY TopFrame
<1> QED
  BY <1>1, <1>2 DEF FramesWork, Width, Own, OwnsScope

LEMMA SameVars ==
  ASSUME Shape, UNCHANGED <<context, scopes>>
  PROVE  /\ Listed(scopes') /\ IsContext(context')
         /\ VarsWork(scopes, scopes', context.scopes, context'.scopes, {})
BY TopFrame DEF Shape, VarsWork

LEMMA StatedScoped ==
  ASSUME Shape, Scoped, Stated
  PROVE  Shape' /\ Scoped'
<1>1. FramesWork
  BY WorkedWork DEF Stated
<1> QED
  BY <1>1, SameVars, ScopedWork DEF Stated

LEMMA DeclaresScoped ==
  ASSUME Shape, Scoped, Declares
  PROVE  Shape' /\ Scoped'
<1>1. FramesWork
  BY WorkedWork DEF Declares
<1>2. PICK new : \E agree \in BOOLEAN : Declared(new, agree)
  BY DEF Declares
<1>3. GrownLast(scopes, scopes', new) /\ IsContext(context') /\ GrownLast(context.scopes, context'.scopes, new)
  BY <1>2 DEF Declared
<1>4. Listed(scopes') /\ Len(scopes') = Len(scopes) /\ Len(context'.scopes) = Len(context.scopes)
  BY <1>3 DEF GrownLast
<1>5. /\ \A k \in 1 .. Len(scopes) - 1 : scopes'[k] = scopes[k]
      /\ VarsIn(scopes'[Len(scopes)]) = VarsIn(scopes[Len(scopes)]) \cup new
  BY <1>3 DEF GrownLast, Grown
<1>6. /\ \A k \in 1 .. Len(context.scopes) - 1 : context'.scopes[k] = context.scopes[k]
      /\ VarsIn(context'.scopes[Len(context.scopes)]) = VarsIn(context.scopes[Len(context.scopes)]) \cup new
  BY <1>3 DEF GrownLast, Grown
<1>7. Len(context.scopes) \in Nat \ {0}
  BY TopFrame
<1>8. VarsWork(scopes, scopes', context.scopes, context'.scopes, new)
  BY <1>4, <1>5, <1>6, <1>7, WorksVars
<1> QED
  BY <1>1, <1>3, <1>4, <1>8, ScopedWork

LEMMA NothingScoped ==
  ASSUME Shape, Scoped, OpensNothing
  PROVE  Shape' /\ Scoped'
<1>1. FramesWork
  BY WorkedWork DEF OpensNothing
<1>2. /\ IsContext(context') /\ Len(context'.scopes) >= Len(context.scopes)
      /\ \A k \in 1 .. Len(context.scopes) : context'.scopes[k] = context.scopes[k]
  <2>0. IsContext(context) /\ Len(context.scopes) \in Nat
    BY TopFrame DEF Shape
  <2> DEFINE opened == create_new_scope(context)
  <2>1. /\ IsContext(opened) /\ Len(opened.scopes) = Len(context.scopes) + 1
        /\ \A k \in 1 .. Len(context.scopes) : opened.scopes[k] = context.scopes[k]
    BY <2>0, Creates
  <2>2. ASSUME context' = context
        PROVE  /\ IsContext(context') /\ Len(context'.scopes) >= Len(context.scopes)
               /\ \A k \in 1 .. Len(context.scopes) : context'.scopes[k] = context.scopes[k]
    BY <2>0, <2>2
  <2>3. ASSUME context' = opened
        PROVE  /\ IsContext(context') /\ Len(context'.scopes) >= Len(context.scopes)
               /\ \A k \in 1 .. Len(context.scopes) : context'.scopes[k] = context.scopes[k]
    <3> HIDE DEF opened
    <3> QED
      BY <2>0, <2>1, <2>3
  <2>4. ASSUME NEW x, NEW item, context' = insert_in_last_scope(opened, x, item)
        PROVE  /\ IsContext(context') /\ Len(context'.scopes) >= Len(context.scopes)
               /\ \A k \in 1 .. Len(context.scopes) : context'.scopes[k] = context.scopes[k]
    <3> HIDE DEF opened
    <3>1. /\ IsContext(context') /\ Len(context'.scopes) = Len(opened.scopes)
          /\ \A k \in 1 .. Len(opened.scopes) - 1 : context'.scopes[k] = opened.scopes[k]
      BY <2>1, <2>4, Inserts
    <3>2. Len(opened.scopes) - 1 = Len(context.scopes)
      BY <2>0, <2>1
    <3> QED
      BY <2>0, <2>1, <3>1, <3>2
  <2>5. \/ context' = context
        \/ context' = opened
        \/ \E x, item : context' = insert_in_last_scope(opened, x, item)
    BY DEF OpensNothing
  <2>6. CASE context' = opened \/ context' = context
    BY <2>2, <2>3, <2>6
  <2> HIDE DEF opened
  <2> QED
    BY <2>4, <2>5, <2>6
<1>3. Listed(scopes') /\ scopes' = scopes
  BY DEF OpensNothing, Shape
<1>4. VarsWork(scopes, scopes', context.scopes, context'.scopes, {})
  BY <1>2, <1>3 DEF VarsWork
<1> QED
  BY <1>1, <1>2, <1>3, <1>4, ScopedWork

LEMMA SwitchesScoped ==
  ASSUME Shape, Scoped, Switches
  PROVE  Shape' /\ Scoped'
<1>1. /\ Top.kind = "if" /\ Top = stack[Len(stack)] /\ Len(stack) \in Nat \ {0}
      /\ Listed(stack') /\ Len(stack') = Len(stack)
      /\ \A i \in 1 .. Len(stack) - 1 : stack'[i] = stack[i]
      /\ IsFrame(stack'[Len(stack)]) /\ stack'[Len(stack)].kind = "else"
  BY TopFrame DEF Switches
<1>2. \A i \in 1 .. Len(stack) : (i \in 1 .. Len(stack) - 1 /\ stack'[i] = stack[i]) \/ i = Len(stack)
  BY <1>1
<1>3. Len(stack) # 1 /\ Len(stack) # 2
  BY <1>1 DEF Shape, Nested
<1>4. FramesWork
  <2>1. \A i \in 1 .. Len(stack) : IsFrame(stack'[i])
    BY <1>1, <1>2 DEF Shape
  <2>2. \A i \in 1 .. Len(stack) : Width(stack'[i]) = Width(stack[i]) /\ Own(stack'[i]) = Own(stack[i])
    BY <1>1, <1>2 DEF Width, Own, OwnsScope
  <2>3. stack'[1] = stack[1] /\ stack'[2] = stack[2]
    BY <1>1, <1>3
  <2>4. \A i \in 2 .. Len(stack) : stack'[i] = stack[i] \/ (i = Len(stack) /\ stack'[i].kind = "else")
    BY <1>1, <1>2
  <2>5. Nested(stack')
    <3>1. /\ stack[1].kind = "unit" /\ \A i \in 2 .. Len(stack) : stack[i].kind # "unit"
          /\ \A i \in 2 .. Len(stack) : stack[i].kind = "function" <=> i = 2
      BY DEF Shape, Nested
    <3>2. \A i \in 2 .. Len(stack) : stack'[i].kind = stack[i].kind
                                   \/ (i # 2 /\ stack'[i].kind = "else" /\ stack[i].kind # "function")
      BY <1>1, <1>3, <2>4
    <3>3. \A i \in 2 .. Len(stack) : /\ stack'[i].kind # "unit"
                                    /\ stack'[i].kind = "function" <=> i = 2
      BY <3>1, <3>2
    <3> QED
      BY <1>1, <2>3, <3>1, <3>3 DEF Nested
  <2> QED
    BY <1>1, <2>1, <2>2, <2>3, <2>5 DEF FramesWork
<1>5. /\ Listed(scopes') /\ Len(scopes') = Len(scopes)
      /\ \A k \in 1 .. Len(scopes) - 1 : scopes'[k] = scopes[k]
      /\ scopes'[Len(scopes)] = << >>
  <2>1. scopes' = WithTop(scopes, << >>)
    BY DEF Switches, WithTop
  <2> QED
    BY <2>1, Replaced DEF Shape
<1>6. UNCHANGED context /\ IsContext(context')
  BY DEF Switches, Shape
<1>7. VarsWork(scopes, scopes', context.scopes, context'.scopes, {})
  BY <1>5, <1>6, TopFrame, NoVars DEF VarsWork
<1> QED
  BY <1>4, <1>5, <1>6, <1>7, ScopedWork

LEMMA SkipsScoped ==
  ASSUME Shape, Scoped, Skips
  PROVE  Shape' /\ Scoped'
<1>1. FramesWork
  BY SameWorks, WorkedWork DEF Skips
<1> QED
  BY <1>1, SameVars, ScopedWork DEF Skips

LEMMA EndsScoped ==
  ASSUME Shape, Scoped, Ends
  PROVE  Shape' /\ Scoped'
<1>1. FramesWork
  BY WorkedWork DEF Ends
<1> QED
  BY <1>1, SameVars, ScopedWork DEF Ends

\* A construct opens.
LEMMA PlainScoped ==
  ASSUME Shape, Scoped, OpensPlain
  PROVE  Shape' /\ Scoped'
<1>1. PICK fr : /\ Opened(fr) /\ fr.kind \in {"block", "unsafe", "switch", "case"} /\ Top.kind # "unit"
                /\ scopes' = Append(scopes, << >>) /\ context' = context
  BY DEF OpensPlain
<1>2. Width(fr) = 1 /\ Own(fr) = 0
  BY <1>1 DEF Width, Own, OwnsScope
<1>3. /\ Listed(scopes') /\ Len(scopes') = Len(scopes) + 1
      /\ \A k \in 1 .. Len(scopes) : scopes'[k] = scopes[k]
      /\ scopes'[Len(scopes) + 1] = << >>
  BY <1>1, Pushed DEF Shape
<1>4. \A k \in Len(scopes) + 1 .. Len(scopes') : VarsIn(scopes'[k]) = {}
  <2>1. \A k \in Len(scopes) + 1 .. Len(scopes') : k = Len(scopes) + 1
    BY <1>3, TopFrame
  <2> QED
    BY <1>3, <2>1, NoVars
<1>9. /\ \A k \in 1 .. Len(scopes) : VarsIn(scopes'[k]) \subseteq VarsIn(scopes[k])
      /\ \A k \in 1 .. Len(context.scopes) : VarsIn(context.scopes[k]) \subseteq VarsIn(context'.scopes[k])
  BY <1>1, <1>3
<1>10. \A k \in Len(scopes) + 1 .. Len(scopes') : VarsIn(scopes'[k]) \subseteq VarsIn(context'.scopes[Len(context'.scopes)])
  BY <1>4
<1>11. Len(context'.scopes) = Len(context.scopes) + 0 /\ Len(context.scopes) \in Nat
  BY <1>1, TopFrame
<1>12. Len(scopes') = Len(scopes) + Width(fr)
  BY <1>2, <1>3
<1>5. VarsPush(fr, scopes, scopes', context.scopes, context'.scopes)
  <2>1. Len(context'.scopes) >= Len(context.scopes) + Own(fr)
    BY <1>2, <1>11
  <2> QED
    BY <1>9, <1>10, <1>12, <2>1 DEF VarsPush
<1>6. IsContext(context')
  BY <1>1 DEF Shape
<1> QED
  BY <1>1, <1>3, <1>5, <1>6, ScopedPush

LEMMA ScopedScoped ==
  ASSUME Shape, Scoped, OpensScoped
  PROVE  Shape' /\ Scoped'
<1>1. PICK fr : /\ Opened(fr) /\ fr.kind \in {"while", "do", "if"} /\ Top.kind # "unit"
                /\ scopes' = Append(scopes, << >>) /\ context' = create_new_scope(context)
  BY NotInUnit DEF OpensScoped
<1>2. Width(fr) = 1 /\ Own(fr) = 1
  BY <1>1 DEF Width, Own, OwnsScope
<1>3. /\ Listed(scopes') /\ Len(scopes') = Len(scopes) + 1
      /\ \A k \in 1 .. Len(scopes) : scopes'[k] = scopes[k]
      /\ scopes'[Len(scopes) + 1] = << >>
  BY <1>1, Pushed DEF Shape
<1>4. \A k \in Len(scopes) + 1 .. Len(scopes') : VarsIn(scopes'[k]) = {}
  <2>1. \A k \in Len(scopes) + 1 .. Len(scopes') : k = Len(scopes) + 1
    BY <1>3, TopFrame
  <2> QED
    BY <1>3, <2>1, NoVars
<1>5. /\ IsContext(context') /\ Len(context'.scopes) = Len(context.scopes) + 1
      /\ \A k \in 1 .. Len(context.scopes) : context'.scopes[k] = context.scopes[k]
  BY <1>1, Creates DEF Shape
<1>9. /\ \A k \in 1 .. Len(scopes) : VarsIn(scopes'[k]) \subseteq VarsIn(scopes[k])
      /\ \A k \in 1 .. Len(context.scopes) : VarsIn(context.scopes[k]) \subseteq VarsIn(context'.scopes[k])
  BY <1>3, <1>5
<1>10. \A k \in Len(scopes) + 1 .. Len(scopes') : VarsIn(scopes'[k]) \subseteq VarsIn(context'.scopes[Len(context'.scopes)])
  BY <1>4
<1>11. Len(context'.scopes) = Len(context.scopes) + 1 /\ Len(context.scopes) \in Nat
  BY <1>5, TopFrame
<1>12. Len(scopes') = Len(scopes) + Width(fr)
  BY <1>2, <1>3
<1>6. VarsPush(fr, scopes, scopes', context.scopes, context'.scopes)
  BY <1>2, <1>9, <1>10, <1>11, <1>12, PushesVars
<1> QED
  BY <1>1, <1>3, <1>5, <1>6, ScopedPush

\* The scopes of C and of the transpiler when a for opens.
LEMMA ForScopes ==
  ASSUME Shape, NEW x, NEW item, item.kind = "variable",
         scopes' = Append(InScope(Append(scopes, << >>), x, item), << >>),
         context' = insert_in_last_scope(create_new_scope(context), x, item)
  PROVE  /\ Listed(scopes') /\ Len(scopes') = Len(scopes) + 2
         /\ \A k \in 1 .. Len(scopes) : scopes'[k] = scopes[k]
         /\ scopes'[Len(scopes) + 1] = Bound(<< >>, x, item)
         /\ scopes'[Len(scopes) + 2] = << >>
         /\ IsContext(context') /\ Len(context'.scopes) = Len(context.scopes) + 1
         /\ \A k \in 1 .. Len(context.scopes) : context'.scopes[k] = context.scopes[k]
         /\ context'.scopes[Len(context.scopes) + 1] = Bound(<< >>, x, item)
         /\ VarsIn(Bound(<< >>, x, item)) = {x}
<1> DEFINE s1 == Append(scopes, << >>)
           s2 == InScope(s1, x, item)
           opened == create_new_scope(context)
<1>0. Listed(scopes) /\ Len(scopes) \in Nat /\ Len(context.scopes) \in Nat
  BY TopFrame DEF Shape
<1>1. /\ Listed(s1) /\ Len(s1) = Len(scopes) + 1
      /\ \A k \in 1 .. Len(scopes) : s1[k] = scopes[k]
      /\ s1[Len(scopes) + 1] = << >>
  BY <1>0, Pushed
<1> HIDE DEF s1
<1>2. /\ Listed(s2) /\ Len(s2) = Len(s1)
      /\ \A k \in 1 .. Len(s1) - 1 : s2[k] = s1[k]
      /\ s2[Len(s1)] = Bound(s1[Len(s1)], x, item)
  BY <1>0, <1>1, InScopes
<1> HIDE DEF s2
<1>3. /\ Listed(scopes') /\ Len(scopes') = Len(s2) + 1
      /\ \A k \in 1 .. Len(s2) : scopes'[k] = s2[k]
      /\ scopes'[Len(s2) + 1] = << >>
  <2>1. scopes' = Append(s2, << >>)
    BY DEF s2, s1
  <2> QED
    BY ONLY <1>2, <2>1, Pushed
<1>4. Len(s1) - 1 = Len(scopes) /\ Len(s2) = Len(scopes) + 1
  BY <1>0, <1>1, <1>2
<1>5. /\ IsContext(opened) /\ Len(opened.scopes) = Len(context.scopes) + 1
      /\ \A k \in 1 .. Len(context.scopes) : opened.scopes[k] = context.scopes[k]
      /\ opened.scopes[Len(context.scopes) + 1] = << >>
  BY Creates DEF Shape
<1>6. context' = insert_in_last_scope(opened, x, item)
  OBVIOUS
<1> HIDE DEF opened
<1>7. /\ IsContext(context') /\ Len(context'.scopes) = Len(opened.scopes)
      /\ \A k \in 1 .. Len(opened.scopes) - 1 : context'.scopes[k] = opened.scopes[k]
      /\ context'.scopes[Len(opened.scopes)] = Bound(opened.scopes[Len(opened.scopes)], x, item)
  BY ONLY <1>5, <1>6, Inserts
<1>8. Len(opened.scopes) - 1 = Len(context.scopes)
  BY <1>0, <1>5
<1>9. VarsIn(Bound(<< >>, x, item)) = {x}
  BY BoundVars, NoVars
<1>10. /\ Len(scopes') = Len(scopes) + 2
       /\ \A k \in 1 .. Len(scopes) : scopes'[k] = scopes[k]
       /\ scopes'[Len(scopes) + 1] = Bound(<< >>, x, item)
       /\ scopes'[Len(scopes) + 2] = << >>
  BY <1>0, <1>1, <1>2, <1>3, <1>4
<1>11. /\ Len(context'.scopes) = Len(context.scopes) + 1
       /\ \A k \in 1 .. Len(context.scopes) : context'.scopes[k] = context.scopes[k]
       /\ context'.scopes[Len(context.scopes) + 1] = Bound(<< >>, x, item)
  BY <1>5, <1>7, <1>8
<1> QED
  BY <1>3, <1>7, <1>9, <1>10, <1>11

LEMMA ForScoped ==
  ASSUME Shape, Scoped, OpensFor
  PROVE  Shape' /\ Scoped'
<1>1. PICK fr, x, item :
         /\ Opened(fr) /\ fr.kind = "for" /\ Top.kind # "unit" /\ item.kind = "variable"
         /\ scopes' = Append(InScope(Append(scopes, << >>), x, item), << >>)
         /\ context' = insert_in_last_scope(create_new_scope(context), x, item)
  BY NotInUnit DEF OpensFor
<1>2. Width(fr) = 2 /\ Own(fr) = 1
  BY <1>1 DEF Width, Own, OwnsScope
<1>3. /\ Listed(scopes') /\ Len(scopes') = Len(scopes) + 2
      /\ \A k \in 1 .. Len(scopes) : scopes'[k] = scopes[k]
      /\ scopes'[Len(scopes) + 1] = Bound(<< >>, x, item)
      /\ scopes'[Len(scopes) + 2] = << >>
      /\ IsContext(context') /\ Len(context'.scopes) = Len(context.scopes) + 1
      /\ \A k \in 1 .. Len(context.scopes) : context'.scopes[k] = context.scopes[k]
      /\ context'.scopes[Len(context.scopes) + 1] = Bound(<< >>, x, item)
  BY <1>1, ForScopes
<1>4. \A k \in Len(scopes) + 1 .. Len(scopes') :
        VarsIn(scopes'[k]) \subseteq VarsIn(context'.scopes[Len(context'.scopes)])
  <2>1. \A k \in Len(scopes) + 1 .. Len(scopes') : k = Len(scopes) + 1 \/ k = Len(scopes) + 2
    BY <1>3, TopFrame
  <2> QED
    BY <1>3, <2>1, NoVars
<1>9. /\ \A k \in 1 .. Len(scopes) : VarsIn(scopes'[k]) \subseteq VarsIn(scopes[k])
      /\ \A k \in 1 .. Len(context.scopes) : VarsIn(context.scopes[k]) \subseteq VarsIn(context'.scopes[k])
  BY <1>3
<1>11. Len(context'.scopes) = Len(context.scopes) + 1 /\ Len(context.scopes) \in Nat
  BY <1>3, TopFrame
<1>12. Len(scopes') = Len(scopes) + Width(fr)
  BY <1>2, <1>3
<1>5. VarsPush(fr, scopes, scopes', context.scopes, context'.scopes)
  BY <1>2, <1>4, <1>9, <1>11, <1>12, PushesVars
<1> QED
  BY <1>1, <1>3, <1>5, ScopedPush

LEMMA FunctionScoped ==
  ASSUME Shape, Scoped, OpensFunction
  PROVE  Shape' /\ Scoped'
<1>1. PICK fr, item, items :
         /\ Top.kind = "unit" /\ Opened(fr) /\ fr.kind = "function"
         /\ fr.name \notin DOMAIN scopes[1] /\ item.kind = "function"
         /\ scopes' = Append(InScope(scopes, fr.name, item), items)
         /\ context' = [context EXCEPT !.scopes = Append(@, items)]
  BY DEF OpensFunction
<1> DEFINE s == InScope(scopes, fr.name, item)
<1>2. Width(fr) = 1 /\ Own(fr) = 0
  BY <1>1 DEF Width, Own, OwnsScope
<1>3. /\ Listed(s) /\ Len(s) = Len(scopes)
      /\ \A k \in 1 .. Len(scopes) - 1 : s[k] = scopes[k]
      /\ s[Len(scopes)] = Bound(scopes[Len(scopes)], fr.name, item)
  BY InScopes DEF Shape
<1>4. scopes' = Append(s, items)
  BY <1>1
<1> HIDE DEF s
<1>5. /\ Listed(scopes') /\ Len(scopes') = Len(scopes) + 1
      /\ \A k \in 1 .. Len(scopes) : scopes'[k] = s[k]
      /\ scopes'[Len(scopes) + 1] = items
  BY <1>3, <1>4, Pushed
<1>6. /\ IsContext(context') /\ Len(context'.scopes) = Len(context.scopes) + 1
      /\ \A k \in 1 .. Len(context.scopes) : context'.scopes[k] = context.scopes[k]
      /\ context'.scopes[Len(context.scopes) + 1] = items
  <2> DEFINE t == Append(context.scopes, items)
  <2>1. context = [scopes |-> context.scopes, types |-> context.types] /\ context' = [context EXCEPT !.scopes = t]
    BY <1>1 DEF Shape, IsContext
  <2>2. /\ Listed(t) /\ Len(t) = Len(context.scopes) + 1
        /\ \A k \in 1 .. Len(context.scopes) : t[k] = context.scopes[k]
        /\ t[Len(context.scopes) + 1] = items
    BY Pushed DEF Shape, IsContext
  <2> HIDE DEF t
  <2>3. context'.scopes = t /\ context' = [scopes |-> context'.scopes, types |-> context'.types]
    BY <2>1
  <2> QED
    BY <2>2, <2>3, TopFrame DEF IsContext
<1>7. \A k \in 1 .. Len(scopes) : VarsIn(scopes'[k]) \subseteq VarsIn(scopes[k])
  <2>1. \A k \in 1 .. Len(scopes) : k \in 1 .. Len(scopes) - 1 \/ k = Len(scopes)
    BY TopFrame
  <2>2. VarsIn(Bound(scopes[Len(scopes)], fr.name, item)) \subseteq VarsIn(scopes[Len(scopes)])
    BY <1>1, BoundVars
  <2> QED
    BY <1>3, <1>5, <2>1, <2>2
<1>8. \A k \in Len(scopes) + 1 .. Len(scopes') :
        VarsIn(scopes'[k]) \subseteq VarsIn(context'.scopes[Len(context'.scopes)])
  <2>1. \A k \in Len(scopes) + 1 .. Len(scopes') : k = Len(scopes) + 1
    BY <1>5, TopFrame
  <2> QED
    BY <1>5, <1>6, <2>1
<1>11. Len(context'.scopes) = Len(context.scopes) + 0 + 1 /\ Len(context.scopes) \in Nat
  BY <1>6, TopFrame
<1>9. VarsPush(fr, scopes, scopes', context.scopes, context'.scopes)
  <2>1. Len(scopes') = Len(scopes) + Width(fr) /\ Len(context'.scopes) >= Len(context.scopes) + Own(fr)
    BY <1>2, <1>5, <1>11
  <2>2. \A k \in 1 .. Len(context.scopes) : VarsIn(context.scopes[k]) \subseteq VarsIn(context'.scopes[k])
    BY <1>6
  <2> QED
    BY <1>7, <1>8, <2>1, <2>2 DEF VarsPush
<1>10. fr.name \notin VarsIn(scopes[1])
  BY <1>1 DEF VarsIn
<1> QED
  BY <1>1, <1>5, <1>6, <1>9, <1>10, ScopedPush

\* A construct is left.
LEMMA CScopesLeft ==
  ASSUME Shape, Scoped, NEW bad, Leaves(bad)
  PROVE  /\ Listed(scopes') /\ Len(scopes') = Len(scopes) - Width(Top)
         /\ \A k \in 1 .. Len(scopes) - Width(Top) : scopes'[k] = scopes[k]
<1>1. Len(scopes) - Width(Top) \in Nat \ {0} /\ Len(scopes) \in Nat /\ Listed(scopes)
  BY Room, TopFrame DEF Leaves, Dropped, Shape
<1>2. Width(Top) \in 0 .. Len(scopes)
  BY <1>1, Widths
<1>3. scopes' = SubSeq(scopes, 1, Len(scopes) - Width(Top))
  BY DEF Leaves
<1> HIDE DEF Width
<1> QED
  BY <1>1, <1>2, <1>3, Popped

LEMMA LeftScoped ==
  ASSUME Shape, Scoped, NEW bad, Leaves(bad), IsContext(context'),
         Len(context'.scopes) >= Len(context.scopes) - Own(Top),
         \A k \in 1 .. Len(context.scopes) - Own(Top) : context'.scopes[k] = context.scopes[k]
  PROVE  Shape' /\ Scoped'
<1>1. /\ Listed(scopes') /\ Len(scopes') = Len(scopes) - Width(Top)
      /\ \A k \in 1 .. Len(scopes) - Width(Top) : scopes'[k] = scopes[k]
  BY CScopesLeft
<1>2. VarsDrop(Top, scopes, scopes', context.scopes, context'.scopes, {})
  BY <1>1 DEF VarsDrop
<1> QED
  BY <1>1, <1>2, ScopedDrop DEF Leaves

LEMMA ConstructScoped ==
  ASSUME Shape, Scoped, LeavesConstruct
  PROVE  Shape' /\ Scoped'
<1>1. /\ Dropped(~Translated(Top)) /\ Leaves(~Translated(Top)) /\ IsContext(context) /\ Len(stack) > 1
  BY DEF LeavesConstruct, Leaves, Dropped, Shape
<1>2. CASE OwnsScope(Top) /\ Top.ok
  <2>1. Own(Top) = 1 /\ Len(context.scopes) > 1 /\ context' = pop_last_scope(context)
    BY <1>1, <1>2, Room DEF Own, LeavesConstruct
  <2>2. /\ IsContext(context') /\ Len(context'.scopes) = Len(context.scopes) - 1
        /\ \A k \in 1 .. Len(context.scopes) - 1 : context'.scopes[k] = context.scopes[k]
    BY <1>1, <2>1, Pops
  <2>3. Len(context'.scopes) >= Len(context.scopes) - 1
    BY <2>2, TopFrame
  <2> QED
    BY <1>1, <2>1, <2>2, <2>3, LeftScoped
<1>3. CASE ~(OwnsScope(Top) /\ Top.ok)
  <2>1. context' = context
    BY <1>3 DEF LeavesConstruct
  <2>2. Len(context'.scopes) >= Len(context.scopes) - Own(Top)
    BY <2>1, Widths, TopFrame
  <2> QED
    BY <1>1, <2>1, <2>2, LeftScoped
<1> QED
  BY <1>2, <1>3

LEMMA CaseScoped ==
  ASSUME Shape, Scoped, LeavesCase
  PROVE  Shape' /\ Scoped'
<1>1. Leaves(FALSE) /\ context' = context /\ IsContext(context')
  BY DEF LeavesCase, Shape
<1>2. Len(context'.scopes) >= Len(context.scopes) - Own(Top)
  BY <1>1, Widths, TopFrame
<1> QED
  BY <1>1, <1>2, LeftScoped

\* The function's name takes the place of no variable of C that is left.
LEMMA FunctionLeftScoped ==
  ASSUME Shape, Scoped, LeavesFunction
  PROVE  Shape' /\ Scoped'
<1>1. /\ Leaves(~Top.ok) /\ Dropped(~Top.ok) /\ Top.kind = "function" /\ Len(stack) > 1
  BY DEF LeavesFunction, Leaves, Dropped
<1>2. Width(Top) = 1 /\ Own(Top) = 0 /\ Len(stack) = 2 /\ Len(scopes) = 2
  BY <1>1, Room DEF Width, Own, OwnsScope
<1>3. /\ Listed(scopes') /\ Len(scopes') = Len(scopes) - Width(Top)
      /\ \A k \in 1 .. Len(scopes) - Width(Top) : scopes'[k] = scopes[k]
  BY <1>1, CScopesLeft
<1>4. Top.name \notin VarsIn(scopes[1])
  BY <1>1, <1>2 DEF Scoped, Unshadowed, Top
<1>5. CASE Top.ok
  <2>1. PICK item : context' = insert_in_last_scope(context, Top.name, item)
    BY <1>5 DEF LeavesFunction
  <2>2. /\ IsContext(context') /\ Len(context'.scopes) = Len(context.scopes)
        /\ \A k \in 1 .. Len(context.scopes) - 1 : context'.scopes[k] = context.scopes[k]
        /\ context'.scopes[Len(context.scopes)] = Bound(context.scopes[Len(context.scopes)], Top.name, item)
    BY <2>1, Inserts DEF Shape
  <2>3. \A k \in 1 .. Len(context.scopes) : VarsIn(context.scopes[k]) \ {Top.name} \subseteq VarsIn(context'.scopes[k])
    <3>1. \A k \in 1 .. Len(context.scopes) : k \in 1 .. Len(context.scopes) - 1 \/ k = Len(context.scopes)
      BY TopFrame
    <3>2. VarsIn(context.scopes[Len(context.scopes)]) \ {Top.name}
            \subseteq VarsIn(context'.scopes[Len(context.scopes)])
      BY <2>2, BoundVars
    <3> QED
      BY <2>2, <3>1, <3>2
  <2>4. \A k \in 1 .. Len(scopes) - Width(Top) : VarsIn(scopes'[k]) \subseteq VarsIn(scopes[k]) \ {Top.name}
    BY <1>2, <1>3, <1>4
  <2>5. /\ Len(context'.scopes) >= Len(context.scopes) - Own(Top)
        /\ Len(context.scopes) - Own(Top) = Len(context.scopes)
    BY <1>2, <2>2, TopFrame
  <2>6. VarsDrop(Top, scopes, scopes', context.scopes, context'.scopes, {Top.name})
    BY <1>3, <2>3, <2>4, <2>5 DEF VarsDrop
  <2> QED
    BY <1>1, <1>3, <2>2, <2>6, ScopedDrop
<1>6. CASE ~Top.ok
  <2>1. context' = context /\ IsContext(context')
    BY <1>6 DEF LeavesFunction, Shape
  <2>2. Len(context'.scopes) >= Len(context.scopes) - Own(Top)
    BY <2>1, Widths, TopFrame
  <2> QED
    BY <1>1, <2>1, <2>2, LeftScoped
<1> QED
  BY <1>5, <1>6

LEMMA ScopedKept ==
  ASSUME Shape, Scoped, Step
  PROVE  Shape' /\ Scoped'
BY StatedScoped, DeclaresScoped, PlainScoped, ScopedScoped, ForScoped, FunctionScoped, NothingScoped,
   SwitchesScoped, SkipsScoped, ConstructScoped, CaseScoped, FunctionLeftScoped, EndsScoped DEF Step

LEMMA BuiltinVars == VarsIn(Builtin) = {}
BY DEF VarsIn, Builtin, Function

LEMMA OneListed ==
  ASSUME NEW e
  PROVE  Listed(<<e>>) /\ Len(<<e>>) = 1 /\ <<e>>[1] = e
<1>1. <<e>> \in Seq({e})
  OBVIOUS
<1> QED
  BY <1>1, ListedAny

LEMMA FirstContext ==
  ASSUME Init
  PROVE  IsContext(context) /\ Len(context.scopes) = 1 /\ context.scopes[1] = Builtin
<1> DEFINE opened == create_new_scope(NewContext)
<1>1. NewContext = [scopes |-> NewContext.scopes, types |-> NewContext.types] /\ NewContext.scopes = << >>
  BY DEF NewContext
<1>2. opened = [scopes |-> <<<< >>>>, types |-> opened.types]
  BY <1>1 DEF create_new_scope
<1>3. context = [opened EXCEPT !.scopes[1] = Builtin]
  BY DEF Init
<1> HIDE DEF opened
<1>4. context.scopes = [<<<< >>>> EXCEPT ![1] = Builtin] /\ context = [scopes |-> context.scopes, types |-> context.types]
  BY <1>2, <1>3
<1>5. context.scopes = <<Builtin>>
  BY <1>4
<1>6. /\ Listed(context.scopes) /\ Len(context.scopes) = 1 /\ context.scopes[1] = Builtin
  BY ONLY <1>5, OneListed
<1> QED
  BY <1>4, <1>6 DEF IsContext

LEMMA ScopedFirst ==
  ASSUME Init
  PROVE  Shape /\ Scoped
<1> DEFINE fr == Frame("unit", << >>, << >>)
           one == [i \in 1 .. 1 |-> 1]
<1>1. stack = <<fr>> /\ scopes = <<Builtin>>
  BY DEF Init
<1>2. IsFrame(fr) /\ fr.kind = "unit"
  BY NewFrame
<1> HIDE DEF fr
<1>3. /\ IsContext(context) /\ Len(context.scopes) = 1 /\ context.scopes[1] = Builtin
  BY FirstContext
<1>4. /\ Listed(stack) /\ Len(stack) = 1 /\ stack[1] = fr
      /\ Listed(scopes) /\ Len(scopes) = 1 /\ scopes[1] = Builtin
  BY <1>1, OneListed
<1>5. Shape
  BY <1>2, <1>3, <1>4 DEF Shape, Nested
<1>6. Levels(one, stack, Len(scopes)) /\ Heights(one, stack, Len(context.scopes))
  BY <1>3, <1>4 DEF Levels, Heights
<1>7. Held(one, one, scopes, context.scopes)
  BY <1>4, BuiltinVars DEF Held
<1>8. Unshadowed
  BY <1>4 DEF Unshadowed
<1> QED
  BY <1>5, <1>6, <1>7, <1>8 DEF Scoped

\* What the invariants read stays as it is in a step that changes nothing.
LEMMA ScopedSame ==
  ASSUME Shape, Scoped, UNCHANGED vars
  PROVE  Shape' /\ Scoped'
BY DEF vars, Shape, Scoped, Unshadowed

LEMMA ScopedSpec == Spec => [](Shape /\ Scoped)
<1>1. Shape /\ Scoped /\ [Next]_vars => (Shape /\ Scoped)'
  BY Steps, ScopedKept, ScopedSame
<1> QED
  BY <1>1, ScopedFirst, PTL DEF Spec

LEMMA FoundThere ==
  ASSUME Shape, Scoped
  PROVE  NamesFound
<1> SUFFICES ASSUME NEW x \in Names, IsVariable(scopes, x)
             PROVE  get_variable(context, x) # {}
  BY DEF NamesFound
<1>1. PICK c, h : /\ Levels(c, stack, Len(scopes)) /\ Heights(h, stack, Len(context.scopes))
                  /\ Held(c, h, scopes, context.scopes)
  BY DEF Scoped
<1> DEFINE there == {n \in DOMAIN scopes : x \in DOMAIN scopes[n]}
           m == Max(there)
<1>2. DOMAIN scopes = 1 .. Len(scopes) /\ DOMAIN context.scopes = 1 .. Len(context.scopes)
  BY DEF Shape, IsContext, Listed
<1>3. there # {} /\ there \subseteq 1 .. Len(scopes) /\ scopes[m][x].kind = "variable"
  BY <1>2 DEF IsVariable, Meaning
<1>4. m \in there
  <2> HIDE DEF there
  <2> QED
    BY <1>3, MaxIn, TopFrame
<1>5. x \in VarsIn(scopes[m]) /\ m \in 1 .. Len(scopes)
  BY <1>2, <1>3, <1>4 DEF VarsIn
<1> HIDE DEF m, there
<1>6. Len(stack) \in DOMAIN c /\ c[Len(stack)] = Len(scopes) /\ h[Len(stack)] = Len(context.scopes)
  BY <1>1, TopFrame DEF Levels, Heights
<1>7. PICK k \in 1 .. Len(context.scopes) : x \in VarsIn(context.scopes[k])
  BY <1>1, <1>5, <1>6 DEF Held
<1> QED
  BY <1>2, <1>7 DEF get_variable, VarsIn, Holding

(***************************************************************************)
(* A variable that C sees is in one of the transpiler's scopes, at every   *)
(* point of every unit, whatever fails on the way (context.rs:48-50): each *)
(* scope the transpiler does not open only leaves variables in the one     *)
(* around it, and each scope it leaves too late only keeps more.           *)
(***************************************************************************)
THEOREM EveryNameIsFound == Spec => []NamesFound
<1>1. Shape /\ Scoped => NamesFound
  BY FoundThere
<1> QED
  BY <1>1, ScopedSpec, PTL

-----------------------------------------------------------------------------
(* Errors: what the notes say of them and what the frames do.              *)

Untranslated == \E i \in 1 .. Len(stack) : ~Translated(stack[i])
NoSwitch == \A i \in 1 .. Len(stack) : stack[i].kind \notin {"switch", "case"}
Headed == \A i \in 1 .. Len(stack) : stack[i].kind \in {"unit", "function"} => stack[i].headOk

Errors ==
  /\ "switch" \notin notes => NoSwitch
  /\ Headed
  /\ status = "running" /\ Untranslated => "error" \in notes
  /\ status = "running" /\ "error" \in notes /\ "switch" \notin notes => Untranslated
  /\ status = "done" /\ "switch" \notin notes => "error" \notin notes

LEMMA ErrorsWork ==
  ASSUME Shape, NEW bad \in BOOLEAN, Worked(bad)
  PROVE  /\ Untranslated' <=> Untranslated \/ bad
         /\ NoSwitch => NoSwitch'
         /\ Headed => Headed'
<1>1. /\ Len(stack) \in Nat \ {0} /\ Len(stack') = Len(stack) /\ Top = stack[Len(stack)]
      /\ \A i \in 1 .. Len(stack) - 1 : stack'[i] = stack[i]
      /\ Becomes(stack'[Len(stack)], Top, bad)
  BY TopFrame DEF Worked
<1>2. \A i \in 1 .. Len(stack) : (i \in 1 .. Len(stack) - 1 /\ stack'[i] = stack[i]) \/ i = Len(stack)
  BY <1>1
<1>3. /\ stack'[Len(stack)].kind = Top.kind
      /\ stack'[Len(stack)].headOk = Top.headOk
      /\ Translated(stack'[Len(stack)]) <=> Translated(Top) /\ ~bad
  BY <1>1 DEF Becomes, Translated
<1>4. Len(stack) \in 1 .. Len(stack)
  BY <1>1
<1>5. Untranslated' <=> Untranslated \/ bad
  <2>1. ASSUME Untranslated' PROVE Untranslated \/ bad
    BY <1>1, <1>2, <1>3, <1>4, <2>1 DEF Untranslated
  <2>2. ASSUME Untranslated PROVE Untranslated'
    <3>1. PICK i \in 1 .. Len(stack) : ~Translated(stack[i])
      BY <2>2 DEF Untranslated
    <3>2. ~Translated(stack'[i])
      BY <1>1, <1>2, <1>3, <3>1
    <3> QED
      BY <1>1, <3>1, <3>2 DEF Untranslated
  <2>3. ASSUME bad PROVE Untranslated'
    BY <1>1, <1>3, <1>4, <2>3 DEF Untranslated
  <2> QED
    BY <2>1, <2>2, <2>3
<1>6. NoSwitch => NoSwitch'
  BY <1>1, <1>2, <1>3 DEF NoSwitch
<1>7. Headed => Headed'
  BY <1>1, <1>2, <1>3 DEF Headed
<1> QED
  BY <1>5, <1>6, <1>7

LEMMA ErrorsOpen ==
  ASSUME Shape, NEW fr, Opened(fr)
  PROVE  /\ Untranslated' <=> Untranslated \/ ~Translated(fr)
         /\ NoSwitch /\ fr.kind \notin {"switch", "case"} => NoSwitch'
         /\ Headed /\ (fr.kind \in {"unit", "function"} => fr.headOk) => Headed'
<1>1. /\ Len(stack) \in Nat \ {0} /\ Len(stack') = Len(stack) + 1
      /\ \A i \in 1 .. Len(stack) : stack'[i] = stack[i]
      /\ stack'[Len(stack) + 1] = fr
  BY TopFrame DEF Opened
<1>2. \A i \in 1 .. Len(stack') : i \in 1 .. Len(stack) \/ i = Len(stack')
  BY <1>1
<1>3. Len(stack') \in 1 .. Len(stack') /\ \A i \in 1 .. Len(stack) : i \in 1 .. Len(stack')
  BY <1>1
<1>4. Untranslated' <=> Untranslated \/ ~Translated(fr)
  BY <1>1, <1>2, <1>3 DEF Untranslated
<1>5. NoSwitch /\ fr.kind \notin {"switch", "case"} => NoSwitch'
  BY <1>1, <1>2 DEF NoSwitch
<1>6. Headed /\ (fr.kind \in {"unit", "function"} => fr.headOk) => Headed'
  BY <1>1, <1>2 DEF Headed
<1> QED
  BY <1>4, <1>5, <1>6

LEMMA ErrorsDrop ==
  ASSUME Shape, NEW bad \in BOOLEAN, Dropped(bad)
  PROVE  /\ (bad => ~Translated(Top)) => (Untranslated' => Untranslated)
         /\ (~Translated(Top) => bad) => (Untranslated => Untranslated')
         /\ NoSwitch => NoSwitch'
         /\ Headed => Headed'
<1> DEFINE n == Len(stack) - 1
<1>1. /\ n \in Nat \ {0} /\ Len(stack') = n /\ Top = stack[n + 1] /\ Len(stack) = n + 1
      /\ \A i \in 1 .. n - 1 : stack'[i] = stack[i]
      /\ Becomes(stack'[n], stack[n], bad)
  <2>1. Len(stack) \in Nat /\ Len(stack) > 1 /\ Len(stack) - 2 = n - 1 /\ n + 1 = Len(stack)
    BY TopFrame DEF Dropped
  <2> QED
    BY <2>1, TopFrame DEF Dropped
<1> HIDE DEF n
<1>2. \A i \in 1 .. n : (i \in 1 .. n - 1 /\ stack'[i] = stack[i]) \/ i = n
  BY <1>1
<1>3. /\ stack'[n].kind = stack[n].kind
      /\ stack'[n].headOk = stack[n].headOk
      /\ Translated(stack'[n]) <=> Translated(stack[n]) /\ ~bad
  BY <1>1 DEF Becomes, Translated
<1>4. n \in 1 .. n /\ n + 1 \in 1 .. n + 1 /\ \A i \in 1 .. n : i \in 1 .. n + 1
  BY <1>1
<1>5. ASSUME bad => ~Translated(Top), Untranslated' PROVE Untranslated
  <2>1. PICK i \in 1 .. n : ~Translated(stack'[i])
    BY <1>1, <1>5 DEF Untranslated
  <2>2. ~Translated(stack[i]) \/ ~Translated(stack[n + 1])
    BY <1>1, <1>2, <1>3, <1>5, <2>1
  <2> QED
    BY <1>1, <1>4, <2>1, <2>2 DEF Untranslated
<1>6. ASSUME ~Translated(Top) => bad, Untranslated PROVE Untranslated'
  <2>1. PICK i \in 1 .. n + 1 : ~Translated(stack[i])
    BY <1>1, <1>6 DEF Untranslated
  <2>2. CASE i = n + 1
    BY <1>1, <1>3, <1>4, <1>6, <2>1, <2>2 DEF Untranslated
  <2>3. CASE i # n + 1
    <3>1. i \in 1 .. n
      BY <1>1, <2>3
    <3>2. ~Translated(stack'[i])
      BY <1>2, <1>3, <2>1, <3>1
    <3> QED
      BY <1>1, <3>1, <3>2 DEF Untranslated
  <2> QED
    BY <2>2, <2>3
<1>7. NoSwitch => NoSwitch'
  BY <1>1, <1>2, <1>3, <1>4 DEF NoSwitch
<1>8. Headed => Headed'
  BY <1>1, <1>2, <1>3, <1>4 DEF Headed
<1> QED
  BY <1>5, <1>6, <1>7, <1>8

\* Work in the open construct, with the errors noted.
LEMMA ErrorsNoted ==
  ASSUME Shape, Errors, status = "running", NEW bad \in BOOLEAN, NEW more, Worked(bad), Notes(bad, more),
         Going
  PROVE  Errors'
<1>1. notes \subseteq notes' /\ ("error" \in notes' <=> "error" \in notes \/ bad) /\ status' # "done"
  BY DEF Notes, Going, Panics
<1>2. /\ Untranslated' <=> Untranslated \/ bad
      /\ NoSwitch => NoSwitch'
      /\ Headed => Headed'
  BY ErrorsWork
<1>3. /\ "switch" \notin notes => NoSwitch
      /\ Headed
      /\ Untranslated => "error" \in notes
      /\ "error" \in notes /\ "switch" \notin notes => Untranslated
  BY DEF Errors
<1>4. "switch" \notin notes' => "switch" \notin notes
  BY <1>1
<1> QED
  BY <1>1, <1>2, <1>3, <1>4 DEF Errors

\* A construct opens.
LEMMA ErrorsOpened ==
  ASSUME Shape, Errors, status = "running", NEW fr, NEW bad \in BOOLEAN, NEW more, Opened(fr),
         Notes(bad, more), Going, status' = "running" => (bad <=> ~Translated(fr)),
         fr.kind # "unit", fr.kind = "function" => fr.headOk,
         fr.kind \in {"switch", "case"} => "switch" \in notes'
  PROVE  Errors'
<1>1. notes \subseteq notes' /\ ("error" \in notes' <=> "error" \in notes \/ bad) /\ status' # "done"
  BY DEF Notes, Going, Panics
<1>2. /\ Untranslated' <=> Untranslated \/ ~Translated(fr)
      /\ NoSwitch /\ fr.kind \notin {"switch", "case"} => NoSwitch'
      /\ Headed /\ (fr.kind \in {"unit", "function"} => fr.headOk) => Headed'
  BY ErrorsOpen
<1>3. /\ "switch" \notin notes => NoSwitch
      /\ Headed
      /\ Untranslated => "error" \in notes
      /\ "error" \in notes /\ "switch" \notin notes => Untranslated
  BY DEF Errors
<1>4. "switch" \notin notes' => "switch" \notin notes
  BY <1>1
<1>5. status' = "running" /\ Untranslated' => "error" \in notes'
  BY <1>1, <1>2, <1>3
<1>6. status' = "running" /\ "error" \in notes' /\ "switch" \notin notes' => Untranslated'
  BY <1>1, <1>2, <1>3, <1>4
<1>7. ("switch" \notin notes' => NoSwitch') /\ Headed'
  BY <1>1, <1>2, <1>3, <1>4
<1> QED
  BY <1>1, <1>5, <1>6, <1>7 DEF Errors

\* A construct is left.
LEMMA ErrorsLeft ==
  ASSUME Shape, Errors, status = "running", NEW bad \in BOOLEAN, Leaves(bad), bad => ~Translated(Top),
         ~Translated(Top) /\ "switch" \notin notes => bad
  PROVE  Errors'
<1>1. /\ notes \subseteq notes'
      /\ "error" \in notes' <=> "error" \in notes
      /\ status' = "running"
  BY DEF Leaves
<1>2. /\ Untranslated' => Untranslated
      /\ (~Translated(Top) => bad) => (Untranslated => Untranslated')
      /\ NoSwitch => NoSwitch'
      /\ Headed => Headed'
  BY ErrorsDrop DEF Leaves
<1>3. /\ "switch" \notin notes => NoSwitch
      /\ Headed
      /\ Untranslated => "error" \in notes
      /\ "error" \in notes /\ "switch" \notin notes => Untranslated
  BY DEF Errors
<1>4. "switch" \notin notes' => "switch" \notin notes
  BY <1>1
<1> QED
  BY <1>1, <1>2, <1>3, <1>4 DEF Errors

LEMMA ErrorsKept ==
  ASSUME Shape, Errors, Step
  PROVE  Errors'
<1>0. status = "running" /\ IsFrame(Top) /\ Top = stack[Len(stack)] /\ Len(stack) \in 1 .. Len(stack)
  BY TopFrame DEF Step
<1>1. CASE Stated
  BY <1>0, <1>1, ErrorsNoted DEF Stated
<1>2. CASE Declares
  BY <1>0, <1>2, ErrorsNoted DEF Declares
<1>3. CASE OpensPlain
  <2>1. PICK fr : \E more \in SUBSET OpenNotes :
          /\ Opened(fr) /\ fr.ok /\ fr.headOk /\ Notes(FALSE, more) /\ status' = "running"
          /\ fr.kind \in {"block", "unsafe", "switch", "case"}
          /\ fr.kind = "switch" => "switch" \in more
          /\ fr.kind = "case" => Top.kind = "switch"
    BY <1>3 DEF OpensPlain
  <2>2. PICK more \in SUBSET OpenNotes :
          /\ Opened(fr) /\ fr.ok /\ fr.headOk /\ Notes(FALSE, more) /\ status' = "running"
          /\ fr.kind \in {"block", "unsafe", "switch", "case"}
          /\ fr.kind = "switch" => "switch" \in more
          /\ fr.kind = "case" => Top.kind = "switch"
    BY <2>1
  <2>3. fr.kind = "switch" => "switch" \in notes'
    BY <2>2 DEF Notes
  <2>4. fr.kind = "case" => "switch" \in notes'
    <3>1. Top.kind = "switch" => "switch" \in notes
      BY <1>0 DEF Errors, NoSwitch
    <3> QED
      BY <2>2, <3>1 DEF Notes
  <2>5. Translated(fr) /\ Going
    BY <2>2 DEF Translated, Going
  <2> QED
    BY <1>0, <2>2, <2>3, <2>4, <2>5, ErrorsOpened
<1>4. CASE OpensScoped
  <2>1. PICK fr : \E more \in SUBSET OpenNotes, bad \in BOOLEAN :
          /\ Opened(fr) /\ fr.ok /\ Notes(bad, more) /\ Going
          /\ status' = "running" => (bad <=> ~fr.headOk)
          /\ fr.kind \in {"while", "do", "if"}
    BY <1>4 DEF OpensScoped
  <2>2. fr.ok => (Translated(fr) <=> fr.headOk)
    BY DEF Translated
  <2> QED
    BY <1>0, <2>1, <2>2, ErrorsOpened
<1>5. CASE OpensFor
  <2>1. PICK fr : \E more \in SUBSET OpenNotes :
          /\ Opened(fr) /\ fr.ok /\ fr.headOk /\ Notes(FALSE, more) /\ status' = "running"
          /\ fr.kind = "for"
    BY <1>5 DEF OpensFor
  <2>2. Translated(fr) /\ Going
    BY <2>1 DEF Translated, Going
  <2> QED
    BY <1>0, <2>1, <2>2, ErrorsOpened
<1>6. CASE OpensFunction
  <2>1. PICK fr : /\ Opened(fr) /\ fr.ok /\ fr.headOk /\ fr.kind = "function"
                  /\ UNCHANGED <<status, notes>>
    BY <1>6 DEF OpensFunction
  <2>2. Translated(fr) /\ Going /\ Notes(FALSE, {})
    BY <1>0, <2>1 DEF Translated, Going, Notes
  <2> QED
    BY <1>0, <2>1, <2>2, ErrorsOpened
<1>7. CASE OpensNothing
  <2>1. PICK bad \in BOOLEAN : \E more \in SUBSET OpenNotes :
          Worked(bad) /\ Notes(bad, more) /\ (IF bad THEN status' = "running" ELSE status' \in Panics)
    BY <1>7 DEF OpensNothing
  <2>2. Going
    BY <2>1 DEF Going
  <2> QED
    BY <1>0, <2>1, <2>2, ErrorsNoted
<1>8. CASE Switches
  <2>1. /\ Len(stack) \in Nat /\ Len(stack') = Len(stack) /\ status' = "running" /\ Top.kind = "if"
        /\ \A i \in 1 .. Len(stack) - 1 : stack'[i] = stack[i]
        /\ stack'[Len(stack)].kind = "else" /\ stack'[Len(stack)].ok = Top.ok
        /\ stack'[Len(stack)].headOk = Top.headOk
        /\ notes' = notes \cup {"else"}
    BY <1>0, <1>8, TopFrame DEF Switches
  <2>2. \A i \in 1 .. Len(stack) :
          /\ Translated(stack'[i]) <=> Translated(stack[i])
          /\ stack'[i].kind = stack[i].kind \/ stack'[i].kind = "else"
          /\ stack'[i].headOk = stack[i].headOk
    <3>1. \A i \in 1 .. Len(stack) : i \in 1 .. Len(stack) - 1 \/ i = Len(stack)
      BY <2>1
    <3> QED
      BY <1>0, <2>1, <3>1 DEF Translated
  <2>3. (Untranslated' <=> Untranslated) /\ (NoSwitch => NoSwitch') /\ (Headed => Headed')
    BY <2>1, <2>2 DEF Untranslated, NoSwitch, Headed
  <2>4. /\ "switch" \in notes' <=> "switch" \in notes
        /\ "error" \in notes' <=> "error" \in notes
    BY <2>1
  <2> QED
    BY <1>0, <2>1, <2>3, <2>4 DEF Errors
<1>9. CASE Skips
  <2>1. UNCHANGED <<stack, status>> /\ notes \subseteq notes' /\ "error" \in notes' /\ "switch" \in notes
    BY <1>0, <1>9 DEF Skips, Notes, Errors, NoSwitch
  <2>2. (Untranslated' <=> Untranslated) /\ (NoSwitch => NoSwitch') /\ (Headed => Headed')
    BY <2>1 DEF Untranslated, NoSwitch, Headed
  <2>3. "switch" \in notes'
    BY <2>1
  <2> QED
    BY <1>0, <2>1, <2>2, <2>3 DEF Errors
<1>10. CASE LeavesConstruct
  BY <1>0, <1>10, ErrorsLeft DEF LeavesConstruct
<1>11. CASE LeavesCase
  <2>1. "switch" \in notes
    BY <1>0, <1>11 DEF LeavesCase, Errors, NoSwitch
  <2> QED
    BY <1>0, <1>11, <2>1, ErrorsLeft DEF LeavesCase
<1>12. CASE LeavesFunction
  <2>1. Top.headOk
    BY <1>0, <1>12 DEF LeavesFunction, Errors, Headed
  <2>2. Translated(Top) <=> Top.ok
    BY <2>1 DEF Translated
  <2>3. Leaves(~Top.ok) /\ (~Top.ok) \in BOOLEAN
    BY <1>12 DEF LeavesFunction
  <2> QED
    BY <1>0, <2>2, <2>3, ErrorsLeft
<1>13. CASE Ends
  <2>1. /\ Worked(FALSE) /\ notes' = notes /\ status' = IF Top.ok THEN "done" ELSE "failed"
        /\ Top.kind = "unit"
    BY <1>13 DEF Ends
  <2>2. (Untranslated' <=> Untranslated) /\ (NoSwitch => NoSwitch') /\ (Headed => Headed')
    BY <2>1, ErrorsWork
  <2>3. Top.ok => ~Untranslated
    <3>1. Len(stack) = 1
      <4>1. \A i \in 2 .. Len(stack) : stack[i].kind # "unit"
        BY DEF Shape, Nested
      <4>2. Len(stack) \in Nat \ {0} /\ stack[Len(stack)].kind = "unit"
        BY <1>0, <2>1, TopFrame
      <4> QED
        BY <4>1, <4>2
    <3>2. Top.headOk
      BY <1>0, <2>1 DEF Errors, Headed
    <3> QED
      BY <1>0, <3>1, <3>2 DEF Untranslated, Translated
  <2> QED
    BY <1>0, <2>1, <2>2, <2>3 DEF Errors
<1> QED
  BY <1>1, <1>2, <1>3, <1>4, <1>5, <1>6, <1>7, <1>8, <1>9, <1>10, <1>11, <1>12, <1>13 DEF Step

LEMMA ErrorsFirst ==
  ASSUME Init
  PROVE  Errors
<1> DEFINE fr == Frame("unit", << >>, << >>)
<1>1. stack = <<fr>> /\ status = "running" /\ notes = {}
  BY DEF Init
<1>2. fr.kind = "unit" /\ fr.headOk /\ fr.ok
  BY NewFrame
<1> HIDE DEF fr
<1>3. Len(stack) = 1 /\ stack[1] = fr
  BY <1>1, OneListed
<1> QED
  BY <1>1, <1>2, <1>3 DEF Errors, Untranslated, NoSwitch, Headed, Translated

LEMMA ErrorsSpec == Spec => []Errors
<1>1. Shape /\ Scoped /\ Errors /\ [Next]_vars => Errors'
  <2>1. ASSUME Errors, UNCHANGED vars PROVE Errors'
    BY <2>1 DEF vars, Errors, Untranslated, NoSwitch, Headed
  <2> QED
    BY <2>1, Steps, ErrorsKept
<1> QED
  BY <1>1, ErrorsFirst, ScopedSpec, PTL DEF Spec

(***************************************************************************)
(* No unit with an error comes out as translated (mod.rs:59-80), unless a  *)
(* switch filtered it out: an error stays in the frame of its construct,   *)
(* comes to the one around it when that is left, and so to the unit.       *)
(***************************************************************************)
THEOREM EveryErrorIsReported == Spec => []ErrorsReported
<1>1. Errors => ErrorsReported
  BY DEF Errors, ErrorsReported
<1> QED
  BY <1>1, ErrorsSpec, PTL

-----------------------------------------------------------------------------
(* A name means what it means in C while each open construct has one scope *)
(* of the transpiler, with what C's scopes of the construct hold.          *)

Marks == {"block", "else", "switch", "closed", "error", "tagOnly"}
Unmarked == status = "running" /\ notes \cap Marks = {}

\* f holds what is in scopes lo to hi of s, the inner before the outer.
Twins(s, lo, hi, f) ==
  /\ \A x \in VarsIn(f) : \E m \in lo .. hi : x \in VarsIn(s[m])
  /\ \A m \in lo .. hi : \A x \in VarsIn(s[m]) :
       /\ x \in VarsIn(f)
       /\ (\A n \in m + 1 .. hi : x \notin VarsIn(s[n])) => f[x] = s[m][x]

\* The scopes of construct i are those from Low to c[i].
Low(c, fr, i) == c[i] - Width(fr) + 1

Mirrored(c, frames, s, t) ==
  \A i \in 1 .. Len(frames) : Twins(s, Low(c, frames[i], i), c[i], t[i])

Plain == \A i \in 1 .. Len(stack) : stack[i].kind \in {"unit", "function", "while", "do", "for", "if"}

Matched ==
  Unmarked =>
    /\ Plain
    /\ Len(context.scopes) = Len(stack)
    /\ \E c : Levels(c, stack, Len(scopes)) /\ Mirrored(c, stack, scopes, context.scopes)

LEMMA TwinsKept ==
  ASSUME NEW s, NEW s2, NEW lo \in Int, NEW hi \in Int, NEW f, Twins(s, lo, hi, f),
         \A m \in lo .. hi : /\ VarsIn(s2[m]) = VarsIn(s[m])
                             /\ \A x \in VarsIn(s[m]) : s2[m][x] = s[m][x]
  PROVE  Twins(s2, lo, hi, f)
<1>1. ASSUME NEW x \in VarsIn(f) PROVE \E m \in lo .. hi : x \in VarsIn(s2[m])
  BY DEF Twins
<1>2. ASSUME NEW m \in lo .. hi, NEW x \in VarsIn(s2[m])
      PROVE  /\ x \in VarsIn(f)
             /\ (\A n \in m + 1 .. hi : x \notin VarsIn(s2[n])) => f[x] = s2[m][x]
  <2>1. x \in VarsIn(s[m]) /\ s2[m][x] = s[m][x]
    OBVIOUS
  <2>2. \A n \in m + 1 .. hi : n \in lo .. hi
    OBVIOUS
  <2>3. \A n \in m + 1 .. hi : VarsIn(s2[n]) = VarsIn(s[n])
    BY <2>2
  <2> QED
    BY <2>1, <2>3 DEF Twins
<1> QED
  BY <1>1, <1>2 DEF Twins

LEMMA TwinsGrown ==
  ASSUME NEW s, NEW s2, NEW lo \in Int, NEW hi \in Int, lo <= hi, NEW f, NEW f2, NEW new,
         Twins(s, lo, hi, f), \A m \in lo .. hi - 1 : s2[m] = s[m],
         Grown(s2[hi], s[hi], new), Grown(f2, f, new), VarsIn(s[hi]) \cap new = {},
         \A x \in new : s2[hi][x] = f2[x]
  PROVE  Twins(s2, lo, hi, f2)
<1>1. ASSUME NEW x \in VarsIn(f2) PROVE \E m \in lo .. hi : x \in VarsIn(s2[m])
  <2>1. CASE x \in new
    BY <2>1 DEF Grown
  <2>2. CASE x \in VarsIn(f)
    <3>1. PICK m \in lo .. hi : x \in VarsIn(s[m])
      BY <2>2 DEF Twins
    <3>2. m \in lo .. hi - 1 \/ m = hi
      OBVIOUS
    <3> QED
      BY <3>1, <3>2 DEF Grown
  <2> QED
    BY <2>1, <2>2 DEF Grown
<1>2. ASSUME NEW m \in lo .. hi, NEW x \in VarsIn(s2[m])
      PROVE  /\ x \in VarsIn(f2)
             /\ (\A n \in m + 1 .. hi : x \notin VarsIn(s2[n])) => f2[x] = s2[m][x]
  <2>1. CASE m = hi /\ x \in new
    BY <2>1 DEF Grown
  <2>2. CASE m = hi /\ x \notin new
    <3>1. x \in VarsIn(s[hi]) /\ s2[hi][x] = s[hi][x]
      BY <2>2 DEF Grown
    <3>2. x \in VarsIn(f) /\ f[x] = s[hi][x]
      <4>1. hi \in lo .. hi /\ \A n \in hi + 1 .. hi : FALSE
        OBVIOUS
      <4> QED
        BY <3>1, <4>1 DEF Twins
    <3>3. x \in VarsIn(f2) /\ f2[x] = f[x]
      BY <2>2, <3>2 DEF Grown
    <3> QED
      BY <2>2, <3>1, <3>2, <3>3
  <2>3. CASE m # hi
    <3>1. m \in lo .. hi - 1 /\ s2[m] = s[m]
      BY <2>3
    <3>2. x \in VarsIn(f)
      BY <3>1 DEF Twins
    <3>3. x \in VarsIn(f2)
      BY <3>2 DEF Grown
    <3>4. ASSUME \A n \in m + 1 .. hi : x \notin VarsIn(s2[n]) PROVE f2[x] = s2[m][x]
      <4>1. hi \in m + 1 .. hi
        BY <3>1
      <4>2. x \notin VarsIn(s2[hi])
        BY <3>4, <4>1
      <4>3. x \notin new /\ x \notin VarsIn(s[hi])
        BY <4>2 DEF Grown
      <4>4. \A n \in m + 1 .. hi : x \notin VarsIn(s[n])
        <5>1. \A n \in m + 1 .. hi : n \in lo .. hi - 1 \/ n = hi
          OBVIOUS
        <5> QED
          BY <3>4, <4>3, <5>1
      <4>5. f[x] = s[m][x]
        BY <3>1, <4>4 DEF Twins
      <4>6. f2[x] = f[x]
        BY <3>2, <4>3 DEF Grown
      <4> QED
        BY <3>1, <4>5, <4>6
    <3> QED
      BY <3>3, <3>4
  <2> QED
    BY <2>1, <2>2, <2>3
<1> QED
  BY <1>1, <1>2 DEF Twins

\* One scope and its twin.
LEMMA TwinsOne ==
  ASSUME NEW s, NEW n \in Int
  PROVE  Twins(s, n, n, s[n])
<1>1. \A m \in n .. n : m = n
  OBVIOUS
<1>2. n \in n .. n
  OBVIOUS
<1> QED
  BY <1>1, <1>2 DEF Twins

\* The second of two is empty.
LEMMA TwinsTwo ==
  ASSUME NEW s, NEW n \in Int, VarsIn(s[n + 1]) = {}
  PROVE  Twins(s, n, n + 1, s[n])
<1>1. \A m \in n .. n + 1 : m = n \/ m = n + 1
  OBVIOUS
<1>2. n \in n .. n + 1
  OBVIOUS
<1> QED
  BY <1>1, <1>2 DEF Twins

\* Levels of constructs and where they lie.
LEMMA LowBounds ==
  ASSUME NEW c, NEW f, NEW n, Levels(c, f, n), Len(f) \in Nat \ {0}, Width(f[1]) = 1
  PROVE  /\ n \in Nat /\ c[Len(f)] = n /\ c[1] = 1
         /\ \A i \in 1 .. Len(f) : /\ c[i] \in Nat /\ 1 <= Low(c, f[i], i) /\ Low(c, f[i], i) <= c[i]
                                   /\ Low(c, f[i], i) \in Int /\ c[i] <= n
         /\ \A i \in 1 .. Len(f) : \A j \in 1 .. i - 1 : c[j] < Low(c, f[i], i)
<1>1. /\ c \in [1 .. Len(f) -> Nat] /\ c[1] = 1 /\ c[Len(f)] = n
      /\ \A i \in 1 .. Len(f) - 1 : c[i + 1] = c[i] + Width(f[i + 1])
      /\ \A i \in 1 .. Len(f) : \A j \in 1 .. i - 1 : c[j] < c[i]
  BY DEF Levels
<1>2. \A i \in 1 .. Len(f) : c[i] \in Nat /\ c[i] <= n
  <2> SUFFICES ASSUME NEW i \in 1 .. Len(f) PROVE c[i] \in Nat /\ c[i] <= n
    OBVIOUS
  <2>1. c[i] \in Nat /\ n \in Nat
    BY <1>1
  <2>2. i = Len(f) \/ i \in 1 .. Len(f) - 1
    OBVIOUS
  <2>3. Len(f) \in 1 .. Len(f)
    OBVIOUS
  <2>4. i = Len(f) \/ c[i] < c[Len(f)]
    BY <1>1, <2>2, <2>3
  <2> QED
    BY <1>1, <2>1, <2>4
<1>3. \A i \in 1 .. Len(f) : i = 1 \/ (i - 1 \in 1 .. Len(f) - 1 /\ Low(c, f[i], i) = c[i - 1] + 1)
  <2> SUFFICES ASSUME NEW i \in 1 .. Len(f), i # 1
               PROVE  i - 1 \in 1 .. Len(f) - 1 /\ Low(c, f[i], i) = c[i - 1] + 1
    OBVIOUS
  <2>1. i - 1 \in 1 .. Len(f) - 1 /\ (i - 1) + 1 = i
    OBVIOUS
  <2>2. c[i] = c[i - 1] + Width(f[i])
    BY <1>1, <2>1
  <2>3. c[i - 1] \in Int /\ Width(f[i]) \in Int
    BY <1>1, <2>1, Widths
  <2> QED
    BY <2>1, <2>2, <2>3 DEF Low
<1>4. Low(c, f[1], 1) = 1
  BY <1>1 DEF Low
<1>5. ASSUME NEW i \in 1 .. Len(f) PROVE 1 <= Low(c, f[i], i) /\ Low(c, f[i], i) <= c[i] /\ Low(c, f[i], i) \in Int
  <2>1. Low(c, f[i], i) \in Int /\ Low(c, f[i], i) <= c[i]
    BY <1>2, Widths DEF Low
  <2>2. 1 <= Low(c, f[i], i)
    <3>1. CASE i = 1
      BY <1>4, <3>1
    <3>2. CASE i # 1
      <4>1. i - 1 \in 1 .. Len(f) /\ Low(c, f[i], i) = c[i - 1] + 1
        BY <1>3, <3>2
      <4> QED
        BY <1>2, <4>1
    <3> QED
      BY <3>1, <3>2
  <2> QED
    BY <2>1, <2>2
<1>6. ASSUME NEW i \in 1 .. Len(f), NEW j \in 1 .. i - 1 PROVE c[j] < Low(c, f[i], i)
  <2>1. i - 1 \in 1 .. Len(f) /\ Low(c, f[i], i) = c[i - 1] + 1 /\ j \in 1 .. Len(f)
    BY <1>3
  <2>2. j = i - 1 \/ j \in 1 .. (i - 1) - 1
    OBVIOUS
  <2>3. c[j] = c[i - 1] \/ c[j] < c[i - 1]
    BY <1>1, <2>1, <2>2
  <2> QED
    BY <1>2, <2>1, <2>3
<1> QED
  BY <1>1, <1>2, <1>5, <1>6

\* Every scope of C is one of a construct.
LEMMA ScopeOf ==
  ASSUME NEW c, NEW f, NEW n, Levels(c, f, n), Len(f) \in Nat \ {0}, Width(f[1]) = 1, NEW m \in 1 .. n
  PROVE  \E i \in 1 .. Len(f) : m \in Low(c, f[i], i) .. c[i]
<1>1. /\ n \in Nat /\ c[Len(f)] = n /\ c[1] = 1
      /\ \A i \in 1 .. Len(f) : c[i] \in Nat
      /\ \A i \in 1 .. Len(f) - 1 : c[i + 1] = c[i] + Width(f[i + 1])
  BY LowBounds DEF Levels
<1> DEFINE S == {i \in 1 .. Len(f) : c[i] < m}
<1>2. CASE S = {}
  <2>1. 1 \in 1 .. Len(f) /\ ~(c[1] < m)
    BY <1>2
  <2>2. Low(c, f[1], 1) = 1
    BY <1>1 DEF Low
  <2> QED
    BY <1>1, <2>1, <2>2
<1>3. CASE S # {}
  <2> DEFINE j == Max(S)
  <2>1. S \subseteq 1 .. Len(f)
    OBVIOUS
  <2>2. j \in S /\ \A y \in S : y <= j
    <3> HIDE DEF S
    <3> QED
      BY <1>3, <2>1, MaxIn
  <2> HIDE DEF j
  <2>3. j \in 1 .. Len(f) /\ c[j] < m
    BY <2>2
  <2>4. j # Len(f)
    BY <1>1, <2>3
  <2>5. j \in 1 .. Len(f) - 1 /\ j + 1 \in 1 .. Len(f) /\ j + 1 > j
    BY <2>3, <2>4
  <2>6. ~(c[j + 1] < m)
    <3>1. j + 1 \notin S
      BY <2>2, <2>5
    <3> QED
      BY <2>5, <3>1
  <2>7. Low(c, f[j + 1], j + 1) = c[j] + 1
    <3>1. c[j + 1] = c[j] + Width(f[j + 1]) /\ c[j] \in Int /\ Width(f[j + 1]) \in Int
      BY <1>1, <2>5, <2>3, Widths
    <3> QED
      BY <3>1 DEF Low
  <2>8. m \in c[j] + 1 .. c[j + 1]
    BY <1>1, <2>3, <2>5, <2>6
  <2> QED
    BY <2>5, <2>7, <2>8
<1> QED
  BY <1>2, <1>3

\* Where the scopes mirror each other, names mean the same.
LEMMA MirroredMeans ==
  ASSUME Shape, Len(context.scopes) = Len(stack), NEW c, Levels(c, stack, Len(scopes)),
         Mirrored(c, stack, scopes, context.scopes)
  PROVE  AsC
<1> SUFFICES ASSUME NEW x \in Names, IsVariable(scopes, x)
             PROVE  get_variable(context, x) = {Meaning(scopes, x)}
  BY DEF AsC
<1> DEFINE there == {n \in DOMAIN scopes : x \in DOMAIN scopes[n]}
           m == Max(there)
           at == {n \in DOMAIN context.scopes : x \in DOMAIN context.scopes[n]
                                            /\ context.scopes[n][x].kind \in {"variable"}}
           k == Max(at)
<1>1. DOMAIN scopes = 1 .. Len(scopes) /\ DOMAIN context.scopes = 1 .. Len(context.scopes)
  BY DEF Shape, IsContext, Listed
<1>2. there # {} /\ there \subseteq 1 .. Len(scopes) /\ Meaning(scopes, x) = scopes[m][x]
      /\ scopes[m][x].kind = "variable"
  BY <1>1 DEF IsVariable, Meaning
<1>3. m \in there /\ \A y \in there : y <= m
  <2> HIDE DEF there
  <2> QED
    BY <1>2, MaxIn, TopFrame
<1>4. /\ m \in 1 .. Len(scopes) /\ x \in VarsIn(scopes[m])
      /\ \A n \in 1 .. Len(scopes) : x \in VarsIn(scopes[n]) => n <= m
  BY <1>1, <1>2, <1>3 DEF VarsIn
<1>5. at = {n \in 1 .. Len(stack) : x \in VarsIn(context.scopes[n])}
  BY <1>1 DEF VarsIn
<1>6. get_variable(context, x) = IF at = {} THEN {} ELSE {context.scopes[k][x]}
  BY DEF get_variable, Holding
<1> HIDE DEF there, m, at
<1>7. Len(stack) \in Nat \ {0} /\ Width(stack[1]) = 1
  BY TopFrame DEF Shape, Nested, Width
<1>8. PICK i \in 1 .. Len(stack) : m \in Low(c, stack[i], i) .. c[i]
  BY <1>4, <1>7, ScopeOf
<1>9. /\ \A j \in 1 .. Len(stack) : /\ c[j] \in Nat /\ 1 <= Low(c, stack[j], j)
                                    /\ Low(c, stack[j], j) \in Int /\ c[j] <= Len(scopes)
      /\ \A j \in 1 .. Len(stack) : \A l \in 1 .. j - 1 : c[l] < Low(c, stack[j], j)
      /\ Len(scopes) \in Nat
  BY <1>7, LowBounds
<1>10. Twins(scopes, Low(c, stack[i], i), c[i], context.scopes[i])
  BY DEF Mirrored
<1>11. \A n \in m + 1 .. c[i] : x \notin VarsIn(scopes[n])
  <2> SUFFICES ASSUME NEW n \in m + 1 .. c[i], x \in VarsIn(scopes[n]) PROVE FALSE
    OBVIOUS
  <2>1. c[i] \in Nat /\ c[i] <= Len(scopes) /\ m \in Nat /\ m >= 1 /\ Len(scopes) \in Nat
    BY <1>4, <1>9
  <2>2. n \in 1 .. Len(scopes) /\ ~(n <= m)
    BY ONLY <2>1, n \in m + 1 .. c[i]
  <2> QED
    BY <1>4, <2>2
<1>12. x \in VarsIn(context.scopes[i]) /\ context.scopes[i][x] = scopes[m][x]
  BY <1>4, <1>8, <1>10, <1>11 DEF Twins
<1>13. at # {} /\ at \subseteq 1 .. Len(stack) /\ i \in at
  BY <1>5, <1>12
<1>14. k \in at /\ i <= k
  BY <1>7, <1>13, MaxIn
<1> HIDE DEF k
<1>15. k \in 1 .. Len(stack) /\ x \in VarsIn(context.scopes[k])
  BY <1>5, <1>14
<1>16. k = i
  <2> SUFFICES ASSUME k # i PROVE FALSE
    OBVIOUS
  <2>1. i \in 1 .. k - 1
    BY <1>14, <1>15
  <2>2. c[i] < Low(c, stack[k], k)
    BY <1>9, <1>15, <2>1
  <2>3. Twins(scopes, Low(c, stack[k], k), c[k], context.scopes[k])
    BY <1>15 DEF Mirrored
  <2>4. PICK n \in Low(c, stack[k], k) .. c[k] : x \in VarsIn(scopes[n])
    BY <1>15, <2>3 DEF Twins
  <2>5. /\ c[k] \in Nat /\ 1 <= Low(c, stack[k], k) /\ Low(c, stack[k], k) \in Int /\ c[k] <= Len(scopes)
        /\ c[i] \in Nat
    BY <1>9, <1>15
  <2>6. n \in 1 .. Len(scopes) /\ ~(n <= m)
    BY <1>8, <1>9, <2>2, <2>4, <2>5
  <2> QED
    BY <1>4, <2>4, <2>6
<1> QED
  BY <1>2, <1>6, <1>12, <1>13, <1>16

\* Work in the open construct, with variables of C and of the transpiler.
LEMMA MirroredWork ==
  ASSUME Shape, NEW c, Levels(c, stack, Len(scopes)), Mirrored(c, stack, scopes, context.scopes),
         Len(context.scopes) = Len(stack), Len(stack') = Len(stack),
         \A i \in 1 .. Len(stack) : Width(stack'[i]) = Width(stack[i]),
         NEW new, GrownLast(scopes, scopes', new), GrownLast(context.scopes, context'.scopes, new),
         VarsIn(scopes[Len(scopes)]) \cap new = {},
         \A x \in new : scopes'[Len(scopes)][x] = context'.scopes[Len(context.scopes)][x]
  PROVE  /\ Levels(c, stack', Len(scopes')) /\ Mirrored(c, stack', scopes', context'.scopes)
         /\ Len(context'.scopes) = Len(stack')
<1>1. /\ Len(stack) \in Nat \ {0} /\ Len(scopes') = Len(scopes) /\ Len(context'.scopes) = Len(context.scopes)
      /\ \A k \in 1 .. Len(scopes) - 1 : scopes'[k] = scopes[k]
      /\ \A k \in 1 .. Len(stack) - 1 : context'.scopes[k] = context.scopes[k]
      /\ Grown(scopes'[Len(scopes)], scopes[Len(scopes)], new)
      /\ Grown(context'.scopes[Len(stack)], context.scopes[Len(stack)], new)
  BY TopFrame DEF GrownLast
<1>2. Levels(c, stack', Len(scopes'))
  BY <1>1, LevelsWork
<1>3. Width(stack[1]) = 1
  BY DEF Shape, Nested, Width
<1>4. /\ \A j \in 1 .. Len(stack) : /\ c[j] \in Nat /\ 1 <= Low(c, stack[j], j)
                                    /\ Low(c, stack[j], j) <= c[j]
                                    /\ Low(c, stack[j], j) \in Int /\ c[j] <= Len(scopes)
      /\ \A j \in 1 .. Len(stack) : \A l \in 1 .. j - 1 : c[l] < Low(c, stack[j], j)
      /\ Len(scopes) \in Nat /\ c[Len(stack)] = Len(scopes)
  <2>1. Levels(c, stack, Len(scopes)) /\ Len(stack) \in Nat \ {0} /\ Width(stack[1]) = 1
    BY <1>1, <1>3
  <2> QED
    BY ONLY <2>1, LowBounds
<1>5. ASSUME NEW i \in 1 .. Len(stack)
      PROVE  Twins(scopes', Low(c, stack'[i], i), c[i], context'.scopes[i])
  <2> DEFINE lo == Low(c, stack[i], i)
  <2>1. Low(c, stack'[i], i) = lo
    BY DEF Low
  <2>2. lo \in Int /\ c[i] \in Int /\ 1 <= lo /\ lo <= c[i] /\ Twins(scopes, lo, c[i], context.scopes[i])
    BY <1>4 DEF Mirrored
  <2> HIDE DEF lo
  <2>3. CASE i = Len(stack)
    <3>1. c[i] = Len(scopes)
      BY <1>4, <2>3
    <3>2. \A m \in lo .. c[i] - 1 : scopes'[m] = scopes[m]
      <4>1. \A m \in lo .. c[i] - 1 : m \in 1 .. Len(scopes) - 1
        BY <1>4, <2>2, <3>1
      <4> QED
        BY <1>1, <4>1
    <3>3. \A x \in new : scopes'[c[i]][x] = context'.scopes[i][x]
      BY <2>3, <3>1
    <3>4. Grown(scopes'[c[i]], scopes[c[i]], new) /\ Grown(context'.scopes[i], context.scopes[i], new)
          /\ VarsIn(scopes[c[i]]) \cap new = {}
      BY <1>1, <2>3, <3>1
    <3> QED
      <4> DEFINE hi == c[i]
                 f == context.scopes[i]
                 g == context'.scopes[i]
      <4>1. /\ lo \in Int /\ hi \in Int /\ lo <= hi /\ Twins(scopes, lo, hi, f)
            /\ \A m \in lo .. hi - 1 : scopes'[m] = scopes[m]
            /\ Grown(scopes'[hi], scopes[hi], new) /\ Grown(g, f, new) /\ VarsIn(scopes[hi]) \cap new = {}
            /\ \A x \in new : scopes'[hi][x] = g[x]
        BY ONLY <2>2, <3>2, <3>3, <3>4
      <4> HIDE DEF hi, f, g
      <4>2. Twins(scopes', lo, hi, g)
        BY ONLY <4>1, TwinsGrown
      <4> QED
        BY <2>1, <4>2 DEF hi, g
  <2>4. CASE i # Len(stack)
    <3>1. i \in 1 .. Len(stack) - 1 /\ Len(stack) \in 1 .. Len(stack)
      BY <1>1, <2>4
    <3>2. c[i] < Low(c, stack[Len(stack)], Len(stack))
          /\ Low(c, stack[Len(stack)], Len(stack)) <= Len(scopes)
          /\ Low(c, stack[Len(stack)], Len(stack)) \in Int
      BY <1>4, <3>1
    <3>3. \A m \in lo .. c[i] : m \in 1 .. Len(scopes) - 1
      BY <1>4, <2>2, <3>2
    <3>4. \A m \in lo .. c[i] : scopes'[m] = scopes[m]
      BY <1>1, <3>3
    <3>5. Twins(scopes', lo, c[i], context.scopes[i])
      BY <2>2, <3>4, TwinsKept
    <3> QED
      BY <1>1, <2>1, <3>1, <3>5
  <2> QED
    BY <2>3, <2>4
<1>6. Mirrored(c, stack', scopes', context'.scopes)
  BY <1>1, <1>5 DEF Mirrored
<1> QED
  BY <1>1, <1>2, <1>6

\* A construct opens with a scope and its twin.
LEMMA MirroredPush ==
  ASSUME Shape, NEW c, Levels(c, stack, Len(scopes)), Mirrored(c, stack, scopes, context.scopes),
         Len(context.scopes) = Len(stack), NEW fr, Opened(fr),
         Len(scopes') = Len(scopes) + Width(fr), Len(context'.scopes) = Len(context.scopes) + 1,
         \A m \in 1 .. Len(scopes) : /\ VarsIn(scopes'[m]) = VarsIn(scopes[m])
                                     /\ \A x \in VarsIn(scopes[m]) : scopes'[m][x] = scopes[m][x],
         \A k \in 1 .. Len(context.scopes) : context'.scopes[k] = context.scopes[k],
         Twins(scopes', Len(scopes) + 1, Len(scopes'), context'.scopes[Len(context'.scopes)])
  PROVE  /\ Levels(Longer(c, Len(stack), Len(scopes')), stack', Len(scopes'))
         /\ Mirrored(Longer(c, Len(stack), Len(scopes')), stack', scopes', context'.scopes)
         /\ Len(context'.scopes) = Len(stack')
<1> DEFINE d == Longer(c, Len(stack), Len(scopes'))
<1>1. /\ Len(stack) \in Nat \ {0} /\ Len(stack') = Len(stack) + 1 /\ stack'[Len(stack) + 1] = fr
      /\ \A i \in 1 .. Len(stack) : stack'[i] = stack[i]
  BY TopFrame DEF Opened
<1>2. Levels(d, stack', Len(scopes'))
  BY <1>1, LevelsPush
<1>3. Width(stack[1]) = 1
  BY DEF Shape, Nested, Width
<1>4. /\ \A j \in 1 .. Len(stack) : /\ c[j] \in Nat /\ 1 <= Low(c, stack[j], j)
                                    /\ Low(c, stack[j], j) \in Int /\ c[j] <= Len(scopes)
      /\ Len(scopes) \in Nat
  BY <1>1, <1>3, LowBounds
<1>5. d[Len(stack) + 1] = Len(scopes') /\ \A i \in 1 .. Len(stack) : d[i] = c[i]
  BY <1>1 DEF Longer
<1> HIDE DEF d
<1>6. ASSUME NEW i \in 1 .. Len(stack')
      PROVE  Twins(scopes', Low(d, stack'[i], i), d[i], context'.scopes[i])
  <2>1. CASE i = Len(stack')
    <3>1. Low(d, stack'[i], i) = Len(scopes) + 1
      <4>1. stack'[i] = fr /\ d[i] = Len(scopes) + Width(fr) /\ Width(fr) \in Int
        BY <1>1, <1>5, <2>1, Widths
      <4> QED
        BY <1>4, <4>1 DEF Low
    <3>2. d[i] = Len(scopes') /\ i = Len(context'.scopes)
      BY <1>1, <1>5, <2>1
    <3> QED
      BY <3>1, <3>2
  <2>2. CASE i # Len(stack')
    <3>1. i \in 1 .. Len(stack)
      BY <1>1, <2>2
    <3>2. stack'[i] = stack[i] /\ d[i] = c[i] /\ context'.scopes[i] = context.scopes[i]
      BY <1>1, <1>5, <3>1
    <3>3. Low(d, stack'[i], i) = Low(c, stack[i], i)
      BY <3>2 DEF Low
    <3>4. /\ Low(c, stack[i], i) \in Int /\ c[i] \in Int
          /\ Twins(scopes, Low(c, stack[i], i), c[i], context.scopes[i])
          /\ \A m \in Low(c, stack[i], i) .. c[i] : m \in 1 .. Len(scopes)
      BY <1>4, <3>1 DEF Mirrored
    <3>5. Twins(scopes', Low(c, stack[i], i), c[i], context.scopes[i])
      <4>1. \A m \in Low(c, stack[i], i) .. c[i] :
              /\ VarsIn(scopes'[m]) = VarsIn(scopes[m])
              /\ \A x \in VarsIn(scopes[m]) : scopes'[m][x] = scopes[m][x]
        BY <3>4
      <4> QED
        BY ONLY <3>4, <4>1, TwinsKept
    <3> QED
      BY <3>2, <3>3, <3>5
  <2> QED
    BY <2>1, <2>2
<1>7. Mirrored(d, stack', scopes', context'.scopes)
  BY <1>6 DEF Mirrored
<1> QED
  BY <1>1, <1>2, <1>7 DEF d

\* A construct is left with its scopes.
LEMMA MirroredDrop ==
  ASSUME Shape, NEW c, Levels(c, stack, Len(scopes)), Mirrored(c, stack, scopes, context.scopes),
         Len(context.scopes) = Len(stack), NEW bad, Dropped(bad),
         Len(scopes') = Len(scopes) - Width(Top), Len(context'.scopes) = Len(context.scopes) - 1,
         \A m \in 1 .. Len(scopes') : scopes'[m] = scopes[m],
         \A k \in 1 .. Len(context'.scopes) : context'.scopes[k] = context.scopes[k]
  PROVE  /\ Levels(Shorter(c, Len(stack'), Len(scopes')), stack', Len(scopes'))
         /\ Mirrored(Shorter(c, Len(stack'), Len(scopes')), stack', scopes', context'.scopes)
         /\ Len(context'.scopes) = Len(stack')
<1> DEFINE d == Shorter(c, Len(stack'), Len(scopes'))
<1>1. /\ Len(stack) \in Nat \ {0, 1} /\ Len(stack') = Len(stack) - 1 /\ Len(stack') \in Nat \ {0}
      /\ \A i \in 1 .. Len(stack') : stack'[i].kind = stack[i].kind
      /\ Top = stack[Len(stack)]
  BY TopFrame, DroppedFrames DEF Dropped
<1>2. \A i \in 1 .. Len(stack') : Width(stack'[i]) = Width(stack[i])
  BY <1>1 DEF Width
<1>3. Levels(d, stack', Len(scopes')) /\ Len(scopes') \in Nat \ {0}
  <2>1. Levels(c, stack, Len(scopes)) /\ Len(scopes') = Len(scopes) - Width(stack[Len(stack)])
    BY <1>1
  <2> QED
    BY ONLY <1>1, <1>2, <2>1, LevelsDrop
<1>4. Width(stack'[1]) = 1 /\ Width(stack[1]) = 1
  BY <1>1, <1>2 DEF Shape, Nested, Width
<1>5. /\ c \in [1 .. Len(stack) -> Nat] /\ c[Len(stack)] = Len(scopes)
      /\ \A i \in 1 .. Len(stack) - 1 : c[i + 1] = c[i] + Width(stack[i + 1])
  BY DEF Levels
<1>6. \A i \in 1 .. Len(stack') : d[i] = c[i]
  <2>1. c[Len(stack')] = Len(scopes')
    <3>1. Len(stack') \in 1 .. Len(stack) - 1 /\ Len(stack') + 1 = Len(stack) /\ Len(stack') \in 1 .. Len(stack)
      BY <1>1
    <3>2. Len(scopes) = c[Len(stack')] + Width(Top) /\ c[Len(stack')] \in Nat /\ Width(Top) \in Int
      <4>1. c[Len(stack') + 1] = c[Len(stack')] + Width(stack[Len(stack') + 1]) /\ c[Len(stack')] \in Nat
        BY <1>5, <3>1
      <4> QED
        BY <1>1, <1>5, <3>1, <4>1, Widths
    <3> QED
      BY <3>2
  <2> QED
    BY <1>1, <2>1 DEF Shorter
<1> HIDE DEF d
<1>7. \A j \in 1 .. Len(stack') : /\ d[j] \in Nat /\ 1 <= Low(d, stack'[j], j)
                                  /\ Low(d, stack'[j], j) \in Int /\ d[j] <= Len(scopes')
  BY <1>1, <1>3, <1>4, LowBounds
<1>8. ASSUME NEW i \in 1 .. Len(stack')
      PROVE  Twins(scopes', Low(d, stack'[i], i), d[i], context'.scopes[i])
  <2>1. i \in 1 .. Len(stack) /\ i \in 1 .. Len(context'.scopes)
    BY <1>1
  <2>2. Low(d, stack'[i], i) = Low(c, stack[i], i) /\ d[i] = c[i]
    BY <1>2, <1>6 DEF Low
  <2>3. Twins(scopes, Low(d, stack'[i], i), d[i], context.scopes[i])
    BY <2>1, <2>2 DEF Mirrored
  <2>4. \A m \in Low(d, stack'[i], i) .. d[i] : m \in 1 .. Len(scopes')
    BY <1>3, <1>7
  <2>5. \A m \in Low(d, stack'[i], i) .. d[i] : scopes'[m] = scopes[m]
    BY <2>4
  <2>6. context'.scopes[i] = context.scopes[i]
    BY <2>1
  <2>7. Low(d, stack'[i], i) \in Int /\ d[i] \in Int
    BY <1>7
  <2> QED
    BY <2>3, <2>5, <2>6, <2>7, TwinsKept
<1>9. Mirrored(d, stack', scopes', context'.scopes)
  BY <1>8 DEF Mirrored
<1> QED
  BY <1>1, <1>3, <1>9 DEF d

LEMMA StillUnmarked ==
  ASSUME status = "running", notes \subseteq notes', Unmarked'
  PROVE  Unmarked
BY DEF Unmarked

LEMMA MatchedWork ==
  ASSUME Shape, Matched, status = "running", notes \subseteq notes', NEW bad, Worked(bad),
         NEW new, GrownLast(scopes, scopes', new), GrownLast(context.scopes, context'.scopes, new),
         VarsIn(scopes[Len(scopes)]) \cap new = {},
         Unmarked' => \A x \in new : scopes'[Len(scopes)][x] = context'.scopes[Len(context.scopes)][x]
  PROVE  Matched'
<1> SUFFICES ASSUME Unmarked'
             PROVE  /\ Plain' /\ Len(context'.scopes) = Len(stack')
                    /\ \E c : Levels(c, stack', Len(scopes')) /\ Mirrored(c, stack', scopes', context'.scopes)
  BY DEF Matched
<1>1. PICK c : Plain /\ Len(context.scopes) = Len(stack) /\ Levels(c, stack, Len(scopes))
               /\ Mirrored(c, stack, scopes, context.scopes)
  BY StillUnmarked DEF Matched
<1>2. Len(stack') = Len(stack) /\ \A i \in 1 .. Len(stack) : stack'[i].kind = stack[i].kind
  BY WorkedFrames
<1>3. \A i \in 1 .. Len(stack) : Width(stack'[i]) = Width(stack[i])
  BY <1>2 DEF Width
<1>4. Plain'
  BY <1>1, <1>2 DEF Plain
<1>5. /\ Levels(c, stack', Len(scopes')) /\ Mirrored(c, stack', scopes', context'.scopes)
      /\ Len(context'.scopes) = Len(stack')
  BY <1>1, <1>2, <1>3, MirroredWork
<1> QED
  BY <1>4, <1>5

LEMMA MatchedOpen ==
  ASSUME Shape, Matched, status = "running", notes \subseteq notes', NEW fr, Opened(fr),
         fr.kind \in {"function", "while", "do", "for", "if"},
         Len(scopes') = Len(scopes) + Width(fr), Len(context'.scopes) = Len(context.scopes) + 1,
         \A m \in 1 .. Len(scopes) : /\ VarsIn(scopes'[m]) = VarsIn(scopes[m])
                                     /\ \A x \in VarsIn(scopes[m]) : scopes'[m][x] = scopes[m][x],
         \A k \in 1 .. Len(context.scopes) : context'.scopes[k] = context.scopes[k],
         Twins(scopes', Len(scopes) + 1, Len(scopes'), context'.scopes[Len(context'.scopes)])
  PROVE  Matched'
<1> SUFFICES ASSUME Unmarked'
             PROVE  /\ Plain' /\ Len(context'.scopes) = Len(stack')
                    /\ \E c : Levels(c, stack', Len(scopes')) /\ Mirrored(c, stack', scopes', context'.scopes)
  BY DEF Matched
<1>1. PICK c : Plain /\ Len(context.scopes) = Len(stack) /\ Levels(c, stack, Len(scopes))
               /\ Mirrored(c, stack, scopes, context.scopes)
  BY StillUnmarked DEF Matched
<1>2. Plain'
  <2>1. /\ Len(stack') = Len(stack) + 1 /\ stack'[Len(stack) + 1] = fr
        /\ \A i \in 1 .. Len(stack) : stack'[i] = stack[i]
        /\ Len(stack) \in Nat
    BY TopFrame DEF Opened
  <2>2. \A i \in 1 .. Len(stack') : i \in 1 .. Len(stack) \/ i = Len(stack) + 1
    BY <2>1
  <2> QED
    BY <1>1, <2>1, <2>2 DEF Plain
<1>3. /\ Levels(Longer(c, Len(stack), Len(scopes')), stack', Len(scopes'))
      /\ Mirrored(Longer(c, Len(stack), Len(scopes')), stack', scopes', context'.scopes)
      /\ Len(context'.scopes) = Len(stack')
  BY <1>1, MirroredPush
<1> QED
  BY <1>2, <1>3

LEMMA MatchedStated ==
  ASSUME Shape, Matched, status = "running", Stated
  PROVE  Matched'
<1>1. PICK bad \in BOOLEAN : Worked(bad) /\ notes \subseteq notes'
  BY DEF Stated, Notes
<1>2. GrownLast(scopes, scopes', {}) /\ GrownLast(context.scopes, context'.scopes, {})
  BY DEF Stated, GrownLast, Grown, Shape, IsContext
<1> QED
  BY <1>1, <1>2, MatchedWork

LEMMA MatchedDeclares ==
  ASSUME Shape, Matched, status = "running", Declares
  PROVE  Matched'
<1>1. PICK new : \E agree, bad \in BOOLEAN : \E more \in SUBSET DeclareNotes :
        /\ Worked(bad) /\ Notes(bad, more) /\ Declared(new, agree) /\ (~agree => "tagOnly" \in more)
  BY DEF Declares
<1>2. PICK agree \in BOOLEAN, bad \in BOOLEAN : \E more \in SUBSET DeclareNotes :
        /\ Worked(bad) /\ Notes(bad, more) /\ Declared(new, agree) /\ (~agree => "tagOnly" \in more)
  BY <1>1
<1>3. notes \subseteq notes' /\ (~agree => "tagOnly" \in notes')
  BY <1>2 DEF Notes
<1>4. Unmarked' => agree
  BY <1>3 DEF Unmarked, Marks
<1>5. /\ GrownLast(scopes, scopes', new) /\ GrownLast(context.scopes, context'.scopes, new)
      /\ VarsIn(scopes[Len(scopes)]) \cap new = {}
      /\ agree => \A x \in new : scopes'[Len(scopes)][x] = context'.scopes[Len(context.scopes)][x]
  BY <1>2 DEF Declared
<1> QED
  BY <1>2, <1>3, <1>4, <1>5, MatchedWork

LEMMA MatchedScoped ==
  ASSUME Shape, Matched, status = "running", OpensScoped
  PROVE  Matched'
<1>1. PICK fr : /\ Opened(fr) /\ fr.kind \in {"while", "do", "if"} /\ notes \subseteq notes'
                /\ scopes' = Append(scopes, << >>) /\ context' = create_new_scope(context)
  BY DEF OpensScoped, Notes
<1>2. Width(fr) = 1 /\ Len(scopes) \in Nat
  BY <1>1, TopFrame DEF Width
<1>3. /\ Len(scopes') = Len(scopes) + 1 /\ \A k \in 1 .. Len(scopes) : scopes'[k] = scopes[k]
      /\ scopes'[Len(scopes) + 1] = << >>
  BY <1>1, Pushed DEF Shape
<1>4. /\ Len(context'.scopes) = Len(context.scopes) + 1
      /\ \A k \in 1 .. Len(context.scopes) : context'.scopes[k] = context.scopes[k]
      /\ context'.scopes[Len(context.scopes) + 1] = << >>
  BY <1>1, Creates DEF Shape
<1>5. Twins(scopes', Len(scopes) + 1, Len(scopes) + 1, scopes'[Len(scopes) + 1])
  BY <1>2, TwinsOne
<1>6. Twins(scopes', Len(scopes) + 1, Len(scopes'), context'.scopes[Len(context'.scopes)])
  BY <1>3, <1>4, <1>5
<1> QED
  BY <1>1, <1>2, <1>3, <1>4, <1>6, MatchedOpen

LEMMA MatchedFor ==
  ASSUME Shape, Matched, status = "running", OpensFor
  PROVE  Matched'
<1>1. PICK fr, x, item :
         /\ Opened(fr) /\ fr.kind = "for" /\ item.kind = "variable" /\ notes \subseteq notes'
         /\ scopes' = Append(InScope(Append(scopes, << >>), x, item), << >>)
         /\ context' = insert_in_last_scope(create_new_scope(context), x, item)
  BY DEF OpensFor, Notes
<1>2. Width(fr) = 2 /\ Len(scopes) \in Nat
  BY <1>1, TopFrame DEF Width
<1>3. /\ Len(scopes') = Len(scopes) + 2
      /\ \A k \in 1 .. Len(scopes) : scopes'[k] = scopes[k]
      /\ scopes'[Len(scopes) + 1] = Bound(<< >>, x, item)
      /\ scopes'[Len(scopes) + 2] = << >>
      /\ Len(context'.scopes) = Len(context.scopes) + 1
      /\ \A k \in 1 .. Len(context.scopes) : context'.scopes[k] = context.scopes[k]
      /\ context'.scopes[Len(context.scopes) + 1] = Bound(<< >>, x, item)
  BY <1>1, ForScopes
<1>4. VarsIn(scopes'[(Len(scopes) + 1) + 1]) = {} /\ (Len(scopes) + 1) + 1 = Len(scopes')
  BY <1>2, <1>3, NoVars
<1>5. Twins(scopes', Len(scopes) + 1, (Len(scopes) + 1) + 1, scopes'[Len(scopes) + 1])
  BY <1>2, <1>4, TwinsTwo
<1>6. Twins(scopes', Len(scopes) + 1, Len(scopes'), context'.scopes[Len(context'.scopes)])
  BY <1>3, <1>4, <1>5
<1> QED
  BY <1>1, <1>2, <1>3, <1>6, MatchedOpen

LEMMA MatchedFunction ==
  ASSUME Shape, Matched, status = "running", OpensFunction
  PROVE  Matched'
<1> SUFFICES ASSUME Unmarked' PROVE Matched'
  BY DEF Matched
<1>1. PICK fr, item, items :
         /\ Top.kind = "unit" /\ Opened(fr) /\ fr.kind = "function" /\ notes' = notes
         /\ fr.name \notin DOMAIN scopes[1] /\ item.kind = "function"
         /\ scopes' = Append(InScope(scopes, fr.name, item), items)
         /\ context' = [context EXCEPT !.scopes = Append(@, items)]
  BY DEF OpensFunction
<1>2. PICK c : Levels(c, stack, Len(scopes))
  BY <1>1, StillUnmarked DEF Matched
<1>3. Len(scopes) = 1 /\ Width(fr) = 1
  <2>1. Len(stack) = 1
    <3>1. \A i \in 2 .. Len(stack) : stack[i].kind # "unit"
      BY DEF Shape, Nested
    <3>2. Len(stack) \in Nat \ {0} /\ stack[Len(stack)].kind = "unit"
      BY <1>1, TopFrame
    <3> QED
      BY <3>1, <3>2
  <2> QED
    BY <1>1, <1>2, <2>1 DEF Levels, Width
<1> DEFINE s == InScope(scopes, fr.name, item)
<1>4. /\ Listed(s) /\ Len(s) = 1 /\ s[1] = Bound(scopes[1], fr.name, item)
  <2>1. /\ Listed(s) /\ Len(s) = Len(scopes)
        /\ s[Len(scopes)] = Bound(scopes[Len(scopes)], fr.name, item)
    BY InScopes DEF Shape
  <2> QED
    BY <1>3, <2>1
<1>5. scopes' = Append(s, items)
  BY <1>1
<1> HIDE DEF s
<1>6. /\ Len(scopes') = 2 /\ scopes'[1] = s[1] /\ scopes'[2] = items
  <2>1. Listed(s)
    BY <1>4
  <2>2. /\ Len(Append(s, items)) = Len(s) + 1
        /\ \A k \in 1 .. Len(s) : Append(s, items)[k] = s[k]
        /\ Append(s, items)[Len(s) + 1] = items
    BY ONLY <2>1, Pushed
  <2> QED
    BY ONLY <1>4, <1>5, <2>2
<1>7. VarsIn(scopes'[1]) = VarsIn(scopes[1]) /\ \A x \in VarsIn(scopes[1]) : scopes'[1][x] = scopes[1][x]
  <2>1. VarsIn(s[1]) = VarsIn(scopes[1]) \ {fr.name}
    BY <1>1, <1>4, BoundVars
  <2>2. \A x \in VarsIn(scopes[1]) : x \in DOMAIN scopes[1] \ {fr.name}
    BY <1>1 DEF VarsIn
  <2>3. \A y \in DOMAIN scopes[1] \ {fr.name} : s[1][y] = scopes[1][y]
    BY <1>4, BoundVars
  <2> QED
    BY <1>6, <2>1, <2>2, <2>3
<1>8. /\ Len(context'.scopes) = Len(context.scopes) + 1
      /\ \A k \in 1 .. Len(context.scopes) : context'.scopes[k] = context.scopes[k]
      /\ context'.scopes[Len(context.scopes) + 1] = items
  <2> DEFINE t == Append(context.scopes, items)
  <2>1. context = [scopes |-> context.scopes, types |-> context.types] /\ context' = [context EXCEPT !.scopes = t]
    BY <1>1 DEF Shape, IsContext
  <2>2. /\ Len(t) = Len(context.scopes) + 1
        /\ \A k \in 1 .. Len(context.scopes) : t[k] = context.scopes[k]
        /\ t[Len(context.scopes) + 1] = items
    BY Pushed DEF Shape, IsContext
  <2> HIDE DEF t
  <2>3. context'.scopes = t
    BY <2>1
  <2> QED
    BY <2>2, <2>3
<1>9. Twins(scopes', 2, 2, scopes'[2])
  BY TwinsOne
<1>10. Twins(scopes', Len(scopes) + 1, Len(scopes'), context'.scopes[Len(context'.scopes)])
  <2>1. Len(scopes) + 1 = 2
    BY <1>3
  <2> QED
    BY <1>6, <1>8, <1>9, <2>1
<1>11. Len(scopes') = Len(scopes) + Width(fr)
  BY <1>3, <1>6
<1>12. \A m \in 1 .. Len(scopes) : /\ VarsIn(scopes'[m]) = VarsIn(scopes[m])
                                   /\ \A x \in VarsIn(scopes[m]) : scopes'[m][x] = scopes[m][x]
  <2>1. \A m \in 1 .. Len(scopes) : m = 1
    BY <1>3
  <2> QED
    BY <1>7, <2>1
<1> QED
  BY <1>1, <1>8, <1>10, <1>11, <1>12, MatchedOpen

LEMMA MatchedLeft ==
  ASSUME Shape, Scoped, Errors, Matched, status = "running", LeavesConstruct
  PROVE  Matched'
<1> SUFFICES ASSUME Unmarked'
             PROVE  /\ Plain' /\ Len(context'.scopes) = Len(stack')
                    /\ \E c : Levels(c, stack', Len(scopes')) /\ Mirrored(c, stack', scopes', context'.scopes)
  BY DEF Matched
<1>1. /\ Leaves(~Translated(Top)) /\ Dropped(~Translated(Top)) /\ notes \subseteq notes' /\ Len(stack) > 1
      /\ Top.kind \notin {"unit", "function"}
  BY DEF LeavesConstruct, Leaves, Dropped
<1>2. PICK c : Plain /\ Len(context.scopes) = Len(stack) /\ Levels(c, stack, Len(scopes))
               /\ Mirrored(c, stack, scopes, context.scopes)
  BY <1>1, StillUnmarked DEF Matched
<1>3. Len(stack) \in 1 .. Len(stack) /\ Top = stack[Len(stack)]
  BY TopFrame
<1>4. Top.kind \in {"while", "do", "for", "if"} /\ OwnsScope(Top)
  BY <1>1, <1>2, <1>3 DEF Plain, OwnsScope
<1>5. Top.ok
  <2>1. Unmarked
    BY <1>1, StillUnmarked
  <2>2. ~Untranslated
    BY <2>1 DEF Errors, Unmarked, Marks
  <2> QED
    BY <1>3, <2>2 DEF Untranslated, Translated
<1>6. /\ Len(scopes') = Len(scopes) - Width(Top)
      /\ \A m \in 1 .. Len(scopes) - Width(Top) : scopes'[m] = scopes[m]
  BY <1>1, CScopesLeft
<1>7. /\ Len(context'.scopes) = Len(context.scopes) - 1
      /\ \A k \in 1 .. Len(context.scopes) - 1 : context'.scopes[k] = context.scopes[k]
  <2>1. context' = pop_last_scope(context) /\ Len(context.scopes) > 1 /\ IsContext(context)
    BY <1>1, <1>4, <1>5, Room DEF LeavesConstruct, Shape
  <2> QED
    BY <2>1, Pops
<1>8. /\ Levels(Shorter(c, Len(stack'), Len(scopes')), stack', Len(scopes'))
      /\ Mirrored(Shorter(c, Len(stack'), Len(scopes')), stack', scopes', context'.scopes)
      /\ Len(context'.scopes) = Len(stack')
  BY <1>1, <1>2, <1>6, <1>7, MirroredDrop
<1>9. Plain'
  <2>1. Len(stack') = Len(stack) - 1 /\ \A i \in 1 .. Len(stack') : stack'[i].kind = stack[i].kind
    BY <1>1, DroppedFrames
  <2>2. \A i \in 1 .. Len(stack') : i \in 1 .. Len(stack)
    BY <1>3, <2>1, TopFrame
  <2> QED
    BY <1>2, <2>1, <2>2 DEF Plain
<1> QED
  BY <1>8, <1>9

LEMMA MatchedKept ==
  ASSUME Shape, Scoped, Errors, Matched, Step
  PROVE  Matched'
<1>0. status = "running" /\ Top = stack[Len(stack)] /\ Len(stack) \in 1 .. Len(stack)
  BY TopFrame DEF Step
<1>1. ASSUME ~Unmarked' PROVE Matched'
  BY <1>1 DEF Matched
<1>2. CASE OpensPlain
  <2> SUFFICES ASSUME Unmarked' PROVE FALSE
    BY <1>1
  <2>1. PICK fr : /\ notes \subseteq notes' /\ fr.kind \in {"block", "unsafe", "switch", "case"}
                  /\ fr.kind \in {"block", "unsafe"} => "block" \in notes'
                  /\ fr.kind = "switch" => "switch" \in notes'
                  /\ fr.kind = "case" => Top.kind = "switch"
    BY <1>2 DEF OpensPlain, Notes
  <2>2. Plain
    BY <1>0, <2>1, StillUnmarked DEF Matched
  <2> QED
    BY <1>0, <2>1, <2>2 DEF Plain, Unmarked, Marks
<1>3. CASE OpensNothing
  <2>1. status' = "running" => "error" \in notes'
    BY <1>3 DEF OpensNothing, Notes, Panics
  <2> QED
    BY <1>1, <2>1 DEF Unmarked, Marks
<1>4. CASE Switches \/ Skips
  <2>1. "else" \in notes' \/ "error" \in notes'
    BY <1>4 DEF Switches, Skips, Notes
  <2> QED
    BY <1>1, <2>1 DEF Unmarked, Marks
<1>5. CASE LeavesCase
  <2> SUFFICES ASSUME Unmarked' PROVE FALSE
    BY <1>1
  <2>1. notes \subseteq notes' /\ Top.kind = "case"
    BY <1>5 DEF LeavesCase, Leaves
  <2>2. Plain
    BY <1>0, <2>1, StillUnmarked DEF Matched
  <2> QED
    BY <1>0, <2>1, <2>2 DEF Plain
<1>6. CASE LeavesFunction
  BY <1>1, <1>6 DEF LeavesFunction, Unmarked, Marks
<1>7. CASE Ends
  BY <1>1, <1>7 DEF Ends, Unmarked
<1> QED
  BY <1>0, <1>2, <1>3, <1>4, <1>5, <1>6, <1>7, MatchedStated, MatchedDeclares, MatchedScoped, MatchedFor,
     MatchedFunction, MatchedLeft DEF Step

LEMMA MatchedFirst ==
  ASSUME Init
  PROVE  Matched
<1> DEFINE fr == Frame("unit", << >>, << >>)
           one == [i \in 1 .. 1 |-> 1]
<1>1. stack = <<fr>> /\ scopes = <<Builtin>>
  BY DEF Init
<1>2. fr.kind = "unit"
  BY NewFrame
<1> HIDE DEF fr
<1>3. Len(stack) = 1 /\ stack[1] = fr /\ Len(scopes) = 1 /\ scopes[1] = Builtin
  BY <1>1, OneListed
<1>4. Len(context.scopes) = 1 /\ context.scopes[1] = Builtin
  BY FirstContext
<1>5. Plain
  BY <1>2, <1>3 DEF Plain
<1>6. Levels(one, stack, Len(scopes))
  BY <1>3 DEF Levels
<1>7. Mirrored(one, stack, scopes, context.scopes)
  <2>1. Low(one, fr, 1) = 1
    BY <1>2 DEF Low, Width
  <2>2. Twins(scopes, 1, 1, scopes[1])
    BY TwinsOne
  <2> QED
    BY <1>3, <1>4, <2>1, <2>2 DEF Mirrored
<1> QED
  BY <1>3, <1>4, <1>5, <1>6, <1>7 DEF Matched

LEMMA MatchedSpec == Spec => []Matched
<1>1. Shape /\ Scoped /\ Errors /\ Matched /\ [Next]_vars => Matched'
  <2>1. ASSUME Matched, UNCHANGED vars PROVE Matched'
    BY <2>1 DEF vars, Matched, Unmarked, Plain
  <2> QED
    BY <2>1, Steps, MatchedKept
<1> QED
  BY <1>1, MatchedFirst, ScopedSpec, ErrorsSpec, PTL DEF Spec

(***************************************************************************)
(* A name means to the transpiler what it means in C, shadowing included   *)
(* (context.rs:48-50), up to the end of the first function, in the         *)
(* constructs that have a scope of the transpiler's: each open construct   *)
(* has one, which holds what C's scopes of that construct hold.            *)
(***************************************************************************)
THEOREM NamesMeanWhatTheyMeanInC == Spec => []ResolvesAsC
<1>1. Shape /\ Matched => ResolvesAsC
  BY MirroredMeans DEF Matched, Unmarked, Marks, ResolvesAsC
<1> QED
  BY <1>1, ScopedSpec, MatchedSpec, PTL

===============================================================================
