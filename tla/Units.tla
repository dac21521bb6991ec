--------------------------------- MODULE Units ---------------------------------
(***************************************************************************)
(* What a translated unit says, against what the C unit says: paths, reads,*)
(* names and calls, by recursion on both programs.                         *)
(***************************************************************************)
EXTENDS Transpiler

-----------------------------------------------------------------------------
(* Paths: sequences of code, that a return has ended or not.  Bound: the   *)
(* body of a loop runs at most twice.                                      *)

Run(code, ended) == [code |-> code, ended |-> ended]

Then(P, Q) == {p \in P : p.ended}
  \cup {Run(p.code \o q.code, q.ended) : p \in {r \in P : ~r.ended}, q \in Q}

RECURSIVE PathsC(_)

\* The paths of statements of C, with their translated code.
PathsC(s) ==
  LET h == Head(s)
      again == Then(PathsC(h.body), {Run(h.tail, FALSE)})
      once == CASE h.st \in {"expression", "declaration"} -> {Run(h.head, FALSE)}
                [] h.st = "return" -> {Run(h.head, TRUE)}
                [] h.st \in {"block", "unsafe"} -> PathsC(h.body)
                [] h.st = "if" -> Then({Run(h.head, FALSE)}, PathsC(h.body) \cup PathsC(h.other))
                [] h.st \in {"while", "for"} ->
                     Then({Run(h.head, FALSE)},
                          {Run(<< >>, FALSE)} \cup again \cup Then(again, again))
                [] h.st = "do" -> again \cup Then(again, again)
                [] h.st = "switch" -> {Run(h.head, FALSE)}
  IN  IF s = << >> THEN {Run(<< >>, FALSE)} ELSE Then(once, PathsC(Tail(s)))

RECURSIVE PathsOSL(_)

\* The paths of statements of OSL that control.k explores.
PathsOSL(s) ==
  LET h == Head(s)
      once == CASE h.op = "branch" -> UNION {PathsOSL(h.blocks[n]) : n \in DOMAIN h.blocks}
                [] h.op = "loop" -> PathsOSL(h.body) \cup Then(PathsOSL(h.body), PathsOSL(h.body))
                [] h.op = "unsafe" -> PathsOSL(h.body)
                [] h.op = "val" -> {Run(<<h>>, TRUE)}
                [] OTHER -> {Run(<<h>>, FALSE)}
  IN  IF s = << >> THEN {Run(<< >>, FALSE)} ELSE Then(once, PathsOSL(Tail(s)))

\* The statements of all functions so far, in C and in OSL.
BodiesC == FlattenSeq([n \in DOMAIN stack[1].src |-> stack[1].src[n].body])
BodiesOSL == FlattenSeq([n \in DOMAIN stack[1].out |->
               IF stack[1].out[n].op = "fn" THEN stack[1].out[n].body ELSE << >>])

Finished == status = "done" /\ "error" \notin notes

(***************************************************************************)
(* Every path OSL explores is a path of the program (loops.rs, branch.rs,  *)
(* mod.rs:357-396): no false alarm about a path the program does not have. *)
(* Exceptions: a return without a value is not translated, a switch loses  *)
(* what follows the first statement of a case, and a constant among the    *)
(* operands may end the path (RunsThrough).                                *)
(***************************************************************************)
PathsReal ==
  Finished /\ notes \cap {"returnVoid", "switch", "constant"} = {} =>
    PathsOSL(BodiesOSL) \subseteq PathsC(BodiesC)

(***************************************************************************)
(* The same with constants: the operands of x = e come before the transfer *)
(* to x (expression.rs:467-469), which is reached.                         *)
(***************************************************************************)
RunsThrough ==
  Finished /\ notes \cap {"returnVoid", "switch"} = {} =>
    PathsOSL(BodiesOSL) \subseteq PathsC(BodiesC)

(***************************************************************************)
(* Every path of the program is one OSL explores, when loops run at least  *)
(* once and every if has two blocks with statements in them (loops.rs:40,  *)
(* branch.rs:25-36): otherwise the path that skips is not there.           *)
(***************************************************************************)
PathsKept ==
  Finished /\ notes \cap {"returnVoid", "switch", "constant", "while", "for", "oneBlock"} = {} =>
    PathsC(BodiesC) \subseteq PathsOSL(BodiesOSL)

-----------------------------------------------------------------------------
RECURSIVE Reads(_)

\* The variables evaluating e reads in C.
Reads(e) ==
  CASE e.ex = "id" -> {e.name}
    [] e.ex \in {"const", "str", "addr", "sizeof"} -> {}
    [] e.ex \in {"deref", "incr", "member", "cast"} -> Reads(e.of)
    [] e.ex = "call" -> UNION {Reads(e.args[n]) : n \in DOMAIN e.args}
    [] e.ex = "assign" -> (IF IsId(e.l) THEN {} ELSE Reads(e.l)) \cup Reads(e.r)
    [] e.ex \in {"bin", "opassign", "index"} -> Reads(e.l) \cup Reads(e.r)
    [] e.ex = "cond" -> Reads(e.of) \cup Reads(e.l) \cup Reads(e.r)

RECURSIVE Named(_)

\* The variables an OSL expression names in another place than a target.
Named(o) ==
  CASE o.op = "id" -> {o.name}
    [] o.op = "transfer" -> Named(o.of) \cup (IF o.to.op = "deref" THEN Named(o.to) ELSE {})
    [] o.op = "call" -> UNION {Named(o.args[n]) : n \in DOMAIN o.args}
    [] o.op \in {"newResource", "unit", "decl"} -> {}
    [] OTHER -> Named(o.of)

(* The forms of expressions that keep their reads: not x += e and x++, not *)
(* casts, members, or array elements that are not assigned to.             *)
RECURSIVE KeepsReads(_)
KeepsReads(e) ==
  CASE e.ex \in {"id", "const", "str", "addr", "sizeof"} -> TRUE
    [] e.ex = "deref" -> KeepsReads(e.of)
    [] e.ex = "call" -> \A n \in DOMAIN e.args : KeepsReads(e.args[n])
    [] e.ex \in {"assign", "bin"} -> KeepsReads(e.l) /\ KeepsReads(e.r)
    [] OTHER -> FALSE

\* The last statement of the open construct.
LastExpression ==
  IF Top.src = << >> THEN {} ELSE
    {[e |-> e, code |-> Top.src[Len(Top.src)].head] : e \in Top.src[Len(Top.src)].of}

(***************************************************************************)
(* Every variable a statement reads is named by its translation, and all   *)
(* of it comes before what the statement writes (expression.rs:467-491).   *)
(* A variable that is named like an enumeration constant is taken for it.  *)
(***************************************************************************)
ReadsKept ==
  \A s \in LastExpression :
    /\ KeepsReads(s.e) =>
         Reads(s.e) \ enumerators \subseteq UNION {Named(s.code[n]) : n \in DOMAIN s.code}
    /\ \A n \in DOMAIN s.code : s.code[n].op = "transfer" => n = Len(s.code)

-----------------------------------------------------------------------------
\* The statements and expressions an element of OSL is made of.
Parts(o) ==
  CASE o.op = "call" -> ToSet(o.args)
    [] o.op = "branch" -> UNION {ToSet(o.blocks[n]) : n \in DOMAIN o.blocks}
    [] o.op \in {"loop", "unsafe", "fn"} -> ToSet(o.body)
    [] o.op \in {"transfer", "borrow", "mborrow"} -> {o.of, o.to}
    [] o.op \in {"rd", "deref", "immBorrow", "mutBorrow", "deallocate", "val"} -> {o.of}
    [] OTHER -> {}

RECURSIVE Ids(_), CallsIn(_)
Ids(o) == IF o.op = "id" THEN {o.name} ELSE UNION {Ids(p) : p \in Parts(o)}
CallsIn(o) == (IF o.op = "call" THEN {o} ELSE {}) \cup UNION {CallsIn(p) : p \in Parts(o)}

RECURSIVE Undeclared(_, _)

\* What the statements s use that is not among known nor declared before.
Undeclared(s, known) ==
  LET h == Head(s)
      inner == CASE h.op = "branch" -> UNION {Undeclared(h.blocks[n], known) : n \in DOMAIN h.blocks}
                 [] h.op \in {"loop", "unsafe"} -> Undeclared(h.body, known)
                 [] h.op = "fn" -> Undeclared(h.body, known \cup {h.params[n].name : n \in DOMAIN h.params})
                 [] OTHER -> Ids(h) \ known
  IN  IF s = << >> THEN {}
      ELSE inner \cup Undeclared(Tail(s), IF h.op = "decl" THEN known \cup {h.name} ELSE known)

(***************************************************************************)
(* Every variable of the output is declared before it is used, in a block  *)
(* around the use; a constant of an enumeration is none                    *)
(* (declaration.rs:73-120, context.rs:62-70).  OSL is stuck at any other   *)
(* name.  Constants are lost that are defined together with a variable or  *)
(* before a second enumeration without a tag, and those that are an        *)
(* argument, a condition, a value returned or e in x += e are emitted as   *)
(* they are.  The value of a member s.f is read from a variable f          *)
(* (expression.rs:523-525), which there need not be.                       *)
(***************************************************************************)
NamesDeclared ==
  Finished /\ notes \cap {"enumVariable", "untaggedAgain", "alone", "member"} = {} =>
    Undeclared(stack[1].out, {}) = {}

(***************************************************************************)
(* Every call of the output is of a function that it defines, with as many *)
(* arguments as that has parameters (expression.rs:113-198, 526-566,       *)
(* stdfun.rs:119-317): the name has the number of arguments where the      *)
(* library's has.  Exceptions: Misfit.                                     *)
(***************************************************************************)
CallsBound ==
  Finished /\ "misfit" \notin notes =>
    LET called == UNION {CallsIn(stack[1].out[n]) : n \in DOMAIN stack[1].out}
        fns == {stack[1].out[n] : n \in {m \in DOMAIN stack[1].out : stack[1].out[m].op = "fn"}}
    IN  \A c \in called :
          \/ c.fn \in DOMAIN Library /\ Len(Library[c.fn]) = Len(c.args)
          \/ \E f \in fns : f.name = c.fn /\ Len(f.params) = Len(c.args)
          \/ c.fn = "main"

===============================================================================
