--------------------------- MODULE MCExploration ---------------------------
(* Programs for Exploration, and their paths.                              *)
EXTENDS Exploration

P == INSTANCE Paths

Sequences1(S, lo, hi) == UNION {[1 .. m -> S] : m \in lo .. hi}

Simple == {ret} \cup (UNION {{use(v), move(v), init(v)} : v \in Vars})

\* Blocks that ask for a resource, take it away, or do nothing.
Quiet == {<< >>} \cup (UNION {{<<use(v)>>, <<move(v)>>} : v \in Vars})

Branches(Blocks, n) == {branch(bs) : bs \in Sequences1(Blocks, 1, n)}
Loops(n) == {loop(b) : b \in Sequences1(Simple, 1, n)}

Starting(S) == {<<init(v)>> \o p : v \in Vars, p \in S}

\* Two statements: simple ones, branches of up to two blocks, loops.
FlatPrograms ==
  Starting(Sequences1(Simple \cup Branches(Sequences1(Simple, 0, 1), 2) \cup Loops(2), 0, 2))

\* Branches of three blocks, and branches after a statement in a block.
NestedPrograms ==
  Starting({<<branch(bs), s>> : bs \in [1 .. 3 -> Quiet], s \in Simple}
    \cup {<<branch(<<b \o <<c>>, <<d>> >>)>> :
            b \in Quiet, c, d \in {branch(bs) : bs \in [1 .. 2 -> Quiet]}})

\* A branch inside a loop, then a loop; inside a branch or not.
LoopPrograms ==
  LET bodies == {branch(bs) : bs \in [1 .. 2 -> Quiet \cup {<<ret>>}]}
      pairs == {<<loop(<<c>>), loop(<<s>>)>> : c \in bodies, s \in Simple}
  IN  Starting(pairs \cup {<<branch(<<p, << >> >>)>> : p \in pairs}
                     \cup {<<loop(<<s, t>>)>> : s, t \in Simple})

CompiledPrograms == FlatPrograms \cup NestedPrograms \cup LoopPrograms

\* if .. else if .. else if .. else, as tests/assets/check_leap_year.c has it.
LeapYear ==
  {<<init(v), branch(<< <<use(v)>>,
       <<branch(<< <<use(v)>>,
          <<branch(<< <<use(v)>>, <<use(v)>> >>)>> >>)>> >>)>> : v \in Vars}

=============================================================================
