# TLA+ models of OSL

OSL checks the memory discipline of C programs. A transpiler (Rust) turns C
into programs of a small ownership language, whose semantics is written as K
rules; the K tool `krun` runs the program on those rules and the program is
valid when every path of it runs to the end. The rules *are* the checker: a
statement that breaks ownership is one no rule rewrites.

This directory models the rules, calls of functions, the exploration of paths,
the transpiler and a whole run of the command, checks them with TLC and proves
the main results with TLAPS.

## Inventory

| component | source | state | operations |
|---|---|---|---|
| ownership and borrowing rules | `model/osl.k` | environment, store, write log, two clocks of one `<state>` | declare, transfer, read, borrow, mborrow, deallocate, `*x` |
| blocks | `model/block.k` | stack of declarations and saved environments, unsafe flag | enter, leave, unwind, unsafe |
| path exploration | `model/control.k` | the pool of `<state>`s, `nstate`, the shared list `tmp` | branch, loop, fork, join, remove |
| calls | `model/call.k` | table of functions | define, bind arguments, return |
| configuration, syntax | `model/configuration.k`, `model/osl-syntax.k` | the cells and their initial values | - |
| verdict | `src/lib.rs` (`krun`, `is_valid`) | none | run the rules, read the remains |
| command line | `src/main.rs`, `src/lib.rs` | the file between the transpiler and `krun`, the compiled model | check K, transpile, save, run, judge, clean up |
| transpiler | `cfrontend/src/transpiler/*` | a stack of scopes, tables of types | C declarations, statements, expressions, loops to OSL |
| library functions | `cfrontend/src/transpiler/stdfun.rs` | none | the functions put in front of every program |
| syntax tree, printer, C front-end command | `cfrontend/src/ast/*`, `cfrontend/src/{lib,main}.rs` | none | - |
| compiled semantics | `model/osl-kompiled/` | - | generated from the rules |
| K | `k/` | - | vendored |

How they interact: the command line calls the transpiler, writes its output,
starts `krun` on it and gives what `krun` prints to `is_valid`. Inside `krun`
the rules of `osl.k` and `block.k` rewrite one `<state>`, those of `control.k`
copy, compare and remove whole `<state>`s. States share `nstate` and `tmp` and
nothing else. Which rule goes first is left open by K and fixed by the
committed build.

What is hard:

* lifetimes grow with use, and every check is of one reference against what
  the others have become (all orders of borrows, uses and moves matter);
* they are measured on two counters, in half-open intervals, with reads that
  take no time;
* what a transfer logs and what it changes are different cells when it goes
  through a reference;
* all states share `tmp` and take names from a counter that also goes down;
* the verdict looks at one state and a counter, so a path that was never run is
  taken for one that succeeded;
* a call runs in the environment of its caller, its arguments may be calls, and
  a return leaves any number of blocks;
* the transpiler's scopes follow C's for some constructs and not for others,
  stay behind after functions and errors, and decide which properties a
  variable has; what it leaves out of a program nobody sees;
* names are decided in one table and defined in another (library functions,
  constants of enumerations);
* a run of the command may end at ten places, and passes the program through a
  file that may hold another.

What makes each correct: of the rules, data-race freedom, exclusive writes,
references that lead where they led, resources in one place; of blocks, scopes
that keep their cells and give them back; of the exploration, that an accepted
program has no stuck path, that counters and lists stay in step with the
states, and that it ends; of calls, that arguments are bound as the caller
means them and that a return leaves the caller's blocks whole; of the
transpiler, that names resolve as in C, that what it emits is defined, and that
paths and effects are kept; of the pipeline, that "valid" is said of the program
that was translated, and only if it is, and that the file is left as asked.

`PROJECT.json` lists each hazard at its line with the properties that cover it.

## Modules

| module | models |
|---|---|
| `Borrows` | values of a store and the checks on them: `#lc`, `#borrowimmck`, `#borrowmutck`, `#writeCK`, `#existRef`, `#checkInit` |
| `Ownership` (extends `Borrows`) | one `<state>`: every rule of `osl.k` for statements without calls, and `block.k` |
| `Resources` | what the rules promise of resources: created once, in one place, never back when gone; `Ownership` implements it |
| `Calls` (extends `Ownership`) | `call.k`: binding of parameters, bodies, early returns, returned values and references |
| `Exploration` | the pool: `control.k`, `krun`'s exhaustive rewriting, `is_valid` |
| `Paths` | the reference definition of "every path of the program runs", by recursion on the program |
| `Pipeline` (extends `Exploration`) | one run of `osl`: `main.rs`, `lib.rs`, with the file and every way to fail |
| `Scopes` | the transpiler's context: the stack of scopes, its lookups, the table of types |
| `Library` (extends `Scopes`) | `stdfun.rs`: the names and parameters of the library functions |
| `Expressions` (extends `Library`) | C expressions to effects and OSL expressions, with errors and panics |
| `Transpiler` (extends `Expressions`) | the walk over a C unit: one action per construct that is met, opened or closed |
| `Units` (extends `Transpiler`) | paths, reads, names and calls of a C unit and of its translation, by recursion on both, and the properties that compare them |
| `MCOwnership`, `MCCalls`, `MCExploration`, `MCPipeline`, `MCTranspiler` | the classes of programs the runs use |
| `Ownership_proofs`, `Blocks_proofs`, `Resources_proofs`, `Calls_proofs`, `Exploration_proofs`, `Pool_proofs`, `Pipeline_proofs`, `Transpiler_proofs` | theorems |

### Ownership

The program is the environment: between two statements any statement of the
forms in `Forms` is offered. A statement that cannot be rewritten is an action
that is not enabled, so behaviours are the prefixes of executions OSL accepts,
and an invariant is a claim about every accepted program.

A statement that K rewrites in several steps (a transfer, a read, the end of a
block) does so here too: `task` is what is left of it at the head of `<k>`.
`env`, `store`, `stack`, `write`, `timer`, `index`, `unsafe` are the cells of
the same names (`index` the first component of `<indexes>`, whose second no
rule uses). The environments of blocks saved on the stack carry the mark of
`#unsafeBlockend`.

Three history variables or fields are never read by the code's part of the
model: `wasUnsafe`; the `id` of a resource, K keeping only its properties; and
`saw`, the resource a reference led to when it was made.

Decisions of the rules one may not expect, all modelled as they are:

* `borrow` and `mborrow` write a cell without logging the write; they only
  need the borrowed cell not to be empty, so one can borrow a reference;
* reads of owners are neither checked nor recorded;
* `#existRef` stops at the first reference to the location, and which one is
  first is the set's order: `existRef` is the set of its possible answers;
* both rules for `*x` match an immutable reference, and the second rewrites it
  as a mutable one; `Lv` offers both;
* both operands of `#Transfer` are strict, so they are evaluated in either
  order;
* `#TransferMB` writes a cell that need not be in the store, so a moved mutable
  reference can land in a dead location; `#TransferIB` cannot;
* a transfer through a mutable reference logs the reference's own cell;
* `deallocate` takes no time and looks at no reference.

### Calls

`Calls` adds two variables to `Ownership`'s: `calls`, the calls that have not
ended, and `ret`, the value on its way out of the innermost one. A call is a
block of the caller's environment (`call.k:25`): `BindDecl` and `BindArg` are
the declarations and transfers `#bindParams` puts in front of the body, which
then runs as any program does. The next parameter, its argument, the type and
the body are whatever comes next, so the table of functions (`fn`) is not
needed. `calls[i].to` is who waits: a cell, nobody, or a `val`.

`val(e)` sets `ret`; `Unwind` leaves the blocks of the body one by one
(`block.k:18-24`), and a `Deliver` action compares type and value and hands it
over. A body that ends without `val` delivers nothing, and only to nobody.

Decisions of the rules, all modelled as they are:

* parameters are declared by their own names in the caller's environment, one
  after the other, each before its argument is looked up, so `f(x)` for a
  parameter `x` binds the parameter to itself, and a later argument may mean an
  earlier parameter;
* `val(x)` of an owner leaves the resource in `x`;
* the properties of value and type must be equal (`==K`); the paper's
  `#equivType` (`annexes.tex`) lets the value have more;
* a value that meets `#voidTy`, or `#unsafeBlockend` on its way out, has no rule
  and the program is stuck there; in the paper a function without a type may
  return;
* whether a returned reference is mutable depends on the owner it leads to
  (`osl.k:125-137`), not on how it was borrowed.

### Exploration

Of a state's data only the set of variables that own a resource is kept: enough
for a statement to succeed or be stuck, and for the comparison that joins a
loop. `use`, `move` and `init` stand for reading, moving out of and filling a
variable. Blocks are flattened. An early return drops what follows up to the
end of the loop or function in one step; K drops it block by block. A bare value
in front of `#loopEnd`, which K reaches when `V ~> .Stmts => V` goes first, is
`BareReturn`.

A fork whose index is taken makes two entries of one key in the map of states:
the result is no configuration, and `is_valid` cannot read it. The model stops
with `crashed`.

`Compiled = TRUE` is the order of the committed build (`osl-kompiled/realdef.ml`):
rules of a single state first, then joins, loop forks, branch forks and
removals, then the pop of `tmp`, then the push; within a group the state of
least index. `FALSE` lets any rule apply, as K's definition does.

### Pipeline

`phase` is where `main` is and `exit` how it ended; `disk` has the two files a
run may write, `<input>.osl` (which may hold what an earlier run with `--keep`
left) and the one that `--output` names. Whatever can fail outside may fail:
tools that are missing, a model that does not compile (its status is not looked
at, `lib.rs:44-51`), a program that does not translate, a file that cannot be
made or is written in part, `krun` that cannot be started, fails, or prints no
configuration. `Rewrite` is `Exploration`'s `Next`, on the program read from the
file. `ReportSound` relates the verdict to the program that was translated,
through the file, `krun` and the parse of its output.

What it does not say: an error of `krun` is a panic of `osl` (the status is
dropped at `lib.rs:102`, the parse fails at `lib.rs:123`), and then the file
stays. `recompile_model` starts `k/bin/kompiled` (`lib.rs:45`), which is not
among the tools checked (`lib.rs:38-42`). `README.md:36` describes `-o` as the
place of the output; with `--keep` unset the file is removed all the same
(`main.rs:119-122`). Two runs on one input share a file; a run of the model has
it to itself.

### Transpiler

The C unit is the environment: wherever the walk stands, any construct of the
kinds in `Forms` that is legal C there (`Legal`, `Fresh`) is offered. What the
transpiler does by recursion is a stack of frames: a frame is a call that has
not returned, with the statements it has collected. `context` is
`MutabilityContext`, `status` the outcome, panics included. A construct is
one action, or two when statements come in between: `OpenLoop` creates the scope
and translates the condition, `Close` appends the condition, pops the scope and
makes the loop. `OpenFor` translates condition, initialiser and step in that
order, as the code does before it looks at the body.

What the properties compare with is kept beside: `scopes`, `tags` and
`enumerators`, the scopes, types and constants of C; `src`, the statements of C with the translation of
their expressions; `notes`, which constructs the unit has had. No translation
reads them, only the premises of properties and what is legal C.

Decisions of the transpiler one may not expect, all modelled as they are:

* loops and ifs have a scope, an else shares its if's, blocks, cases and
  switches have none; functions have one that is never popped
  (`mod.rs:242` has the pop commented out);
* a function is entered in the scope that is last when its body is done;
* an error in a body leaves the scope of the construct on the stack;
* in a declaration the variable is known to its own initialiser;
* `return;` is nothing, and what follows it is reached; `return e;` drops the
  effects of `e`;
* a switch keeps what directly follows each label and forgets the rest, errors
  included;
* `*p = e` is a transfer only when `e` has one effect; `x += e` is `e`;
* a call with `&x` to a function that is not registered panics: calls of the
  function itself, and `scanf("%d", &x)`, because what is registered is `scanf1`
  to `scanf5` (`expression.rs:160-169`);
* `s.f = e` is `s = e`, so `s.f = &x` panics, `s` being no reference
  (`expression.rs:494-501`); the value of `s.f` is read from a variable `f`
  (`expression.rs:523-525`), which there need not be;
* constants of enumerations are new resources, wherever the enumeration was
  defined (`context.rs:62-70`), except as a whole argument, condition or returned
  value or in `x += A`, where they are emitted as variables; `enum { A } x;` declares `x` and
  forgets `A`; all enumerations without a tag share one entry;
* a constant that is one of several operands (`sizeof`, of an enumeration)
  becomes `val(newResource(..))`, a return (`mod.rs:59`);
* a call inside an expression is emitted by its own name, a call that is a whole
  statement, argument or right-hand side of its own with the number of its
  arguments appended, if `is_std_function`; strings and casts among the
  arguments of the former vanish (`x = atoi("12")` calls `atoi()`).

`Library` is all of `stdfun.rs` but bodies and return types. Some of those
disagree with what they stand for: `bind`, `listen`, `close`, `printf` and
`scanf` return nothing, and `abs`, `rand` and `atoi` are declared `own(copy)` and
return a resource that is also `mut`, which `==K` refuses.

What the transpiler does by recursion on an expression is a function on
`Operands(e)`, what the expression is made of down to `MaxNesting` operators, so
that theorems can be stated of it; the comparisons of whole programs in `Units`
are recursive operators.

`PathsC` and `PathsOSL` (`Units`) are the paths of both programs as sequences of
translated statements: the first what C does, the second what `control.k`
explores. Their loops run at most twice.

## Runs

Passing:

| run | shows |
|---|---|
| `own_references` | `NoDataRace`, `WritesExclusive`, `OneClock`, `TypeOK` for all forms but blocks; `ReadEnds`: a read ends, gets stuck or meets a cycle of references |
| `own_blocks` | two nested blocks: `ScopesLive`, `NoStrayCells`, `StaysDangling`, `UnsafeInside`; `SameResource`: a usable reference leads to the resource it was made for; `ResourcesImplemented` |
| `own_calls` | calls: `ScopesLive`, `NoStrayCells` again, `CallTypeOK`, `ArgumentsMeant`, and `OneOwner` for functions that return variables of their own |
| `exp_any` | `NStateCounts`, `TmpMatches`, `TypeOK`, `Terminates` in any order |
| `pipeline` | runs of the command in the build's order: `ReportSound`, `Tidy`; `TakesOwnBlock`, `JoinsOwnLoop` |
| `trans_units` | `NamesFound`, `ResolvesAsC`: names; `NoPanic`: panics on names come of four known causes only; `ErrorsReported`; `PathsReal`, `PathsKept`: the paths of the output against those of the program; `ReadsKept`: a statement's reads against its translation's; `NamesDeclared`, `CallsBound`: what the output uses it also defines |

`SameResource` is checked on programs that name the cells they write
(`BlockForms`): with transfers through references it fails, for the reason
`own_use_after_free` shows (`osl.k:122`: the cell that is logged is not the one
that is filled), also while an immutable reference to the owner is active.
`NoDataRace` and `WritesExclusive` need no such restriction; the
first is about lifetimes, the second about what is logged.

Runs that fail, each on one statement of the repository:

| run | disagreement |
|---|---|
| `exp_leap_year` | a test asserts that `check_leap_year.c` validates; a path that forks twice makes two states of one index |
| `own_use_after_free` | the paper's use after free is not stopped |
| `own_borrowed_move` | no move while a reference is in use: the second reference is not looked at |
| `calls_capture` | the paper gives parameters unique names; here an argument named like its parameter, or like an earlier one, gets that for the caller's variable |
| `calls_two_owners` | one owner at a time; a function that returns a variable of its caller makes two |
| `trans_constant` | the operands of an assignment are read before the transfer; a constant among them returns from the function |

Two more disagreements are of the same kind and have no run: `transfer e *y`
writes through an immutable reference (`osl.k:257`, against the note at
`osl.k:121`), and `struct S t;` gives `t` every property, copy included, whatever
the members of `S` (`declaration.rs:127`; an exception of `ResolvesAsC`).

`UnsafeInside` is one direction only: after an unsafe block inside another the
checks are on again, although the outer one is still open (`block.k:40` sets the
flag to false whatever it was).

Of the transpiler `NamesFound` holds of every unit, at every point,
`ErrorsReported` of those without a switch. The others have premises, and each
premise is something the transpiler does that C does not: `ResolvesAsC` holds
while the first function is being translated, if it is of loops and ifs, and
fails after a block, an else, a case, an error or a function, which leave names
behind that hide others; `PathsReal` holds without `return;` and switches;
`PathsKept` needs loops that run and ifs with two blocks, because the output has
no path for a loop that runs no time, nor for an if that is skipped. Both leave
out constants among operands, which is what `trans_constant` shows. `ReadsKept`
is about the forms in `KeepsReads`. `NamesDeclared` leaves out the three ways a
constant of an enumeration is lost that are listed above and the values of
members, which are read from variables that are not declared; the run has one,
`x = *s.p`. `CallsBound` leaves out the calls
that do not fit (`Misfit`): `fprintf`, whose names are one off (`stdfun.rs:82`),
`pow` and `fmod` as whole statements, which get a number their definitions have
not, `printf` and `scanf` inside an expression, which get none, or with more than
five arguments, and strings, casts or addresses of other things than variables
as arguments inside an expression.

`NoPanic` says what the three panics on names come of, and a panic that comes of
anything else violates it; each cause is in the run and does panic there:

* "function not find": of a call with `&x`, of a function that is not completely
  defined before the call or that the library has under other names (`scanf`).
  A call with `&x` of a function that is defined, or of one like `write`, does
  not panic;
* "has not been catched": of a `for` whose condition assigns the address of the
  header's own variable, or to it an address: the condition is translated before
  the variable is declared (`loops.rs:46`);
* "should be a reference": of the same, of `s.f = &x`, or where a scope may have
  leaked and a name means something else (the premise of `ResolvesAsC`).

The fourth panic, `unimplemented!()` for an element of what is no named array
(`expression.rs:706`), is outside of `NoPanic` and of the run's expressions. The
causes are noted only in the step that panics, so none excuses a later one.

The K rules admit more than the committed build does. With `Compiled = FALSE`,
`ReportSound` fails on `NestedPrograms` (two pending branches swap their
blocks, so a stuck path is never run) and `JoinsOwnLoop` on `LoopPrograms` (a
loop meets what another loop left behind under the same tag). The order of the
committed build avoids both, which is what `pipeline` shows; a build that
orders its rules otherwise need not.

### Bounds

* `Ids`: three variables are an owner and two references, or two owners and a
  reference: every check relates two references and their target. Runs of a
  violation use two where two are enough.
* `MaxTime`: a declaration, a transfer, a borrow take one tick each; reads,
  deallocations and blocks none. Six ticks declare three variables, fill one and
  leave two for borrows or writes, with any number of reads in between; seven
  also allow a write after two borrows.
  In `own_blocks` five ticks declare, fill, borrow and declare again inside.
* `MaxDepth`: two nested blocks, of each kind in each order; in `own_calls` a
  call in a call or a block in a call, to be left with a value.
* `MaxParams = 1`: with a call as the argument, the inner call's parameter is
  bound while the outer one's is; `calls_capture` needs no more either, the
  argument being looked up after its own parameter is declared.
* `PropLists`: `own_blocks` has resources without properties, with copy, and
  with mut; elsewhere every resource may be borrowed mutably.
* `Options`: print only; check and forget under another name; check and keep, by
  either name.
* `Vars = {x}`, and programs of an initialisation and two statements, branches
  of up to three blocks, branches in branches, in loops, and loops in branches.
* `Paths!MaxIterations = 3`: what a loop finds owned can change once per
  variable, so later iterations repeat.
* `trans_units`: two functions, so that one is called from the other, and three
  more constructs, elses and ends aside: with parameters to work on, enough for
  a statement in a loop in an if or in a case of a switch and for a declaration
  that hides another inside a loop and is used there. Expressions are one of
  each way of the translation: a constant (as a `for`'s step), several effects
  with a call, a borrow, a transfer through a pointer, a call with a borrow, library calls with
  their arguments counted, without, and with a borrow that is found or not, a
  constant of an enumeration as an operand, as an argument and in `x += RED`, a
  member read and one assigned to, and a condition that does not translate. One
  header has a condition that borrows for its own variable.
  Enumerations come with a tag, without, with a variable, and with the name of a
  variable for a constant. `Intrinsics` are two library functions, `write` with a
  parameter that is an immutable reference, and `pow`, which is an
  `is_std_function`; the properties compare with all of `Library`.
* `MaxNesting = 3`: no expression of the run has more than three operators around
  an operand.

`Symmetry` permutes identifiers and is not used where a liveness property is
checked. Deadlock is not checked: a stuck statement is how OSL rejects a
program, and an exploration stops when it is finished.

### Fairness

`krun` applies rules as long as one applies. `Exploration` has `WF_vars(Next)`.
`Ownership` has `WF_vars(Rewrite)`: a statement that has begun is carried on,
while the program owes no further statement.

## Proofs

`Ownership_proofs` proves, for every set of identifiers, every choice of forms
and every bound:

* `TypeCorrect`: `Spec => []TypeOK`
* `LifetimesOnOneClock`: `Spec => []OneClock`
* `DataRaceFreedom`: `Spec => []NoDataRace`
* `WritesAreExclusive`: `Spec => []WritesExclusive`

All follow from one inductive invariant, `IInv`: types, `index = timer`, an
unsafe flag that implies the history variable, and `StoreOK(store, write, timer,
~wasUnsafe)`: cells typed, lifetimes in the past, conflicting lifetimes apart,
no write inside a lifetime. It is about *stores* and not about the variable,
because a transfer with `*x` on both sides rewrites the store twice in one step;
each way of changing a store (`OwnKeeps`, `NewKeeps`, `UseKeeps`, `DropKeeps`,
`LogKeeps`, `LaterKeeps`) is a lemma, and each action cites those it needs. The
argument is in `UseKeeps`: the check of a used reference `l` says no conflicting
lifetime has an end in `(l.beg, now]`; lifetimes being in the past, every
conflicting one ends by `l.beg`, so it stays apart when `l` reaches `now`. A new
lifetime is an instant at the end of time, apart from every other. That needs
both clocks to be one, which is why `OneClock` is part of the invariant. The only
assumption used is `PropsAssumption`, for the types.

`Blocks_proofs` proves `ScopesStayLive` (`ScopesLive`) and
`ChecksOffOnlyInUnsafe` (`UnsafeInside`) for any depth. `ScopesLive` is not
inductive: that the end of a block leaves the variables around it their cells
depends on the order of the stack. `BlockInv` says that
every environment, saved or not, leads to cells that exist, or did exist while a
block is being left, and (`Nested`) that what a pending declaration of `x` gave
is no cell of a block further out, in the environment of now or in one saved
since; so taking the cell of `x` back by name (`block.k:26-29`) takes the right
one. `calls_capture` shows names hiding each other across calls; this is why
it does no harm to cells.

`Resources_proofs` proves what happens to resources:

* `RulesImplementResources`: `Spec => ResourcesImplemented`, the refinement, for
  programs of every form. `FitInv` adds to `BlockInv` what the mapping needs:
  every location and resource that is named, in a cell or in a statement
  half-way, was given out (`Fits`, `Carried`), so a new resource is new, and a
  mutable reference that is being moved is still there. Each statement and
  rewrite is then one step of `Resources` or none (`Creates` and the lemmas beside
  it). The steps are proved against `Resources` with any natural number for a
  place and then brought inside `0 .. MaxTime`, which needs that a transfer
  half-way has time left (`Timely`).
* `NoCellStrays`: `Spec => []NoStrayCells`, from `CellsCount`, the same count
  half-way through the end of a block: each step either pushes one declaration
  with a new cell, or pops one with its cell, or keeps both (`CellStep`).
* `DanglingStays`: `Spec => StaysDangling`, from the same `CellStep`: the only
  cell a step adds is at `index`, and no reference leads there yet.
* `ChecksFindTheSame`: `Spec => []SameResource`. The invariant is `Faithful`: the
  target of a reference holds what the reference saw, or nothing, or a write of
  it was logged since the reference was made or used; and the cell a transfer is
  about to fill is logged (`LoggedTask`). A reference that passes `#writeCK` rules
  out the write.

The last three are of programs without `*x` (`ByName`), and `ChecksFindTheSame`
of programs without transfers through references either, as in `own_blocks`.
These premises are needed, TLC finds counterexamples without them. For cells:
with `*x` a transfer can name the location of a dangling reference, and
`#uninitialize`, the last step of moving a mutable reference, does
`Rho[L <- ..]` whether or not the location is in the store (`osl.k:166`). After

    decl a; { decl b; transfer newResource(mut) b; a borrow b; };
    decl c; transfer newResource(mut) c; decl e; e mborrow c; transfer e *a;

the location of `b` has a cell again, which no declaration will take back. For
what references lead to: `*x` and a transfer through a reference change a cell
whose write is not logged (see *Runs*).

`Calls_proofs` lifts the results to programs with functions: `CallsTypeCorrect`,
`CallsKeepScopes`, `CallsDataRaceFreedom` (`NoDataRace` and `WritesExclusive`),
`CallsLeaveNoCell` (`NoStrayCells`, of programs without `*x`).
The invariant of the first three is `Ownership`'s and `Blocks`' with the types of
`calls` and `ret` and the well-formedness of what waits; the steps of binding are
steps of `Ownership` and cite its lemmas, the new ones are `Enter` (a block),
`Unwind` and the deliveries, of which `DeliverRef` makes a reference by the same
lemma as a borrow. `CallsFit` adds that whoever waits for a value, and the value,
were given out.

* `ArgumentsKeepTheirMeaning`: `CallSpec => []ArgumentsMeant`, for calls among
  arguments to any depth. Two things have to be remembered. `EnvInv`: a name
  means in the environment of now what it meant in each environment on the stack,
  unless it was declared since, and the same between any two on the stack; this
  is what a block that ends relies on. `NestInv`: the pending calls lie in ever
  deeper blocks, an argument right inside the call it is an argument of, and
  whatever is declared in the block of a call that is still binding is one of its
  parameters (`Framed`). So a name that is hidden from the caller is a parameter.
* `CallsKeepOneOwner`: `CallSpec => []OneOwner`, for programs of every form whose
  functions return only what they declared (`"outer" \notin CallForms`;
  `calls_two_owners` is the program that needs it). `val(x)` leaves the
  resource in `x` while it is on its way (`ret`), so for a while there are two of
  it. `RetInv`: every cell that holds the returned resource is `Doomed`, that is,
  a declaration in the blocks of the innermost call gave it, and the name of that
  declaration will still lead to the cell when it is unwound, which follows from
  `EnvInv`. When the call has ended no such declaration is left. Otherwise a
  resource is in one place (`Unique`), because the steps are `Resources`'.

`Exploration_proofs` proves `NStateIsTheCount`: `Spec => []NStateCounts`, for
every set of programs and either order, from an invariant that also keeps the
set of states finite and the counter natural. `~crashed` is a premise: after a
collision there is nothing to count.

`Pool_proofs` proves `BlocksAreTaken` (`TmpMatches`) and `PoolTypeCorrect`
(`TypeOK`) in either order. They assume `Language(Statements, Blocks)`: the
programs are blocks, blocks are sequences of statements, and the blocks of a
`branch` or `loop` are blocks again; every program over finitely many variables
has such sets. That as many blocks wait as branches are pending is inductive
only if a pending branch is always the next thing its state does, since
`Pending` looks at heads: `PoolInv` keeps `#secondBranch` out of the rest of a
`<k>` cell. It also says that a cell which is not empty ends with a marker a
return stops at, so that no return empties a cell it should not and the choice
in `Returned` is of something that exists.

With `Compiled`, the order of the committed build, `OwnBlockIsTaken` proves
`Spec => TakesOwnBlock`, and `RunsTakeOwnBlocks` (`Pipeline_proofs`) the same of a
run of the command. The invariant is `Alone`: at most one branch is pending, and
`tmp` is its first block. Only a push could add a second, and by the order of
the rules a push has its turn only if no state can fork or pop, while a pending
branch with a block waiting can.

`Pipeline_proofs` proves `RunsAreTidy` (`Tidy`) and `JudgesItsOwnProgram`, for
every set of programs and command lines. The invariant `PipelineInv` follows the
file: whole from the save on (`Saved`), the other file untouched
(`OthersKept`), and what `krun` rewrites the program translated (`OwnProgram`).

`Transpiler_proofs` is about the transpiler's scopes and errors, for every unit:
any names, expressions, declarations, forms and any number of constructs. The
assumptions are those of the modules: `TranspilerAssumption` (the types a variable
or parameter may have, at most one tag and one name in an enumeration, library
functions from `Library`) and `NestingAssumption`. How expressions translate is
not looked into: a statement may have any effects, notes and errors. What all
three theorems need is `Shape` (types of the stack and of the context) and
`Steps`: every step of `Next` is one of the thirteen changes listed in `Step`, in
terms of the frames, the scopes of both sides and the notes. Each of these is
then shown to keep each invariant.

* `EveryNameIsFound`: `Spec => []NamesFound`. That the variables of C's scopes are
  somewhere among the transpiler's is not inductive, since scopes are popped at
  different times on the two sides: what has to be known is that each variable
  is in a scope that lasts as long as C's does. `Scoped` keeps, along the stack
  of open constructs, how many of C's scopes there were when construct `i` was
  open (`Levels`; a `for` has two) and how many of the transpiler's will stay
  until what is inside `i` is left (`Heights`; only some constructs have one, and
  an error leaves one behind). `Held` says that each variable in the first `c[i]`
  scopes of C is in the first `h[i]` of the transpiler. `Unshadowed` is what the
  end of a function needs: its name is entered in the scope that is last, and
  replaces no variable C sees.
* `EveryErrorIsReported`: `Spec => []ErrorsReported`. `Errors` says that an error
  is noted exactly when some open construct is marked as untranslated: so an
  error is neither lost when a construct closes around it, nor made up. Without
  a switch no construct filters errors out.
* `NamesMeanWhatTheyMeanInC`: `Spec => []ResolvesAsC`. `Matched` says that, as
  long as none of the constructs in the premise was met, each open construct has
  one scope of the transpiler and the scopes declare the same in the same way
  (`Twins`); the one of a `for` stands for the two of C, the inner before the
  outer. A name that is looked up from the innermost scope outwards then meets
  the same declaration on both sides.

Model-checked only:

* `ReadEnds` and `Terminates`: liveness and `ENABLED` are out of the prover's
  reach.
* `ReportSound`, `PathsReal`, `PathsKept`, `ReadsKept`, `NamesDeclared` and
  `CallsBound` refer to recursive definitions (`Paths`, `Units`).
* `JoinsOwnLoop`: which loop's end meets which is a question of the order of
  whole iterations.
* `NoPanic` is about what the translation of an expression, a function by
  recursion on its operands, can return.

`NoCapture`, `NoRevival`, `NoMoveInUse`, `Accepted`, `RunsThrough` are the
claims the failing runs refute.

## Not modelled

* The table of functions (`fn`, one cell) and its clearing; calls with another
  number of arguments than parameters, which have no rule.
* `**x`, `rd(x)` as an operand, tuples, typed declarations.
* Of the transpiler: typedefs and prototypes (no translation depends on them),
  nested structures, several declarators in one declaration, types of returned
  values, the bodies of the library's functions, calls through expressions.
* `osl-kompiled`, but for its rule order; K itself.
* Rendering of diagnostics and of syntax trees: no state.

## Plan

1. Writes: the variables a statement of C writes against the transfers of its
   translation (`x += e`, `*p = e` lose some).
2. End to end: a C program's paths against the verdict, through the transpiler,
   `Pipeline` and `Ownership`'s rules instead of `Exploration`'s `own`.
3. Proofs: `JoinsOwnLoop` with the scheduler's order.
