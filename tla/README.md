# AmiFL: a verification development

AmiFL is a small statically typed language. Its compiler, in Go, turns a
directory of `.aml` files into AMIVM-IR text; the external tool `amivm` turns
that into Go, and `go build` into a program, linked with the run-time library
`amiflrt/`. This directory models the parts whose correctness is about states
and steps: the parser, the walk of the loader, the bookkeeping of the checker, how
packages are put together, what the checker and the generator expect of each
other, what the generated code does when it runs, and the command that drives it
all. Paths below are relative to the root of the repository.

1. [Inventory](#1-inventory)
2. [Modules and the code they model](#2-modules-and-the-code-they-model)
3. [What is checked](#3-what-is-checked)
4. [What is proved](#4-what-is-proved)
5. [Where the code and what is said of it disagree](#5-where-the-code-and-what-is-said-of-it-disagree)
6. [What is not modelled](#6-what-is-not-modelled)
7. [Plan](#7-plan)

## 1. Inventory

    source ── lexer ── parser ── modloader ── sema ── codegen ──▶ AMIVM-IR
                                    │           (one package at a time)  │
                               cmd/amifl ◀── go build ◀── amivm ◀────────┘
                                    │                        amiflrt linked in
                                    ▼
                               the program: goroutines, channels, containers

| Component | State | Operations | Interacts with |
|---|---|---|---|
| Package loader `internal/modloader` | caches by key, the packages being loaded, owners of aliases, prefixes, the order | `Load`, recursive `load`: cache hit, cycle, read and parse, resolve and bind each import, finish | calls the parser; its order drives sema and codegen; `cmd/amifl` passes the root |
| Checker `internal/sema`: expressions | types written into the tree (`ResolvedType`) | `checkExpr`, `resolve*Expr`, `resolveBranches`, `checkBlock` | reads scopes, signatures; codegen trusts what it writes |
| Checker: scopes | chain of scopes, `loopDepth`, `closureDepth`, `retType`, `declSeq` | `pushScope`, `popScope`, `declare`, `lookup`, `resolveClosureLit` ... | gives out the tokens the generator emits |
| Checker: packages, exports, externs, built-ins | tables of functions, structs, enums, opaque types, signatures | `CheckPackage`, `CollectFunctions`, `builtin` tables | needs the exports of each import, so the loader's order |
| Generator `internal/codegen` | the text, temporaries, labels, tables of Go type names | `GenerateProgram`, `genValue`, `genFor*`, `genIndexAssignStmt`, `gen{Take,Skip,Parallel,Lines}` ... | reads the annotated tree |
| Run time: streams | channels, relay goroutines, their counters | relays of `lines`, `take`, `skip`; `ParallelStream`; `collect`, `for` | the goroutines share variables by closure capture |
| Run time: loops and containers | index, length, key list, heap of Lists, Sets and Maps | the code emitted for the four forms of `for`, for nested assignment, for ranges | the body changes what is iterated over |
| Run time: files `amiflrt/file.go` | handle, buffer made on the first read | open, read, readLine, readAll, write, close, lines | a relay goroutine reads what the program may close |
| Command line `cmd/amifl` | scratch directories, output files | `build`, `run`, `emit-ir`, `emit-go`, `archive` | starts amivm and go |
| Lexer, parser, tree | current token, tokens looked at in advance, `noCompositeLit` | `Parse` | everything after it |

Which behaviours are hard, and the properties that say they are right:

- **Loader.** Recursion over a graph that may have cycles and diamonds, with
  tables that are filled while the walk is under way. Right: each package once, after
  everything it imports; cycles refused and never followed; an alias means one
  package in the whole program; a prefix never changes once somebody may have
  read it; the walk ends.
- **Checker.** Literals take their type from an operand or branch that may come
  later, and a diverging expression passes every expected type. Right: what is
  accepted has the types the language says; the generator never meets a tree it
  has no case for; the order of operands does not matter. Scopes: five pieces of
  state are saved and restored around closures, loops and branches.
- **Streams.** Goroutines connected by unbuffered channels. Right: list
  semantics when one relay feeds another, nothing lost or repeated with parallel
  workers, no send on a closed channel, the consumer ends, and exactly those
  goroutines are left behind that the language cannot help leaving behind.
- **Loops.** The length is fixed on entry, the elements are read late, the body
  may change the container. Right: each place once and in order, complete unless
  broken off, no panic without a reassignment; for ranges, arithmetic at the
  limits of Int64.
- **Parser.** Line breaks end statements in some places and are skipped in
  others, braces are blocks or literals by a flag, pipes are rewritten while they
  are read. Right: the tree is the one that was meant, no token is lost or read twice,
  no statement runs into the next.
- **Packages.** Types, functions and extern aliases of several packages end in one
  namespace, by prefixes and rewritten names. Right: one declaration is one type,
  whatever way it came; a call reaches its function.
- **Files.** A buffer between the program and the file, made at the first read, and a
  goroutine behind `lines`. Right: nothing a handle got is skipped or repeated, and
  the consumer of the stream ends, also when the file is closed or fails.
- **Commands.** Scratch directories and output files, failures and kills. Right:
  what is reported is complete, and nothing is left behind.
- **Nested assignment.** Read, change and write back through layers that may be
  references or values, while other code runs. Right: the assignment reaches the
  storage, nothing else moves, nothing is undone.

`PROJECT.json` lists the hazards with the lines they bite at, and the components
with the files they are made of.

## 2. Modules and the code they model

Definitions keep the names of the source where they can; `PROJECT.json` ("map")
gives the lines of each. A definition under a comment that begins with
`Mutation:` is not part of a model: it is a plausible mistake in the definition
after it, kept to show that a property would notice.

**`ModLoader`** (`internal/modloader/modloader.go`). One behaviour is one call of
`Load`. The Go call stack is `stack`; a call, a return and every early return of
`load` are actions (`IOError`, `NotFound`, `NotAPackage`, `Cycle`, `CacheHit`,
`NoSources`, `ParseError`, `Begin`, `CallImport`, `AliasClash`, `BindImport`,
`Finish`). A path is an element of `Path`, so the path arithmetic is done before;
what `os.Stat` says of it is `Kind`. A failing file-system call is `IOError`,
possible at any time. `program`, chosen at the start, says what each file
imports. **`PackageDag`** is what `Load` promises: a topological order of a legal
program, or a refusal that has a reason. `ModLoader` implements it (property
`ImplementsDag`).

**`Scopes`** (`internal/sema/scope.go`, the scope-opening parts of `expr.go`,
`internal/codegen` for what a `BREAK` leaves). A behaviour is a walk over some
function body; each action opens or closes a block, declares names, or meets a
`break`. `scope`, `loopDepth`, `closureDepth`, `declSeq` and `retType` are the
checker's fields; `open` is what the text and the emitted Go really are, with
the values each block saved when it was entered; `log` remembers every declaration. The
properties compare the first with the second.

**`Typing`** (`internal/sema/expr.go`; `internal/codegen/codegen.go`, `structs.go`,
`enum.go`, `errors.go`). Two steps:
`CheckFunc` annotates a function body or rejects it, `Generate` emits it or is
refused. A body is a tree of `Node`s; `Shaped` says what parts a node of each
kind has, and `TreesAt[n]` are the trees of at most `n` levels. `Resolve` is one
call of the checker, `GenValue` and `GenStmt` one of the generator (they also say
what the Go compiler accepts); each takes as an argument what it calls for the parts,
and the recursive functions `Checker` and `Generator` tie the knot, level by level. An
independent definition, `HasType`, says what type an expression has, without any
order of evaluation. Integer types have their width, scaled down in the run. A type is a
constructor with its components; which types there are, and which of them have
values, is given (`Types`, `ValueTypes`), and so is what `Struct`, `Enum` and
`Signature` declare. A case of a `switch` binds the fields of its variant for its body:
`bound` in the context says what they are, on both sides.

**`Streams`** (`internal/codegen/chan.go`, `files.go`, `amiflrt/streams.go`). The
main goroutine builds a pipeline over `lines` and consumes it; every relay and
every worker of `parallel` is a thread with its own `pc`. A send and its receive
on an unbuffered channel are one step. `Source` is the point where a relay
closure reads its source through the variable it captured. `Meaning` is the same
pipeline on lists.

**`ForLoops`** (`genForStmt`, `genForYieldValue`, `genForMapStmt` and what they
share in `internal/codegen/collections.go`) over Lists, Arrays, Sets and Maps: `EvalItems`, the head of the loop
(`Exhausted`, `NextElement`, `NextMember`, `NextEntry`, `IndexPanic`), the end of
the body (`Continue`, `EndBody`, `Break`, `Yield`), and between them whatever the
body does to the containers (`SetAt`, `Put`, `Delete`, `Reassign`). **`ForEach`** is
the promise: the places of the container are put in an order at the start and each is
visited once, in that order. The loop is over only when no place is left, unless its body
breaks off or the next place is gone (`Panic`); a yield collects the value of each visit.
`ForLoops` implements it, fairness included (`VisitsLikeForEach`): `Phase` tells the end
of a loop that was `broken` from one that ran out of places, and `Out` is the slots a
yield has filled, or all of them once the loop is done.

**`RangeLoops`** (`genRangeValue`, `genForRangeStmt`, `genForRangeYieldValue`):
the same for `a..b` and `a..=b`, with two's-complement arithmetic of any width.
Its names differ from those of `ForLoops` (`RangeNext`, `NumbersDone`, `YieldNumber`),
because the proofs about both are in one module.

**`Assign`** (`genIndexAssignStmt`, `genFieldAssignStmt`,
`readAssignableContainer`): `x[a].f[b] = v` as the emitted sequence of reads into
temporaries (`Read`), one store (`Set`) and the write-backs (`WriteBack`). A List
is a reference into `heap`, an Array or a struct a value. Each process is one
such assignment; `AssignIndex` is other code that assigns to a variable used as
an index. A field is an index that is a literal.

**`Parser`** (`internal/parser/parser.go`) over **`Syntax`** (`internal/ast/ast.go`).
Each parse function of the source is an operator from a parser state to a parser
state and a tree; `Advance`, `PeekPastNewlines` and `SkipNewlines` are the token
machinery. The functions call each other through one operator, `Rule`. **`Notation`** is its reference: how a tree is written down, from the
grammar and the table of precedences alone, with no look at the parser. A
behaviour is a file being written in some layout and then spoiled by slips of the
pen (`Slip`); `Reading` is what the parser makes of it.

**`Packages`** (`CheckPackage` and the files it calls, `compileToIR`,
`GenerateProgram`). The packages come in the order and with the prefixes that
`PackageDag` promises. Two loops (`CompileNext`): the first checks each package, builds its
exports and binds its extern aliases, the second generates each. The generator goes through
structs, enums and extern blocks as they stand in the source, so the fields of a struct are
generated with the extern types met by then (`EnteredAt`), and bodies with all of them. What a name
denotes is kept beside what the code writes for it, so a property can ask whether the two agree:
an extern type denotes the type of the Go package its block names, whichever block that is.
Bodies are left out: the properties range over every type a body could meet.

**`Files`** (`amiflrt/file.go`, `internal/codegen/files.go`). Handles on one open
file, each with the buffer `reader()` makes; a built-in is entered, asks the
system for bytes as often as it needs to (`Fill`, which may bring few bytes, none, or
an error), and returns. The relay of `lines` is a second actor. A byte is its
position, so a value shows where it comes from.

**`Commands`** (`cmd/amifl/*.go`). Processes that each run one command, a step at
a time, over a directory its author edits (`Edit`). Each step may fail (`Fail`,
`MemberFails`, the second disjuncts of `Write` and `CloseArchive`), and a
process may be killed anywhere (`Kill`). A file is its version; a scratch
directory holds what later steps read back from it.

The `MC*` modules hold the values of the constants for model checking, the
`*Proofs` modules the proofs.

## 3. What is checked

`PROJECT.json` ("runs") names the configuration of each run. "Stops" says why
deadlock checking is off in a run, if it is: a behaviour of that module is one
run of a program or of the compiler, and ends.

| Run | Instance | Shows |
|---|---|---|
| `loader` (`MCModLoader`) | a root given as a file, its directory, two packages (one of two files), an archive, and paths that are missing, empty or do not parse; up to two imports in the root, one in other files; two aliases; every way to fill them in. Stops. | `TopologicalOrder`, `FilesOnce`; `BindingsAreStable`; `Terminates`; `ImplementsDag`, which includes that no package comes twice and that no alias has two meanings |
| `scopes` (`MCScopes`) | bodies of at most 4 blocks nested at most 5 deep, 2 declarations, 2 names | `LexicalLookup`, `TokensUnique`, `ParamsDenoteTheirClosure`, `JumpsStayInLoop` |
| `typing` (`MCTyping`) | every body of the grammar in `MCTyping`: one operation or `if` over literals and variables of three integer types and Bool, and one level more for a smaller choice; tuples, struct literals, variants, field access, `switch` over two enums that share the names of their variants; each in nine contexts; and `?` in functions that return an error, a value and an error, or neither; integers of 3 and 4 bits, trees of at most 11 levels, Lists in Lists and pairs of plain types. Stops. | `Sound`, `GeneratorTrustsChecker`, `SimpleLiteralsFit`, `OrderIrrelevant` |
| `streams` (`MCStreams`) | pipelines of up to two stages, arguments -1 to 2, up to two workers, 0, 1 or 3 lines, a consumer that breaks after one element or never. Stops. | `NoSendOnClosed`, `ListSemantics`, `EachLineOnce`, `CompleteWhenClosed`; `ConsumerEnds`, `NoLeak` |
| `for_loops` (`MCForLoops`) | two containers, two keys, two values, Lists up to two elements, two statements in the bodies | `PanicNeedsReassignment`; `VisitsLikeForEach`, which includes that each place comes once and in order, that none is left out but by a break or a panic (`CompleteUnlessBroken`), and that a yield has one element for each visit (`YieldInOrder`) |
| `range_loops` (`MCRangeLoops`) | 4-bit integers, every pair of bounds, both forms | `CountsUp`, `ReachesTo`, `YieldCollects` |
| `assign` (`MCAssign`) | two assignments through three layers of two elements, every mixture of Lists and values, two halves shared or not, every choice of indices | `AssignmentsLand`, `ElsewhereUntouched` |
| `parser` (`MCParser`) | every construct of the language inside every other, in three layouts; declarations of every kind; in a smaller set one slip of the pen: a word dropped, or another written in its place | `ReadsWhatWasMeant`, `EveryWordOnce`, `StatementsStandAlone` |
| `packages` (`MCPackages`) | a root and two packages in a diamond, imported under different aliases, up to two declarations each, all using the same few names. Stops. | `TypesMeanOneDeclaration`, `CallsReachTheirFunction`, `ListsShareOneGoType`, `ExternAliasesMeanOnePackage` |
| `files` (`MCFiles`) | two handles, files of up to four bytes with all kinds of line ends, a buffer of two bytes, three calls, one read that fails. Stops. | `NothingLost`, `CallsReturnWhatIsNext`, `StreamIsTheLines`; `DrainEnds` |
| `commands` (`MCCommands`) | two processes, any two commands one after the other or at once, two files, one edit, three extern aliases of one or two directories; any step may fail, any process may be killed. Stops. | `ReportedIsComplete`, `ArchiveStandsForDirectory`, `ScratchGoesAway` |

Where `TypeOK` is proved (section 4) the runs do not repeat it (that of `Assign` is not
proved; it holds when named as an INVARIANT of `MCAssign.cfg`), and the same goes for
the invariants that follow from a refinement a run checks. One more run,
`packages_bare`, refutes a statement made about the code: section 5.

**Why the bounds are enough.** In the loader a diamond needs a root that imports
two packages of which one imports the other, a cycle two packages, an alias
clash two importers: all there, with the one package that is two keys. In
`Scopes` a closure inside a loop inside a closure, shadowing, a `yield` inside a
loop and a loop in the condition of a loop all fit in four blocks. In `Streams` a stage has
fewer, as many and more elements than its argument, and two stages show that a
stop travels upstream; with two workers they overtake each other. In `ForLoops`
a loop can lose a key it has not reached, gain one, and have its List replaced
by a shorter or a longer one. Four bits leave the same corners as 64: the
greatest and the least integer, and a length that overflows. In `Assign` three
layers are the least with a write-back into a temporary. In `Typing` `Depth` is the
depth of the deepest body of the grammar, and every type that such a body makes is in
`Types`: with more of them, TLC finds the same states. In `Parser` an
expression of three levels is the least in which an operator stands between two others
whose precedence it must respect, and where a flag that a header sets is still set
two brackets further in. One slip makes a file that is almost right, and every word
of it may be the one; what holds of accepted files must hold of these too. In
`Packages` a type that reaches the root both directly and through another
package needs three packages. In `Files` lines are shorter than the buffer, as long and
longer. In `Commands` a build beside an archive, a build of what an
archive left, and two builds beside each other each take two commands.

**Fairness.** `WF_vars(Next)` in the three modules with liveness properties
(`ModLoader`, `Streams`, `ForLoops`), and in `Files` one condition for each
step of the relay and of the loop that drains it; none in the others. `WF_vars(Next)`
says that some step that is possible is taken. For the
loader and the loops it says that a deterministic program goes on running. For
`Streams` it says no more than that the Go scheduler runs some goroutine that can run;
every channel operation is part of a finite pipeline, so that is
enough, and no thread is assumed to be treated fairly against another.
A body that runs for ever is not assumed to end: the statements of a
body are bounded by `MaxOps`. In `Files` goroutines are scheduled, and a read of the
system returns: a file is not a terminal nobody types at. That the program calls
anything again, or drains the stream, is not assumed.

## 4. What is proved

All by `tlapm`, for every value of the constants that satisfies the named
assumption of the module, so for source trees, pipelines, containers, nestings,
files and integer widths of any size.

- **`ModLoaderProofs`** (from `LoaderAssumption`). `IInv` is the inductive
  invariant. `TopologicalOrder` is not inductive: a package is put in the order
  when its activation returns, so one must know that it has by then resolved
  every one of its imports. `StackOK` says that of each activation on the stack
  (`Resolved`), that `visiting` is the set of packages on the stack and `byKey`
  adds those in the order; `PathOK` that the stack is a path of the graph;
  `PrefixOK` that a prefix is an alias that is owned. From it: `TypeOK`, `TopologicalOrder`, `LoadedOnce`,
  `AliasesAgree`, `PrefixesDistinct`, and the action property
  `BindingsAreStable`.

  The second part proves that `ModLoader` implements `PackageDag`
  (`LoadImplementsDag`). To `IInv` it adds `RInv`: every package the loader looked at is
  needed, every alias has an owner because of a declaration, and each package on the stack
  reaches those above it. An error is then a rejection: a package that cannot be used
  is needed all the same, one that is met again on the stack reaches itself, and an alias that
  is taken has two declarations. At the end, the packages in the order contain the root and
  what they import, hence all that is needed (a closure is the least such set),
  and the packages before one of them have its imports but not itself, so that no cycle
  is left.

  The third part proves `FilesOnce`, from `FilesAssumption` as well: two paths with
  a source file in common are a single file and its directory (so no links between
  directories, which `load` could not tell apart). Only the root is loaded from a single
  file. Its directory has its imports among its own, so if the root reaches the
  directory, the directory reaches itself, and the program is not legal.

  The fourth part is about `Packages` (from `PackagesAssumption`, which includes what
  the order of the loader promises). `CompileInv` says of each package that was checked
  what its export table holds, with no mention of the tables it was built from: every
  type in it has the name its own package gives it (`Sound`, `ExportsAre`). That is what makes an
  import of an import keep its meaning, because `ExportTypeString` passes on what is
  already enveloped. `AliasesBound` says that an alias is bound to what every block so far says.
  `UnitInv` adds the second loop: which extern types are entered
  (`ExternsEntered`), that every package passed the checker before anything is generated
  (`AllSound`), that Go types of Lists have different numbers (`Numbered`), and that each
  List that was generated has the number of its element's Go type (`ListsMinted`). From it: `TypesMeanOneDeclaration`, `CallsReachTheirFunction`,
  `ListsShareOneGoType` and `ExternAliasesMeanOnePackage`.

  The first three have a hypothesis each, that names which are put together from different
  parts are different: `TypeNamesApart`, `FunctionNamesApart`, `GoTypesApart`. The
  code does not see to that. Alias `a` and struct `B_C` give the same name as alias `a_B` and
  struct `C`; function `main` of a package imported as `amifl` gets the name of the
  entry; a struct may be called `String`. The theorems say that there is nothing else
  that could go wrong; `MCPackages` states with an ASSUME that the hypotheses hold of
  all the declarations the run tries.
- **`StreamsProofs`** (from `StreamsAssumption`). `CInv`: only relays of stages
  that were spawned run, and all relays of a closed stage have left. From it:
  `NoSendOnClosed`. What the elements are is `FlowOK`, which relates each stage to the one
  before it: a `take`, a `skip` or a single worker has sent what it received from an
  offset on, in order, but for the element it holds (`SingleOK`); the workers of
  `parallel` hold between them, each once, what was received and not sent
  (`ParallelOK`); and no stage has sent more than the pipeline means (`MeantOK`). From it:
  `EachLineOnce`, `ListSemantics` and `CompleteWhenClosed`. The hypothesis of all
  three is `OwnSources`: no `take` or `skip` reads a variable that is
  assigned again, since of such a pipeline they are false (section 5, `ConsumerEnds`).
- **`LoopsProofs`**, first part (`ForLoops`, from `ForLoopsAssumption`). `FInv`: the container of the
  entry keeps its length, the index counts the visits, a Yield loop is one
  element ahead of its result. From it: `TypeOK`, `EachOnceInOrder`,
  `CompleteUnlessBroken`, `PanicNeedsReassignment` and `YieldInOrder`; and that `ForLoops`
  implements `ForEach` but for its fairness (`ImplementsForEach`): the index and
  the keys stand for the list of the places that are left, the filled slots for what
  was yielded. That the end of the loop is `Finish` and never a step of its own is
  `VisitOK`; that no slot is left over at that point is `YieldOK`.

  Second part (`RangeLoops`, from `RangeLoopsAssumption`). `LInv`: modulo the width,
  the counter plus one is `from` plus the number of elements seen, also where
  the counter stands one below the least integer. From it: `RangeTypeOK` and the three
  invariants of the run.
- **`TypingProofs`** (from `TypingAssumption`: widths that leave room for 0, bodies that
  are trees; `TypesAssumption`: a type is made of types, and it has values all through
  just when its components do; `DeclaredAssumption`: fields and variants have names of
  their own and types that have values). Nothing is said of how deep or how large a
  body is, how many types there are, or what is declared.

  The state says little here (`Annotating`: the tree is the body, and later what
  the checker made of it); the work is in what the recursive functions compute. Each claim is a
  statement about one level, proved of level 0 and carried from the level of the parts
  to that of the node with one lemma for each kind of node, and by `LevelInduct` it holds of
  all. There are five of them, and the later ones use the earlier:
  `CheckerRegular`, the annotated node has the shape of the node, its type is the one
  annotated, and that of a block is what was expected, or `Never` (other nodes are compared
  with it by `Check`);
  `CheckerGood`, its type has values all through, or is `Unit` or `Never`, where values are used
  where there are some; `CheckerSound`, it has the type the checker gave
  it by the rules of `HasType`, a node of type `Never` that of a statement, one that leaves
  every type; `CheckerTrusted`, the generator finds an operand of
  that type; and `CheckerKept`, the operand is the same when the literals are checked against
  their ranges. For `if` and `switch` the claim is made of the anchor first, then of the
  others against its type: that the anchor's type is the type of all of them holds
  whichever branch it is, and a branch that leaves has any type. From
  them: `AcceptedIsTyped` (`Sound`), `AnnotatedIsEmitted` (`GeneratorTrustsChecker`) and
  `SimpleLiteralsAreKept` (`SimpleLiteralsFit`).

  The hypotheses are those of the invariants: `UsesValues`, `SimpleLiterals`,
  `ComparesComparable`, without which the statements are false (section 5). The first
  used to say nothing of the branches of an `if` or `switch` whose own value is
  discarded, and the proof failed there: `_ = if c { x } else { if d { return 1 } }` is accepted,
  because the inner `if` has type `Never`, and has no type by the rules of the language. `Valued`
  is now asked of every node of the tree, and goes by the type it is annotated with.
- **`ScopesProofs`** (from `ScopesAssumption`). `Inv`: for each block on the
  stack, what the counters were with that block innermost (read off the
  saved values of the block inside it) agrees with the blocks around it. It must hold
  for all of them and not just for the innermost, because leaving a block
  uncovers the one around it. From it: `BreakNeedsLoop`, `ReturnsToOwner`,
  `JumpsStayInLoop`; and, with an invariant of its own, `TokensUnique`.

  The second part (from `NoneAssumption` too) is about names. The blocks that are
  open and the scopes are two stacks of different heights, since the condition of
  a `while` is checked in the scope around it. `LinkInv` adds to `Inv` that there is
  an increasing map from the scopes to the blocks that leaves out the conditions
  only (`Chain`), that no two blocks have one number (`Numbers`), and that each scope says of
  each name what `log` says of its block (`Says`): so nothing that was declared in an earlier
  block in the same place is left. The counters are bounded because they count
  open blocks (`Framed`). From it: `TypeOK`, `LexicalLookup` and, with `Nested` (a
  parameter of a closure that is open has the depth of it), `ParamsDenoteTheirClosure`.
- **`AssignProofs`** (from `AssignAssumption`). While the index variable keeps its value,
  each assignment works on one place. `IsContents(V)` fixes what may be stored after
  each prefix of indices: in an innermost element None or an assignment to it, in a List
  the List of that place, in a value any that has allowed elements. That `x`, every List and
  every temporary hold only what is allowed where they are (`Stored`) is
  kept by each instruction, and gives `ElsewhereUntouched`: following a place inwards one
  meets only what is allowed on the way. `AssignmentsLand` is stronger than that, because
  a stale copy is allowed too. It takes the row, the slot of the innermost List
  (`Innermost`): a row is never copied as a part of another, so an assignment that
  has its row to itself finds it as it left it, and `RowsOK` says that what it wrote back, up
  to the layer where it is, agrees with its temporaries (`Copied`, `Home`).
- **`FilesProofs`** (from `FilesAssumption`). The bytes the system gave out through a
  handle are, in order, those its calls used, those a call has collected
  so far, and its buffer (`NothingLost`). For the step that ends a call one must know that
  a call has collected no line yet (`CallOK`), that a buffer without a reader is
  empty and an end of file was seen at the end (`BufferOK`), and that at most one call is
  under way for each of the program and the relay (`ActorsOK`). From it: `NothingLost`,
  `CallsReturnWhatIsNext` and, with `RelayOK` (what the relay read is what it sent, and the line
  it holds), `StreamIsTheLines`.
- **`CommandsProofs`** (from `CommandsAssumption`). `CInv`: which commands come to
  each stage and which scratch directories they have there (`Flow`), what those
  hold (`Holds`), that a file read is one that the directory had meanwhile
  (`Reads`), and that no two processes share a scratch directory (`Private`),
  without which the step of another process could spoil a build. The loop that copies
  extern packages is a recursive function: after each turn, every alias so far is bound to the
  directory it names, or to a copy of it that was recorded (`Served`, by the least turn
  of which that is not so). It needs that the names made up for the copies are different,
  and are no import paths of the program. From it: `ScratchGoesAway`,
  `ArchiveStandsForDirectory`, `ReportedIsComplete`.

Where a definition is a recursive function over numbers or sequences (`Meaning`, `Built`, `Leaf`,
`FlattenSeq`, `CopyExterns`, `Checker`, `Generator`, `HasType`, `Nodes`), the proofs first show that it exists and then reason about the
least number for which a statement fails, since the induction theorems of the library take an
operator that the provers cannot instantiate.

**Only model-checked.** Liveness (`Terminates`, `ConsumerEnds`, `NoLeak`, `DrainEnds`, the
fairness part of `VisitsLikeForEach`): beyond the prover. Of
`Typing`, `OrderIrrelevant`: it compares two runs of the checker, on a tree and on its mirror
image, and would need an induction over pairs of contexts that differ in what a
literal adapts to. The three invariants of `Parser`, whose operators are RECURSIVE, over
tokens and trees at once.

## 5. Where the code and what is said of it disagree

The run `packages_bare` finds this one. The comment on `pkgPrefix`
(`closure.go:104`) says that a bare struct or enum name can only refer to a
declaration of the package being generated. A constant of a struct type that another package
refers to is inlined there (`structs.go:323`), with the bare name its own package gave
it: with `const C: P = ...` in package `b`, `b.C` in the root becomes a literal of the root's
`P`, or of no type at all. An extern type breaks the same statement: it keeps its
bare name everywhere, so a private `extern type P` of an imported package takes the
place of the importer's own `struct P` (`ListsShareOneGoType` leaves such
programs out, by `ExternTypesApart`; and those of `ExternTypesAreKnown` below, by
`ExternTypesFirst`).

TLC also refutes the following, each defined in its module. To see it, name the
definition as an INVARIANT (`ConsumerEnds` as a PROPERTY) in a configuration of the module, with the constants
given here if they differ from those of the run.

- `ConsumerEnds` (`Streams`; `amifl-spec.md:446`; `Pipelines` and `OneVariable`
  both `RebindPrograms`): in `let s = lines(f); s = skip(s, 1); collect(s)` the relay reads
  the variable `s`, which is by then its own output, and blocks for ever. `parallel` has no such
  problem: its source is a Go argument. The relays read two more variables in the same way, which the
  models fix when the stage is made (`Arg` in `Streams`, `relay.handle` in `Files`): the `n` of `take`
  and `skip` (`chan.go:245`, `304`) and the `f` of `lines` (`files.go:198`). Section 6, data races.
- `NeverRefused` (`Typing`; `README.md:116`; `Programs <- ElseIfs`): an `if` of which every
  branch returns has type `Never`; the generator declares a variable of that type and Go
  refuses the program.
- `LiteralsFit` (`Typing`; `amifl-spec.md:57`; `Programs <- MinusFive`): `let x: UInt8 = -5` is accepted: the
  limit of a negated literal is only adjusted for signed types.
- `ClosedRangeReachesB` (`RangeLoops`; `amifl-spec.md:152`): `0..=9223372036854775807`
  is empty: `b + 1` wraps.
- `CopiesGoHome` (`Assign`; `collections.go:217`; `Proc <- MCAlone`): in `x[i][f()][1] = v` where `f` assigns `i`,
  the row is read at the old `i` and written back at the new one.
- `KeyFromMapIsPresent` (`ForLoops`; comment at `collections.go:470`): a body that
  deletes a later key is given that key with a zero value.
- `ItemsEvaluatedOnce` (`ForLoops`; `collections.go:367`): when `items` is a variable
  that the body assigns, later elements come from the new List.
- `ExternTypesAreKnown` (`Packages`; comment at `closure.go:95`): extern types are said to be
  entered "once, up front", but they are entered block by block, between the structs. A
  `struct S { t: T }` in front of the block that declares `T` gets a field of a Go type `T` that
  does not exist, or one that another package has.
- `EqualityCompiles` (`Typing`; `expr.go:679`; `Programs <- Boxes`): the comment says `==` on a
  List "used to silently reach amivm" and is now refused here. On a struct or a tuple
  with a List in it, it still does reach it, and Go refuses the program.
- `IfWithoutElseIsUnit` (`Programs <- WholeIfs`) and `BranchesSymmetric` (`Typing`; `expr.go:958`, `expr.go:873`):
  an `if` without `else` that returns has type `Never`; with literals on
  one side the order of branches can matter.
- `EmptyRangeYieldsNothing` (`RangeLoops`; `amifl-spec.md:276`): for bounds further
  apart than Int64 can say, `To - From` wraps to a positive number and the Yield form tries to
  allocate that many elements.
- `BreakLandsInCheckedLoop` (`Scopes`; `amifl-spec.md:287`): a `break` inside the condition of an
  inner `while` is checked against the outer loop and emitted inside the inner
  one, which it leaves.
- `DifferentPlacesLand` (`Assign`; `amifl-spec.md:165`): two assignments at the same
  time to different elements of one Array or struct can lose one of them. This is
  the data race of any such Go program; `AssignmentsLand` says exactly
  when it cannot happen: when the two have no row that is a value in common.

Met while modelling, and not stated as a property:

- **Archives.** `amifl archive` creates the file at its final path. When a source cannot be
  read half way, `zw.Close()` (`archive.go:84`) ends the archive as a valid zip of the
  files so far, and a later build accepts it as the package (`OpenArchive`). `ArchiveStandsForDirectory` speaks of archives
  that were reported.
- **Output paths.** `defaultOutPath` says the path it derives is never the source itself
  (`main.go:227`), but for a directory in the current one it is: `go build -o` then puts
  the program into that directory, and `build` prints the directory.
- **`amifl run`** leaves its scratch directory when the program ends with a code other than
  zero (`main.go:165`): `os.Exit` skips the deferred removal. `ScratchGoesAway` says that this and a kill are the only ways.
- **Names across packages** (`amifl-spec.md:517`): a function `a_F` of the root and `F` of a package
  `a` get one name, and so do a struct and a function of one package.
- **Line breaks** (`amifl-spec.md:216`) inside an expression are not always an error: `a`, a
  line break and `- b` are two expressions. `noCompositeLit` stays set in a block
  inside a closure inside a header, against the comment at `parser.go:37`. A map
  literal takes a line break before `:` in its first entry only. `t.0.1` is lexed as a
  Float and refused; so are `fn(x) -> Int` (`amifl-spec.md:404`) and a `switch` on
  one line (section 7.2 of it).
- **Fields of variants.** The names `Variant_field` keep the fields of two variants with the same
  name apart (`enum.go:25`), but not field `b_c` of `A` and field `c` of `A_b`. A struct with a field of its own type is accepted (Go refuses it), and so is a
  Set of tuples with a List in them (`types.go:513`).
- **`readLine`** takes a final `\r` off a last line that has no `\n` (`file.go:95`; its
  comment speaks of one that precedes a `\n`).

## 6. What is not modelled

- **Lexer**: a pure function of text; `Parser` starts from tokens.
- **Built-in signatures, Maps, Sets, Arrays and indexing, floats and strings** in
  `Typing`: pure functions of types, without order or state. Their syntax is in
  `Parser`, their names across packages in `Packages`. Closures and `for`: what is
  hard about them is in `Scopes`, `ForLoops` and `Streams`. A type that contains
  itself, and tuples of more than two components.
- **Opening and writing files**: a `write` goes straight to the system.
- **Lists that share storage** (`append`, `Pop`, `a[i:j]`): what Go's slices do.
- **Goroutines of the program itself** (`spawn`, `channel`, `send`, `recv`): the
  effect of other code on shared variables is in `Assign` and `ForLoops`; the
  program's own channels are Go's.
- **Data races.** Two goroutines that touch the same Go variable have undefined
  behaviour; the models interleave instructions, each of them atomic. A program that assigns
  the `n` of a `take` or a `skip`, or the `f` of a `lines`, while the relay runs is of that
  kind: the relay reads the variable at every iteration, the models keep its first value.
- **Output paths and flags of the commands**; that `os.RemoveAll` may itself fail.
- **amivm and the Go toolchain**: external. What an instruction does is taken
  from how the generator uses it and marked external in the map.
- **Diagnostics**: that an error is reported is modelled, its wording is not.

## 7. Plan

Done, in this order: `ModLoader` and `PackageDag`; `Streams`; `Typing`;
`ForLoops` and `ForEach`; `RangeLoops`; `Scopes`; `Assign`; `Syntax`, `Notation` and
`Parser`; `Packages`; `Files`; `Commands`.

Left, the most important first:

1. `Lists`: which operations share a backing array, and what `Streams` and `ForLoops` may
   see of it.
2. A proof of `OrderIrrelevant`, and `Parser` without RECURSIVE operators, to prove about it.
