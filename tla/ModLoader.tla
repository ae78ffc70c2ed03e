----------------------------- MODULE ModLoader -----------------------------
(***************************************************************************)
(* The package loader of internal/modloader: loader.load, a depth-first    *)
(* walk of the import graph.  One behaviour is one call of Load.  The Go   *)
(* call stack is the variable stack; the recursive call, its return and    *)
(* every early return are actions.  A package is identified by its key,    *)
(* the absolute path that load computes from an import declaration, so the *)
(* path arithmetic (filepath.Abs, Clean, Join) is already done in the      *)
(* elements of Path.                                                       *)
(***************************************************************************)
EXTENDS Naturals, Sequences, SequencesExt

CONSTANTS
  Path,      \* absolute paths: directories, .amlz archives, single files
  Kind,      \* what os.Stat and the .amlz suffix say of each path
  Root,      \* the path given on the command line
  File,      \* .aml source files
  FilesOf,   \* the files a path merges into one package, in name order
  Broken,    \* the files parser.Parse rejects
  Alias,     \* import aliases
  Programs,  \* the contents of the files to consider: imports of each file
  None       \* no package, no alias

Import == [alias : Alias, target : Path]

\* An activation of load: its package and the index of the import
\* declaration it is resolving.
Frame == [key : Path, next : Nat \ {0}]

\* The import declarations of all the files of k, in file order, when the
\* files contain p (importDecls).
DeclsIn(p, k) == FlattenSeq([i \in DOMAIN FilesOf[k] |-> p[FilesOf[k][i]]])

ASSUME LoaderAssumption ==
  /\ Kind \in [Path -> {"dir", "archive", "file", "missing"}]
  /\ Root \in Path
  /\ FilesOf \in [Path -> Seq(File)]
  /\ Broken \subseteq File
  /\ None \notin Path \cup Alias
  /\ \A p \in Programs : p \in [File -> Seq(Import)]
  /\ \A p \in Programs, k \in Path : DeclsIn(p, k) \in Seq(Import)

\* A path is the only name of what it leads to, so that two with a source file
\* in common are a single file and the directory it is in.
LiesIn(r, d) == Kind[r] = "file" /\ ToSet(FilesOf[r]) \subseteq ToSet(FilesOf[d])

ASSUME FilesAssumption ==
  \A k, m \in Path : k # m /\ ToSet(FilesOf[k]) \cap ToSet(FilesOf[m]) # {} =>
    LiesIn(k, m) \/ LiesIn(m, k)

VARIABLES
  program,        \* the import declarations on disk; never changes
  pc,             \* what the innermost activation of load does next
  stack,          \* the activations of load
  arg,            \* the path being loaded, or just loaded when pc = "bind"
  byKey,          \* keys of l.byKey
  order,          \* l.order
  visiting,       \* l.visiting
  aliasOwner,     \* l.aliasOwner
  packagePrefix,  \* l.packagePrefix; None for the root's empty prefix
  imports,        \* pkg.Imports of each package
  outcome         \* "loading", "ok", or why Load returned an error

vars == <<program, pc, stack, arg, byKey, order, visiting, aliasOwner,
          packagePrefix, imports, outcome>>

tables == <<aliasOwner, packagePrefix, imports>>

Failure == {"io", "missing", "not a package", "cycle", "no sources",
            "parse", "alias"}

Decls(k) == DeclsIn(program, k)
Top      == stack[Len(stack)]
Decl     == Decls(Top.key)[Top.next]
IsRoot   == stack = <<>>     \* the isRoot argument: only the outermost call

Loadable(k) ==
  /\ FilesOf[k] # <<>>
  /\ ToSet(FilesOf[k]) \cap Broken = {}

\* The path is one load may open as a package.
Opens(k) == Kind[k] \in {"dir", "archive"} \/ (Kind[k] = "file" /\ IsRoot)

\* Mutation: the cache is not consulted.
FreshUncached(k) == Opens(k) /\ k \notin visiting

Fresh(k) == Opens(k) /\ k \notin visiting /\ k \notin byKey

Init ==
  /\ program \in Programs
  /\ pc = "load"
  /\ stack = <<>>
  /\ arg = Root
  /\ byKey = {}
  /\ order = <<>>
  /\ visiting = {}
  /\ aliasOwner = [a \in Alias |-> None]
  /\ packagePrefix = [k \in Path |-> None]
  /\ imports = [k \in Path |-> [a \in Alias |-> None]]
  /\ outcome = "loading"

\* An error returns through every activation; each runs its deferred
\* delete(l.visiting, key).
Fail(why) ==
  /\ pc' = "failed"
  /\ outcome' = why
  /\ stack' = <<>>
  /\ visiting' = {}
  /\ UNCHANGED <<program, arg, byKey, order, tables>>

\* os.Stat, os.ReadDir, os.ReadFile or zip.OpenReader fails.  A cached
\* archive is found without touching the disk.
IOError ==
  /\ pc = "load"
  /\ Kind[arg] = "archive" => Fresh(arg)
  /\ Fail("io")

NotFound == pc = "load" /\ Kind[arg] = "missing" /\ Fail("missing")

NotAPackage ==
  pc = "load" /\ Kind[arg] = "file" /\ ~IsRoot /\ Fail("not a package")

Cycle == pc = "load" /\ Opens(arg) /\ arg \in visiting /\ Fail("cycle")

\* Mutation: the cache is consulted before the cycle check.
CacheHitFirst ==
  /\ pc = "load"
  /\ Opens(arg) /\ arg \in byKey
  /\ pc' = "bind"
  /\ UNCHANGED <<program, stack, arg, byKey, order, visiting, tables, outcome>>

CacheHit ==
  /\ pc = "load"
  /\ Opens(arg) /\ arg \notin visiting /\ arg \in byKey
  /\ pc' = "bind"
  /\ UNCHANGED <<program, stack, arg, byKey, order, visiting, tables, outcome>>

NoSources == pc = "load" /\ Fresh(arg) /\ FilesOf[arg] = <<>> /\ Fail("no sources")

ParseError ==
  /\ pc = "load"
  /\ Fresh(arg)
  /\ FilesOf[arg] # <<>> /\ ToSet(FilesOf[arg]) \cap Broken # {}
  /\ Fail("parse")

\* Mark the package as being visited, read and parse its files.
Begin ==
  /\ pc = "load"
  /\ Fresh(arg) /\ Loadable(arg)
  /\ visiting' = visiting \cup {arg}
  /\ byKey' = byKey \cup {arg}
  /\ stack' = Append(stack, [key |-> arg, next |-> 1])
  /\ pc' = "import"
  /\ UNCHANGED <<program, arg, order, tables, outcome>>

\* The recursive call l.load(filepath.Join(dir, imp.Path), false).
CallImport ==
  /\ pc = "import"
  /\ Top.next <= Len(Decls(Top.key))
  /\ arg' = Decl.target
  /\ pc' = "load"
  /\ UNCHANGED <<program, stack, byKey, order, visiting, tables, outcome>>

AliasTaken(a, k) == aliasOwner[a] \notin {None, k}

AliasClash == pc = "bind" /\ AliasTaken(Decl.alias, arg) /\ Fail("alias")

\* Mutation: the last alias a package is reached by becomes its prefix.
BindLastAlias ==
  /\ pc = "bind"
  /\ ~AliasTaken(Decl.alias, arg)
  /\ aliasOwner' = [aliasOwner EXCEPT ![Decl.alias] = arg]
  /\ packagePrefix' = [packagePrefix EXCEPT ![arg] = Decl.alias]
  /\ imports' = [imports EXCEPT ![Top.key][Decl.alias] = arg]
  /\ stack' = [stack EXCEPT ![Len(stack)].next = @ + 1]
  /\ pc' = "import"
  /\ UNCHANGED <<program, arg, byKey, order, visiting, outcome>>

\* Mutation: the loop over the declarations does not advance.
BindAgain ==
  /\ pc = "bind"
  /\ ~AliasTaken(Decl.alias, arg)
  /\ aliasOwner' = [aliasOwner EXCEPT ![Decl.alias] = arg]
  /\ pc' = "import"
  /\ UNCHANGED <<program, stack, arg, byKey, order, visiting, packagePrefix,
                 imports, outcome>>

\* The recursive call returned the package arg: bind the alias to it.
BindImport ==
  /\ pc = "bind"
  /\ ~AliasTaken(Decl.alias, arg)
  /\ aliasOwner' = [aliasOwner EXCEPT ![Decl.alias] = arg]
  /\ packagePrefix' =
       [packagePrefix EXCEPT ![arg] = IF @ = None THEN Decl.alias ELSE @]
  /\ imports' = [imports EXCEPT ![Top.key][Decl.alias] = arg]
  /\ stack' = [stack EXCEPT ![Len(stack)].next = @ + 1]
  /\ pc' = "import"
  /\ UNCHANGED <<program, arg, byKey, order, visiting, outcome>>

\* Every import is bound: the package is complete and load returns it.
Finish ==
  /\ pc = "import"
  /\ Top.next > Len(Decls(Top.key))
  /\ order' = Append(order, Top.key)
  /\ visiting' = visiting \ {Top.key}
  /\ arg' = Top.key
  /\ stack' = Front(stack)
  /\ IF Len(stack) = 1
     THEN /\ packagePrefix' = [packagePrefix EXCEPT ![Top.key] = None]
          /\ pc' = "done"
          /\ outcome' = "ok"
     ELSE /\ pc' = "bind"
          /\ UNCHANGED <<packagePrefix, outcome>>
  /\ UNCHANGED <<program, byKey, aliasOwner, imports>>

Next ==
  \/ IOError \/ NotFound \/ NotAPackage \/ Cycle \/ NoSources \/ ParseError
  \/ CacheHit \/ Begin \/ CallImport \/ AliasClash \/ BindImport \/ Finish

Spec == Init /\ [][Next]_vars

\* Load is sequential code: it keeps running until it returns.
FairSpec == Spec /\ WF_vars(Next)

-----------------------------------------------------------------------------
Loaded == ToSet(order)

TypeOK ==
  /\ program \in [File -> Seq(Import)]
  /\ pc \in {"load", "import", "bind", "done", "failed"}
  /\ stack \in Seq(Frame)
  /\ arg \in Path
  /\ byKey \subseteq Path
  /\ order \in Seq(Path)
  /\ visiting \subseteq Path
  /\ aliasOwner \in [Alias -> Path \cup {None}]
  /\ packagePrefix \in [Path -> Alias \cup {None}]
  /\ imports \in [Path -> [Alias -> Path \cup {None}]]
  /\ outcome \in {"loading", "ok"} \cup Failure

\* Every package an entry of order imports stands strictly before it, so
\* that CheckPackage, run left to right, has its exports (the comment of Load).
TopologicalOrder ==
  \A i \in DOMAIN order : \A d \in ToSet(Decls(order[i])) :
    \E j \in 1 .. i - 1 : order[j] = d.target

\* A package is compiled once, however many importers reach it (the diamond
\* that the byKey cache serves).
LoadedOnce ==
  \A i, j \in DOMAIN order : order[i] = order[j] => i = j

\* No source file is merged into two packages of an accepted program: a
\* single-file root has its file for key and its directory has another key,
\* yet the directory can be imported (from below it) only in a cycle.
FilesOnce ==
  outcome = "ok" =>
    \A k, m \in Loaded : k # m => ToSet(FilesOf[k]) \cap ToSet(FilesOf[m]) = {}

\* The alias rule of the whole program (section 12.4, aliasOwner): every
\* import declaration of every loaded package binds its alias to the one
\* package the alias owns, and the package's own table says the same.
AliasesAgree ==
  \A k \in Loaded : \A d \in ToSet(Decls(k)) :
    /\ aliasOwner[d.alias] = d.target
    /\ imports[k][d.alias] = d.target

\* The rename prefixes of an accepted program: the root has none, every other
\* package has one, and no two packages share one.
PrefixesDistinct ==
  outcome = "ok" =>
    /\ packagePrefix[Root] = None
    /\ \A k \in Loaded \ {Root} :
         /\ packagePrefix[k] # None
         /\ \A m \in Loaded \ {k} : packagePrefix[m] # packagePrefix[k]

\* Whoever reads a package's Prefix or an alias's owner once may keep it: a
\* later import never changes it (first-seen-wins of packagePrefix).
BindingsAreStable ==
  [][/\ \A a \in Alias : aliasOwner[a] # None => aliasOwner'[a] = aliasOwner[a]
     /\ \A k \in Path : packagePrefix[k] # None =>
                          packagePrefix'[k] = packagePrefix[k]]_vars

\* The loader always returns, on cyclic graphs too.
Terminates == <>(outcome # "loading")

-----------------------------------------------------------------------------
(***************************************************************************)
(* What Load promises its caller, as a specification of its own.           *)
(***************************************************************************)
Usable ==
  {k \in Path : /\ Kind[k] \in {"dir", "archive"} \/ (Kind[k] = "file" /\ k = Root)
                /\ Loadable(k)}

Dag == INSTANCE PackageDag WITH
         graph <- [k \in Path |-> ToSet(Decls(k))],
         usable <- Usable,
         order <- order,
         outcome <- CASE outcome \in {"loading", "ok", "io"} -> outcome
                      [] OTHER -> "rejected"

\* load implements the package DAG: it accepts exactly the legal programs,
\* and rejects a program only if something is wrong with it.
ImplementsDag == Dag!Spec
=============================================================================
