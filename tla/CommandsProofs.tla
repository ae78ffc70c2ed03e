--------------------------- MODULE CommandsProofs ---------------------------
(***************************************************************************)
(* What the commands of Commands leave behind and what they deliver, for   *)
(* every number of processes, files and commands.                          *)
(*                                                                         *)
(* The invariant follows one job through its stages: which commands come   *)
(* to a stage, which scratch directories it has there and what they hold,  *)
(* and that what it has read are files the directory had meanwhile.  That  *)
(* no two jobs share a directory is what keeps the steps of other jobs out *)
(* of it.                                                                  *)
(***************************************************************************)
EXTENDS Commands, FiniteSetTheorems, WellFoundedInduction, TLAPS

-----------------------------------------------------------------------------
(* The loop of compileToGo over the extern aliases.                        *)

LEMMA Least ==
  ASSUME NEW T \in SUBSET Nat, T # {}
  PROVE  \E m \in T : \A i \in T : m <= i
<1> DEFINE R == {ss \in Nat \X Nat : ss[1] < ss[2]}
<1>1. IsWellFoundedOn(R, Nat)
  BY NatLessThanWellFounded DEF OpToRel
<1>2. PICK m \in T : \A y \in T : <<y, m>> \notin R
  <2> HIDE DEF R
  <2> QED
    BY <1>1, WFMin
<1>3. \A i \in T : ~(i < m)
  BY <1>2
<1> QED
  BY <1>3

Nothing == [args |-> << >>, names |-> << >>, copies |-> << >>]

\* What the loop has come to after each of its first k turns.
Turns(k, f) ==
  f = [i \in 0 .. k |-> IF i = 0 THEN Nothing ELSE CopyExtern(f[i - 1], Aliases[i])]

LEMMA AnotherTurn ==
  ASSUME NEW k \in Nat, NEW f, Turns(k, f)
  PROVE  \E g : Turns(k + 1, g)
<1> DEFINE g == [i \in 0 .. k + 1 |->
                   IF i = k + 1 THEN CopyExtern(f[k], Aliases[k + 1]) ELSE f[i]]
<1>1. \A i \in 0 .. k : f[i] = IF i = 0 THEN Nothing ELSE CopyExtern(f[i - 1], Aliases[i])
  BY DEF Turns
<1>2. \A i \in 0 .. k : g[i] = f[i]
  OBVIOUS
<1>3. g[k + 1] = CopyExtern(g[k], Aliases[k + 1])
  OBVIOUS
<1>4. ASSUME NEW i \in 0 .. k + 1
      PROVE  g[i] = IF i = 0 THEN Nothing ELSE CopyExtern(g[i - 1], Aliases[i])
  <2>1. CASE i = k + 1
    BY <2>1, <1>3
  <2>2. CASE i = 0
    BY <2>2, <1>1, <1>2
  <2>3. CASE i # k + 1 /\ i # 0
    <3>1. i \in 0 .. k /\ i - 1 \in 0 .. k
      BY <2>3
    <3> QED
      BY <2>3, <3>1, <1>1, <1>2
  <2> QED
    BY <2>1, <2>2, <2>3
<1> DEFINE h == [i \in 0 .. k + 1 |->
                   IF i = 0 THEN Nothing ELSE CopyExtern(g[i - 1], Aliases[i])]
<1>5. \A i \in 0 .. k + 1 : g[i] = h[i]
  BY <1>4
<1>6. DOMAIN g = 0 .. k + 1 /\ DOMAIN h = 0 .. k + 1
  OBVIOUS
<1>7. g = h
  <2>1. g = [i \in 0 .. k + 1 |-> g[i]]
    OBVIOUS
  <2> QED
    BY <2>1, <1>5
<1> QED
  BY <1>7 DEF Turns

LEMMA SomeTurns ==
  ASSUME NEW n \in Nat
  PROVE  \E f : Turns(n, f)
<1> DEFINE T == {k \in Nat : ~ \E f : Turns(k, f)}
<1> SUFFICES ASSUME T # {} PROVE FALSE
  OBVIOUS
<1>1. PICK m \in T : \A i \in T : m <= i
  <2>1. T \subseteq Nat
    OBVIOUS
  <2> HIDE DEF T
  <2> QED
    BY <2>1, Least
<1>2. Turns(0, [i \in 0 .. 0 |-> Nothing])
  BY DEF Turns
<1>3. m # 0
  BY <1>2
<1>4. m - 1 \in Nat /\ m - 1 \notin T /\ (m - 1) + 1 = m
  BY <1>1, <1>3
<1>5. PICK f : Turns(m - 1, f)
  BY <1>4
<1>6. \E g : Turns((m - 1) + 1, g)
  BY <1>4, <1>5, AnotherTurn
<1> QED
  BY <1>4, <1>6

LEMMA Aliased == Len(Aliases) \in Nat /\ DOMAIN Aliases = 1 .. Len(Aliases)
BY CommandsAssumption

LEMMA TheTurns ==
  ASSUME NEW i \in 0 .. Len(Aliases)
  PROVE  CopyExterns[i] = IF i = 0 THEN Nothing ELSE CopyExtern(CopyExterns[i - 1], Aliases[i])
<1>1. PICK f : Turns(Len(Aliases), f)
  BY Aliased, SomeTurns
<1>2. Turns(Len(Aliases), CopyExterns)
  BY <1>1 DEF Turns, CopyExterns, Nothing
<1> QED
  BY <1>2 DEF Turns

\* The Go code that amivm's import of an alias stands for.
Source(m, alias) == IF m.args[alias] \in DOMAIN m.copies THEN m.copies[m.args[alias]]
                    ELSE m.args[alias]

\* The loop after i aliases.
Served(m, alias) ==
  /\ alias \in DOMAIN m.args
  /\ Source(m, alias) = targets[alias]
  /\ \/ m.args[alias] \in DOMAIN m.copies
     \/ \A c \in 0 .. Len(Aliases) : m.args[alias] # ExternName(c)

LoopOK(m, i) ==
  /\ m = [args |-> m.args, names |-> m.names, copies |-> m.copies]
  /\ IsFiniteSet(DOMAIN m.names) /\ Cardinality(DOMAIN m.names) <= i
  /\ DOMAIN m.copies = {ExternName(c) : c \in 0 .. Cardinality(DOMAIN m.names) - 1}
  /\ \A d \in DOMAIN m.names : m.names[d] \in DOMAIN m.copies /\ m.copies[m.names[d]] = d
  /\ \A k \in 1 .. i : Served(m, Aliases[k])

\* An alias more, and perhaps a copy more: the others keep their source.
LEMMA StillServed ==
  ASSUME NEW m, NEW new, NEW a, NEW v, new.args = Holding(a, v, m.args),
         DOMAIN m.copies \subseteq DOMAIN new.copies,
         \A e \in DOMAIN m.copies : new.copies[e] = m.copies[e],
         \A e \in DOMAIN new.copies \ DOMAIN m.copies :
           \E c \in 0 .. Len(Aliases) : e = ExternName(c),
         NEW b, b # a, Served(m, b)
  PROVE  Served(new, b)
<1>1. b \in DOMAIN new.args /\ new.args[b] = m.args[b]
  BY DEF Served, Holding, Over
<1>2. CASE m.args[b] \in DOMAIN m.copies
  BY <1>1, <1>2 DEF Served, Source
<1>3. CASE m.args[b] \notin DOMAIN m.copies
  <2>1. m.args[b] \notin DOMAIN new.copies
    BY <1>3 DEF Served
  <2> QED
    BY <1>1, <1>3, <2>1 DEF Served, Source
<1> QED
  BY <1>2, <1>3

LEMMA NotYet ==
  ASSUME NEW n \in Nat, n <= Len(Aliases)
  PROVE  ExternName(n) \notin {ExternName(c) : c \in 0 .. n - 1}
<1>1. SUFFICES ASSUME NEW c \in 0 .. n - 1, ExternName(n) = ExternName(c) PROVE FALSE
  OBVIOUS
<1>2. n \in 0 .. Len(Aliases) /\ c \in 0 .. Len(Aliases)
  BY Aliased
<1>3. n = c
  BY <1>1, <1>2, CommandsAssumption
<1> QED
  BY <1>3

\* An alias of a package that go get finds.
LEMMA ImportedOK ==
  ASSUME NEW m, NEW i \in 1 .. Len(Aliases), LoopOK(m, i - 1), targets \in Targets,
         targets[Aliases[i]] \notin LocalDirs
  PROVE  LoopOK(CopyExtern(m, Aliases[i]), i)
<1> DEFINE a == Aliases[i]
           t == targets[a]
           new == CopyExtern(m, a)
<1>1. /\ new.args = Holding(a, t, m.args) /\ new.names = m.names /\ new.copies = m.copies
      /\ new = [args |-> new.args, names |-> new.names, copies |-> new.copies]
  <2>1. new = [m EXCEPT !.args = Holding(a, t, @)]
    BY DEF CopyExtern
  <2>2. m = [args |-> m.args, names |-> m.names, copies |-> m.copies]
    BY DEF LoopOK
  <2> QED
    BY <2>1, <2>2
<1> HIDE DEF new
<1>2. \A c \in 0 .. Len(Aliases) : t # ExternName(c)
  <2>1. i \in DOMAIN Aliases
    BY Aliased
  <2> QED
    BY <2>1, CommandsAssumption
<1>3. Cardinality(DOMAIN m.names) \in Nat /\ Cardinality(DOMAIN m.names) <= i - 1
  BY FS_CardinalityType DEF LoopOK
<1>4. t \notin DOMAIN m.copies
  <2>1. \A c \in 0 .. Cardinality(DOMAIN m.names) - 1 : c \in 0 .. Len(Aliases)
    BY <1>3, Aliased
  <2> QED
    BY <1>2, <2>1 DEF LoopOK
<1>5. Served(new, a)
  <2>1. new.args[a] = t /\ a \in DOMAIN new.args
    BY <1>1 DEF Holding, Over
  <2> QED
    BY <1>1, <1>2, <1>4, <2>1 DEF Served, Source
<1>6. ASSUME NEW k \in 1 .. i PROVE Served(new, Aliases[k])
  <2>1. CASE Aliases[k] = a
    BY <1>5, <2>1
  <2>2. CASE Aliases[k] # a
    <3>1. k \in 1 .. i - 1
      BY <2>2
    <3>2. Served(m, Aliases[k])
      BY <3>1 DEF LoopOK
    <3> QED
      BY <1>1, <2>2, <3>2, StillServed
  <2> QED
    BY <2>1, <2>2
<1> SUFFICES LoopOK(new, i)
  BY DEF new
<1> QED
  BY <1>1, <1>3, <1>6 DEF LoopOK

\* An alias of a local directory, which is copied unless it has been.
LEMMA CopiedOK ==
  ASSUME NEW m, NEW i \in 1 .. Len(Aliases), LoopOK(m, i - 1),
         targets[Aliases[i]] \in LocalDirs
  PROVE  LoopOK(CopyExtern(m, Aliases[i]), i)
<1> DEFINE a == Aliases[i]
           t == targets[a]
           n == Cardinality(DOMAIN m.names)
           name == IF t \in DOMAIN m.names THEN m.names[t] ELSE ExternName(n)
           new == CopyExtern(m, a)
<1>1. /\ new.args = Holding(a, name, m.args) /\ new.names = Holding(t, name, m.names)
      /\ new.copies = Holding(name, t, m.copies)
      /\ new = [args |-> new.args, names |-> new.names, copies |-> new.copies]
  BY DEF CopyExtern
<1>2. n \in Nat /\ n <= i - 1 /\ IsFiniteSet(DOMAIN m.names)
  BY FS_CardinalityType DEF LoopOK
<1>3. n <= Len(Aliases) /\ n \in 0 .. Len(Aliases)
  BY <1>2, Aliased
<1>4. /\ DOMAIN m.copies = {ExternName(c) : c \in 0 .. n - 1}
      /\ \A d \in DOMAIN m.names : m.names[d] \in DOMAIN m.copies /\ m.copies[m.names[d]] = d
  BY DEF LoopOK
<1> HIDE DEF new
<1>5. CASE t \in DOMAIN m.names
  <2>1. name = m.names[t] /\ name \in DOMAIN m.copies /\ m.copies[name] = t
    BY <1>4, <1>5
  <2> HIDE DEF name
  <2>2. DOMAIN new.copies = DOMAIN m.copies /\ DOMAIN new.names = DOMAIN m.names
    BY <1>1, <1>5, <2>1 DEF Holding, Over
  <2>3. \A e \in DOMAIN m.copies : new.copies[e] = m.copies[e]
    BY <1>1, <2>1 DEF Holding, Over
  <2>4. \A d \in DOMAIN m.names : new.names[d] = m.names[d]
    BY <1>1, <2>1 DEF Holding, Over
  <2>5. Served(new, a)
    BY <1>1, <2>1, <2>2, <2>3 DEF Served, Source, Holding, Over
  <2>6. ASSUME NEW k \in 1 .. i PROVE Served(new, Aliases[k])
    <3>1. CASE Aliases[k] = a
      BY <2>5, <3>1
    <3>2. CASE Aliases[k] # a
      <4>1. k \in 1 .. i - 1
        BY <3>2
      <4>2. Served(m, Aliases[k])
        BY <4>1 DEF LoopOK
      <4> QED
        BY <1>1, <2>2, <2>3, <3>2, <4>2, StillServed
    <3> QED
      BY <3>1, <3>2
  <2> HIDE DEF n
  <2>7. Cardinality(DOMAIN new.names) = n /\ n <= i
    BY <1>2, <2>2 DEF n
  <2>8. \A d \in DOMAIN new.names : new.names[d] \in DOMAIN new.copies /\ new.copies[new.names[d]] = d
    BY <1>4, <2>2, <2>3, <2>4
  <2>9. LoopOK(new, i)
    BY <1>1, <1>2, <1>4, <2>2, <2>6, <2>7, <2>8 DEF LoopOK
  <2> QED
    BY <2>9 DEF new
<1>6. CASE t \notin DOMAIN m.names
  <2>1. name = ExternName(n) /\ name \notin DOMAIN m.copies
    BY <1>2, <1>3, <1>4, <1>6, NotYet
  <2> HIDE DEF name
  <2>2. DOMAIN new.copies = DOMAIN m.copies \cup {name} /\ DOMAIN new.names = DOMAIN m.names \cup {t}
    BY <1>1 DEF Holding, Over
  <2>3. /\ \A e \in DOMAIN m.copies : new.copies[e] = m.copies[e]
        /\ new.copies[name] = t
    BY <1>1, <2>1 DEF Holding, Over
  <2>4. /\ \A d \in DOMAIN m.names : new.names[d] = m.names[d]
        /\ new.names[t] = name
    BY <1>1, <1>6 DEF Holding, Over
  <2>5. Served(new, a)
    <3>1. a \in DOMAIN new.args /\ new.args[a] = name
      BY <1>1 DEF Holding, Over
    <3> QED
      BY <3>1, <2>2, <2>3 DEF Served, Source
  <2>6. ASSUME NEW k \in 1 .. i PROVE Served(new, Aliases[k])
    <3>1. CASE Aliases[k] = a
      BY <2>5, <3>1
    <3>2. CASE Aliases[k] # a
      <4>1. k \in 1 .. i - 1
        BY <3>2
      <4>2. Served(m, Aliases[k])
        BY <4>1 DEF LoopOK
      <4>3. \A e \in DOMAIN new.copies \ DOMAIN m.copies :
              \E c \in 0 .. Len(Aliases) : e = ExternName(c)
        BY <1>3, <2>1, <2>2
      <4> QED
        BY <1>1, <2>2, <2>3, <3>2, <4>2, <4>3, StillServed
    <3> QED
      BY <3>1, <3>2
  <2>7. Cardinality(DOMAIN new.names) = n + 1 /\ IsFiniteSet(DOMAIN new.names)
    <3>1. PICK D : D = DOMAIN m.names
      OBVIOUS
    <3>2. IsFiniteSet(D) /\ t \notin D
      BY <1>2, <1>6, <3>1
    <3> HIDE DEF n
    <3>3. PICK u : u = t
      OBVIOUS
    <3>4. IsFiniteSet(D \cup {u}) /\ Cardinality(D \cup {u}) = Cardinality(D) + 1
      BY <3>2, <3>3, FS_AddElement
    <3> QED
      BY <2>2, <3>1, <3>3, <3>4 DEF n
  <2>8. \A d \in DOMAIN new.names : new.names[d] \in DOMAIN new.copies /\ new.copies[new.names[d]] = d
    BY <1>4, <2>2, <2>3, <2>4
  <2>9. DOMAIN new.copies = {ExternName(c) : c \in 0 .. (n + 1) - 1}
    <3> HIDE DEF n
    <3>1. 0 .. (n + 1) - 1 = (0 .. n - 1) \cup {n}
      BY <1>2
    <3> QED
      BY <1>4, <2>1, <2>2, <3>1
  <2> HIDE DEF n
  <2>10. n + 1 <= i
    BY <1>2
  <2>11. LoopOK(new, i)
    BY <1>1, <2>6, <2>7, <2>8, <2>9, <2>10 DEF LoopOK
  <2> QED
    BY <2>11 DEF new
<1> QED
  BY <1>5, <1>6

\* Every alias ends up with the Go code that its extern block names.
LEMMA EveryAliasServed ==
  ASSUME targets \in Targets
  PROVE  \A i \in DOMAIN Aliases : Served(Externs, Aliases[i])
<1> DEFINE T == {k \in 0 .. Len(Aliases) : ~LoopOK(CopyExterns[k], k)}
<1>1. T = {}
  <2> SUFFICES ASSUME T # {} PROVE FALSE
    OBVIOUS
  <2>1. PICK m \in T : \A i \in T : m <= i
    <3>1. T \subseteq Nat
      OBVIOUS
    <3> HIDE DEF T
    <3> QED
      BY <3>1, Least
  <2>2. m \in 0 .. Len(Aliases) /\ ~LoopOK(CopyExterns[m], m)
    OBVIOUS
  <2>3. CASE m = 0
    <3>1. CopyExterns[0] = Nothing
      BY <2>2, <2>3, TheTurns
    <3>2. DOMAIN Nothing.names = {} /\ DOMAIN Nothing.copies = {}
      BY DEF Nothing
    <3>3. Cardinality({}) = 0 /\ IsFiniteSet({})
      BY FS_EmptySet
    <3>4. Nothing = [args |-> Nothing.args, names |-> Nothing.names, copies |-> Nothing.copies]
      BY DEF Nothing
    <3>5. {ExternName(c) : c \in 0 .. 0 - 1} = {}
      OBVIOUS
    <3>6. LoopOK(Nothing, 0)
      BY <3>2, <3>3, <3>4, <3>5 DEF LoopOK
    <3> QED
      BY <2>2, <2>3, <3>1, <3>6
  <2>4. CASE m # 0
    <3>1. m \in 1 .. Len(Aliases) /\ m - 1 \in 0 .. Len(Aliases) /\ m - 1 \notin T
      BY <2>1, <2>2, <2>4, Aliased
    <3>2. LoopOK(CopyExterns[m - 1], m - 1)
      BY <3>1
    <3>3. CopyExterns[m] = CopyExtern(CopyExterns[m - 1], Aliases[m])
      BY <2>2, <2>4, TheTurns
    <3>4. LoopOK(CopyExtern(CopyExterns[m - 1], Aliases[m]), m)
      BY <3>1, <3>2, ImportedOK, CopiedOK
    <3> QED
      BY <2>2, <3>3, <3>4
  <2> QED
    BY <2>3, <2>4
<1>2. Len(Aliases) \in 0 .. Len(Aliases)
  BY Aliased
<1>3. LoopOK(Externs, Len(Aliases))
  BY <1>1, <1>2 DEF Externs
<1> QED
  BY <1>3, Aliased DEF LoopOK

-----------------------------------------------------------------------------
(* The invariant.                                                          *)

Fields == {"pc", "cmd", "from", "status", "todo", "files", "run", "work", "ran", "seen", "whole"}
Cmds   == {"build", "run", "emit-ir", "emit-go", "archive"}

\* The stages of a job, and what each command has at each of them.
Flow(j) ==
  /\ Fields \subseteq DOMAIN j
  /\ j.pc # "idle" => j.cmd \in Cmds
  /\ j.cmd = "archive" => j.from = "dir"
  /\ j.pc = "rundir" => j.cmd = "run"
  /\ j.pc \in {"create", "member"} => j.cmd = "archive"
  /\ j.pc \in {"read", "compile"} => j.cmd # "archive"
  /\ j.pc \in {"workdir", "prepare", "amivm"} => j.cmd \in {"build", "run", "emit-go"}
  /\ j.pc = "gobuild" => j.cmd \in {"build", "run"}
  /\ j.pc = "exec" => j.cmd = "run"
  /\ j.pc = "write" => j.cmd \in {"emit-ir", "emit-go"}
  /\ j.pc \in {"read", "create", "member"} => j.from = "dir"
  /\ j.pc \notin {"read", "create", "member"} => j.todo = {}
  /\ j.pc \in {"rundir", "list"} => j.files = NoFiles
  /\ j.run # NoScratch <=> j.cmd = "run" /\ j.pc \notin {"idle", "rundir"}
  /\ j.work # NoScratch <=> \/ j.pc \in {"prepare", "amivm", "gobuild"}
                            \/ j.pc = "write" /\ j.cmd = "emit-go"
  /\ j.from = "dir" => j.whole /\ DOMAIN j.seen = Names
  /\ DOMAIN j.files = Names

\* The binary b has the Go code that the extern blocks name.
Imports(b) == \A i \in DOMAIN Aliases : b.externs[Aliases[i]] = targets[Aliases[i]]

\* The scratch directories of a job, in the file system s.
Dirs(j) == {j.run, j.work} \ {NoScratch}
Holds(j, s) ==
  /\ Dirs(j) \subseteq DOMAIN s
  /\ j.run = j.work => j.run = NoScratch
  /\ j.pc \in {"amivm", "gobuild"} => s[j.work].files = j.files
  /\ j.pc = "gobuild" => \A i \in DOMAIN Aliases : Served(s[j.work], Aliases[i])
  /\ j.pc = "exec" => /\ s[j.run].kind = "binary" /\ s[j.run].files = j.files
                      /\ Imports(s[j.run])

\* What a job has seen of the directory d, and read.
Reads(j, d) ==
  /\ j.pc # "idle" /\ j.from = "dir" => \A n \in Names : d[n] \in j.seen[n]
  /\ j.pc \notin {"idle", "rundir", "list"} /\ j.whole =>
       \A n \in Names \ j.todo : j.files[n] \in j.seen[n]

Made(p) ==
  Delivers(p) => /\ Delivered(p).kind = Kind(job[p].cmd)
                 /\ job[p].whole => \A n \in Names : Delivered(p).files[n] \in job[p].seen[n]
                 /\ Kind(job[p].cmd) = "binary" => Imports(Delivered(p))

ArchiveOK ==
  amlz.kind = "zip" =>
    /\ DOMAIN amlz.members = Names
    /\ amlz.reported => \A n \in Names : amlz.members[n] \in amlz.seen[n]

Private == \A p \in Procs : \A q \in Procs \ {p} : Dirs(job[p]) \cap Dirs(job[q]) = {}

DirsOK == IsFiniteSet(DOMAIN scratch) /\ NoScratch \notin DOMAIN scratch

Shape == DOMAIN job = Procs /\ DOMAIN out = Procs /\ DOMAIN dir = Names

JobsOK == \A p \in Procs : /\ Flow(job[p]) /\ Holds(job[p], scratch)
                           /\ Reads(job[p], dir) /\ Made(p)

CInv == targets \in Targets /\ Shape /\ DirsOK /\ JobsOK /\ Private /\ ArchiveOK /\ ScratchGoesAway

-----------------------------------------------------------------------------
(* The steps of one process.                                               *)

\* What a step of process p does to its job.
LEMMA SetJob ==
  ASSUME NEW p \in Procs, Shape, NEW changes, Set(p, changes)
  PROVE  /\ DOMAIN job' = Procs
         /\ \A q \in Procs \ {p} : job'[q] = job[q]
         /\ job'[p] = Over(changes, job[p])
BY DEF Set, Shape

\* os.MkdirTemp always finds a name.
LEMMA Fresh ==
  ASSUME DirsOK
  PROVE  NewDir # NoScratch /\ NewDir \notin DOMAIN scratch
<1> DEFINE n == Cardinality(DOMAIN scratch)
<1>1. n \in Nat
  BY FS_CardinalityType DEF DirsOK
<1>2. \E d \in 1 .. (n + 1) : d \notin DOMAIN scratch
  <2>1. SUFFICES ASSUME 1 .. (n + 1) \subseteq DOMAIN scratch PROVE FALSE
    OBVIOUS
  <2>2. Cardinality(1 .. (n + 1)) <= n
    BY <2>1, FS_Subset DEF DirsOK
  <2>3. Cardinality(1 .. (n + 1)) = n + 1
    BY <1>1, FS_Interval
  <2> QED
    BY <1>1, <2>2, <2>3
<1> QED
  BY <1>1, <1>2 DEF NewDir, NoScratch

\* The directory of temporary files after one is made or removed.
LEMMA HoldingOK ==
  ASSUME NEW d, NEW c, NEW s, IsFiniteSet(DOMAIN s)
  PROVE  /\ DOMAIN Holding(d, c, s) = DOMAIN s \cup {d}
         /\ IsFiniteSet(DOMAIN Holding(d, c, s))
         /\ Holding(d, c, s)[d] = c
         /\ \A e \in DOMAIN s \ {d} : Holding(d, c, s)[e] = s[e]
<1>1. DOMAIN Holding(d, c, s) = DOMAIN s \cup {d}
  BY DEF Holding, Over
<1>2. IsFiniteSet(DOMAIN s \cup {d})
  BY FS_AddElement
<1> QED
  BY <1>1, <1>2 DEF Holding, Over

\* os.MkdirTemp makes one directory and leaves the others alone.
LEMMA MadeDirOK ==
  ASSUME DirsOK, scratch' = Holding(NewDir, Missing, scratch)
  PROVE  /\ DOMAIN scratch' = DOMAIN scratch \cup {NewDir}
         /\ \A d \in DOMAIN scratch : scratch'[d] = scratch[d]
         /\ DirsOK'
<1>1. PICK n : n = NewDir
  OBVIOUS
<1>2. n # NoScratch /\ n \notin DOMAIN scratch
  BY <1>1, Fresh
<1>3. scratch' = Holding(n, Missing, scratch) /\ IsFiniteSet(DOMAIN scratch)
  BY <1>1 DEF DirsOK
<1>4. DOMAIN scratch' = DOMAIN scratch \cup {n}
  BY <1>3 DEF Holding, Over
<1>5. \A d \in DOMAIN scratch \ {n} : scratch'[d] = scratch[d]
  BY <1>3 DEF Holding, Over
<1>6. IsFiniteSet(DOMAIN scratch')
  BY <1>3, <1>4, FS_AddElement
<1> QED
  BY <1>1, <1>2, <1>4, <1>5, <1>6 DEF DirsOK

LEMMA RemovedOK ==
  ASSUME NEW ds, DirsOK
  PROVE  /\ DOMAIN Removed(ds) = DOMAIN scratch \ ds
         /\ IsFiniteSet(DOMAIN Removed(ds))
         /\ \A e \in DOMAIN scratch \ ds : Removed(ds)[e] = scratch[e]
<1>1. DOMAIN Removed(ds) = DOMAIN scratch \ ds
  BY DEF Removed
<1>2. IsFiniteSet(DOMAIN scratch \ ds)
  BY FS_Subset DEF DirsOK
<1> QED
  BY <1>1, <1>2 DEF Removed

\* The extern blocks of the program bind the same things all along.
LEMMA SameTargets ==
  ASSUME NEW p, targets' = targets, Holds(job'[p], scratch')
  PROVE  Holds(job[p], scratch)'
BY DEF Holds, Imports, Served, Source

\* A step of p that touches only its own directories keeps the invariant when
\* it keeps what it says of p.
LEMMA StepOfOne ==
  ASSUME CInv, NEW p \in Procs,
         DOMAIN job' = Procs, \A q \in Procs \ {p} : job'[q] = job[q],
         DOMAIN out' = Procs, \A q \in Procs \ {p} : out'[q] = out[q],
         dir' = dir, targets' = targets, litter \subseteq litter', DirsOK', ArchiveOK',
         \A d \in DOMAIN scratch \ Dirs(job[p]) :
           d \in DOMAIN scratch' /\ scratch'[d] = scratch[d],
         \A d \in DOMAIN scratch' :
           d \in DOMAIN scratch \ Dirs(job[p]) \/ d \in litter' \/ d \in Dirs(job'[p]),
         \A d \in Dirs(job'[p]) : d \in Dirs(job[p]) \/ d \notin DOMAIN scratch,
         Flow(job'[p]), Holds(job'[p], scratch'), Reads(job'[p], dir), Made(p)'
  PROVE  CInv'
<1>1. Shape'
  BY DEF CInv, Shape
<1>2. ASSUME NEW q \in Procs \ {p}
      PROVE  Flow(job'[q]) /\ Holds(job'[q], scratch') /\ Reads(job'[q], dir') /\ Made(q)'
  <2>1. job'[q] = job[q] /\ Flow(job[q]) /\ Holds(job[q], scratch) /\ Reads(job[q], dir) /\ Made(q)
    BY DEF CInv, JobsOK
  <2>2. Dirs(job[q]) \cap Dirs(job[p]) = {}
    BY DEF CInv, Private
  <2>3. Dirs(job[q]) \subseteq DOMAIN scratch
    BY <2>1 DEF Holds
  <2>4. \A d \in Dirs(job[q]) : d \in DOMAIN scratch' /\ scratch'[d] = scratch[d]
    BY <2>2, <2>3
  <2>5. Holds(job[q], scratch')
    <3>1. job[q].pc \in {"amivm", "gobuild"} => job[q].work \in Dirs(job[q])
      BY <2>1 DEF Flow, Dirs
    <3>2. job[q].pc = "exec" => job[q].run \in Dirs(job[q])
      BY <2>1 DEF Flow, Dirs
    <3> QED
      BY <2>1, <2>4, <3>1, <3>2 DEF Holds
  <2>6. Made(q)'
    BY <2>1 DEF Made, Delivers, Delivered, Running, Imports
  <2> QED
    BY <2>1, <2>5, <2>6
<1>3. JobsOK'
  BY <1>2, SameTargets DEF JobsOK
<1>4. Private'
  <2>1. ASSUME NEW q \in Procs \ {p} PROVE Dirs(job'[p]) \cap Dirs(job[q]) = {}
    BY DEF CInv, Private, JobsOK, Holds
  <2> QED
    BY <2>1 DEF CInv, Private
<1>5. ScratchGoesAway'
  <2>1. SUFFICES ASSUME NEW d \in DOMAIN scratch', d \notin litter'
                 PROVE  \E q \in Procs : job'[q].pc # "idle" /\ d \in {job'[q].run, job'[q].work}
    BY DEF ScratchGoesAway, Running
  <2>2. CASE d \in Dirs(job'[p])
    BY <2>2 DEF Dirs, Flow
  <2>3. CASE d \in DOMAIN scratch \ Dirs(job[p])
    <3>1. d # NoScratch
      BY <2>3 DEF CInv, DirsOK
    <3>2. PICK q \in Procs : job[q].pc # "idle" /\ d \in {job[q].run, job[q].work}
      BY <2>1, <2>3 DEF CInv, ScratchGoesAway, Running
    <3>3. q # p
      BY <2>3, <3>1, <3>2 DEF Dirs
    <3> QED
      BY <3>2, <3>3
  <2> QED
    BY <2>1, <2>2, <2>3
<1> QED
  BY <1>1, <1>3, <1>4, <1>5 DEF CInv

\* A step that makes and removes no directory.
LEMMA QuietStep ==
  ASSUME CInv, NEW p \in Procs, NEW changes, Set(p, changes),
         UNCHANGED <<dir, targets, out, scratch, litter>>, ArchiveOK',
         Dirs(job'[p]) = Dirs(job[p]),
         Flow(job'[p]), Holds(job'[p], scratch), Reads(job'[p], dir), Made(p)'
  PROVE  CInv'
<1>1. /\ DOMAIN job' = Procs
      /\ \A q \in Procs \ {p} : job'[q] = job[q]
  BY SetJob DEF CInv
<1>2. /\ DOMAIN out' = Procs
      /\ \A q \in Procs \ {p} : out'[q] = out[q]
      /\ DirsOK'
  BY DEF CInv, Shape, DirsOK
<1> QED
  BY <1>1, <1>2, StepOfOne

-----------------------------------------------------------------------------
(* The steps that make and remove no directory.                            *)

\* The facts about p that its steps start from.
LEMMA JobFacts ==
  ASSUME CInv, NEW p \in Procs
  PROVE  /\ Flow(job[p]) /\ Holds(job[p], scratch) /\ Reads(job[p], dir) /\ Made(p)
         /\ DOMAIN dir = Names /\ DOMAIN out = Procs
         /\ \A changes : Set(p, changes) => job'[p] = Over(changes, job[p])
BY SetJob DEF CInv, JobsOK, Shape

LEMMA StartOK ==
  ASSUME CInv, NEW p \in Procs, NEW cmd \in Cmds, NEW from \in {"dir", "archive"},
         Start(p, cmd, from)
  PROVE  CInv'
<1> DEFINE new == [Idle EXCEPT !.pc = IF cmd = "run" THEN "rundir" ELSE "list", !.cmd = cmd,
                               !.from = from, !.status = "running",
                               !.seen = [n \in Names |-> {dir[n]}]]
<1>1. Set(p, new) /\ UNCHANGED <<dir, targets, out, scratch, litter>>
  BY DEF Start
<1>2. ArchiveOK'
  BY DEF Start, ArchiveOK, CInv
<1>3. job'[p] = Over(new, job[p])
  BY <1>1, JobFacts
<1> DEFINE k == job'[p]
<1>4. /\ k.pc = (IF cmd = "run" THEN "rundir" ELSE "list") /\ k.cmd = cmd /\ k.from = from
      /\ k.status = "running" /\ k.seen = [n \in Names |-> {dir[n]}] /\ k.todo = {}
      /\ k.files = NoFiles /\ k.run = NoScratch /\ k.work = NoScratch /\ k.whole = TRUE
      /\ Fields \subseteq DOMAIN k
  BY <1>3, JobFacts DEF Over, Idle, Fields, Flow
<1>5. Flow(k)
  BY <1>4 DEF Flow, Start, NoFiles, Cmds
<1>6. Dirs(k) = {} /\ Dirs(job[p]) = {}
  BY <1>4, JobFacts DEF Dirs, Flow, Start, Running
<1>7. Holds(k, scratch) /\ Reads(k, dir)
  BY <1>4, <1>6 DEF Holds, Reads
<1>8. Made(p)'
  BY <1>4 DEF Made, Delivers
<1> QED
  BY <1>1, <1>2, <1>5, <1>6, <1>7, <1>8, QuietStep

LEMMA ListOK ==
  ASSUME CInv, NEW p \in Procs, List(p)
  PROVE  CInv'
<1> DEFINE changes == [todo |-> Present,
                       pc |-> IF job[p].cmd = "archive" THEN "create" ELSE "read"]
           j == job[p]
           k == job'[p]
<1>1. Set(p, changes) /\ UNCHANGED <<dir, targets, out, scratch, litter>>
  BY DEF List
<1>2. ArchiveOK'
  BY JobFacts DEF List, ArchiveOK, CInv
<1>3. j.pc = "list" /\ j.from = "dir" /\ Flow(j) /\ Holds(j, scratch) /\ Reads(j, dir)
  BY JobFacts DEF List, At
<1>4. /\ k.pc = (IF j.cmd = "archive" THEN "create" ELSE "read") /\ k.cmd = j.cmd
      /\ k.from = j.from /\ k.status = j.status /\ k.todo = Present /\ k.files = j.files
      /\ k.run = j.run /\ k.work = j.work /\ k.ran = j.ran /\ k.seen = j.seen
      /\ k.whole = j.whole
      /\ Fields \subseteq DOMAIN k
  <2>1. k = Over(changes, j)
    BY <1>1, JobFacts
  <2> QED
    BY <2>1, <1>3 DEF Over, Fields, Flow
<1>5. Flow(k) /\ Dirs(k) = Dirs(j)
  BY <1>3, <1>4, JobFacts DEF Flow, Dirs, Cmds
<1>6. Holds(k, scratch)
  BY <1>3, <1>4, <1>5 DEF Holds, Flow
<1>7. Reads(k, dir)
  BY <1>3, <1>4, JobFacts DEF Reads, Flow, Present, NoFiles, Absent
<1>8. Made(p)'
  BY <1>3, <1>4 DEF Made, Delivers, Running
<1> QED
  BY <1>1, <1>2, <1>5, <1>6, <1>7, <1>8, QuietStep

LEMMA OpenArchiveOK ==
  ASSUME CInv, NEW p \in Procs, OpenArchive(p)
  PROVE  CInv'
<1> DEFINE changes == [files |-> amlz.members, seen |-> amlz.seen,
                       whole |-> amlz.reported, pc |-> "compile"]
           j == job[p]
           k == job'[p]
<1>1. Set(p, changes) /\ UNCHANGED <<dir, targets, out, scratch, litter>>
  BY DEF OpenArchive
<1>2. ArchiveOK'
  BY JobFacts DEF OpenArchive, ArchiveOK, CInv
<1>3. j.pc = "list" /\ j.from = "archive" /\ amlz.kind = "zip" /\ ArchiveOK /\ Flow(j) /\ Holds(j, scratch) /\ Reads(j, dir)
  BY JobFacts DEF OpenArchive, At, CInv
<1>4. /\ k.pc = "compile" /\ k.cmd = j.cmd /\ k.from = j.from /\ k.status = j.status
      /\ k.todo = j.todo /\ k.files = amlz.members /\ k.run = j.run /\ k.work = j.work
      /\ k.ran = j.ran /\ k.seen = amlz.seen /\ k.whole = amlz.reported
      /\ Fields \subseteq DOMAIN k
  <2>1. k = Over(changes, j)
    BY <1>1, JobFacts
  <2> QED
    BY <2>1, <1>3 DEF Over, Fields, Flow
<1>5. Flow(k) /\ Dirs(k) = Dirs(j)
  BY <1>3, <1>4, JobFacts DEF Flow, Dirs, Cmds, ArchiveOK
<1>6. Holds(k, scratch)
  BY <1>3, <1>4, <1>5 DEF Holds, Flow
<1>7. Reads(k, dir)
  BY <1>3, <1>4, JobFacts DEF Reads, Flow, ArchiveOK
<1>8. Made(p)'
  BY <1>3, <1>4 DEF Made, Delivers, Running
<1> QED
  BY <1>1, <1>2, <1>5, <1>6, <1>7, <1>8, QuietStep

LEMMA ReadFileOK ==
  ASSUME CInv, NEW p \in Procs, ReadFile(p)
  PROVE  CInv'
<1> DEFINE changes == [files |-> [job[p].files EXCEPT ![NextName(p)] = dir[NextName(p)]],
                       todo |-> job[p].todo \ {NextName(p)}]
           j == job[p]
           k == job'[p]
<1>1. Set(p, changes) /\ UNCHANGED <<dir, targets, out, scratch, litter>>
  BY DEF ReadFile
<1>2. ArchiveOK'
  BY JobFacts DEF ReadFile, ArchiveOK, CInv
<1>3. j.pc = "read" /\ Flow(j) /\ Holds(j, scratch) /\ Reads(j, dir)
  BY JobFacts DEF ReadFile, At
<1>4. /\ k.pc = j.pc /\ k.cmd = j.cmd /\ k.from = j.from /\ k.status = j.status
      /\ k.todo = j.todo \ {NextName(p)}
      /\ k.files = [j.files EXCEPT ![NextName(p)] = dir[NextName(p)]] /\ k.run = j.run
      /\ k.work = j.work /\ k.ran = j.ran /\ k.seen = j.seen /\ k.whole = j.whole
      /\ Fields \subseteq DOMAIN k
  <2>1. k = Over(changes, j)
    BY <1>1, JobFacts
  <2> QED
    BY <2>1, <1>3 DEF Over, Fields, Flow
<1>5. Flow(k) /\ Dirs(k) = Dirs(j)
  BY <1>3, <1>4, JobFacts DEF Flow, Dirs, Cmds
<1>6. Holds(k, scratch)
  BY <1>3, <1>4, <1>5 DEF Holds, Flow
<1>7. Reads(k, dir)
  <2>1. \A n \in Names : dir[n] \in k.seen[n]
    BY <1>3, <1>4 DEF Reads, Flow
  <2>2. ASSUME NEW n \in Names \ k.todo PROVE k.files[n] \in k.seen[n]
    <3>1. k.files[n] = IF n = NextName(p) THEN dir[n] ELSE j.files[n]
      BY <1>3, <1>4 DEF Flow
    <3>2. n # NextName(p) => n \in Names \ j.todo
      BY <1>4
    <3>3. n # NextName(p) => j.files[n] \in j.seen[n]
      BY <1>3, <3>2 DEF Reads, Flow
    <3> QED
      BY <1>4, <2>1, <3>1, <3>3
  <2> QED
    BY <2>1, <2>2 DEF Reads
<1>8. Made(p)'
  BY <1>3, <1>4 DEF Made, Delivers, Running
<1> QED
  BY <1>1, <1>2, <1>5, <1>6, <1>7, <1>8, QuietStep

LEMMA AddMemberOK ==
  ASSUME CInv, NEW p \in Procs, AddMember(p)
  PROVE  CInv'
<1> DEFINE changes == [files |-> [job[p].files EXCEPT ![NextName(p)] = dir[NextName(p)]],
                       todo |-> job[p].todo \ {NextName(p)}]
           j == job[p]
           k == job'[p]
<1>1. Set(p, changes) /\ UNCHANGED <<dir, targets, out, scratch, litter>>
  BY DEF AddMember
<1>2. ArchiveOK'
  BY JobFacts DEF AddMember, ArchiveOK, CInv
<1>3. j.pc = "member" /\ Flow(j) /\ Holds(j, scratch) /\ Reads(j, dir)
  BY JobFacts DEF AddMember, At
<1>4. /\ k.pc = j.pc /\ k.cmd = j.cmd /\ k.from = j.from /\ k.status = j.status
      /\ k.todo = j.todo \ {NextName(p)}
      /\ k.files = [j.files EXCEPT ![NextName(p)] = dir[NextName(p)]] /\ k.run = j.run
      /\ k.work = j.work /\ k.ran = j.ran /\ k.seen = j.seen /\ k.whole = j.whole
      /\ Fields \subseteq DOMAIN k
  <2>1. k = Over(changes, j)
    BY <1>1, JobFacts
  <2> QED
    BY <2>1, <1>3 DEF Over, Fields, Flow
<1>5. Flow(k) /\ Dirs(k) = Dirs(j)
  BY <1>3, <1>4, JobFacts DEF Flow, Dirs, Cmds
<1>6. Holds(k, scratch)
  BY <1>3, <1>4, <1>5 DEF Holds, Flow
<1>7. Reads(k, dir)
  <2>1. \A n \in Names : dir[n] \in k.seen[n]
    BY <1>3, <1>4 DEF Reads, Flow
  <2>2. ASSUME NEW n \in Names \ k.todo PROVE k.files[n] \in k.seen[n]
    <3>1. k.files[n] = IF n = NextName(p) THEN dir[n] ELSE j.files[n]
      BY <1>3, <1>4 DEF Flow
    <3>2. n # NextName(p) => n \in Names \ j.todo
      BY <1>4
    <3>3. n # NextName(p) => j.files[n] \in j.seen[n]
      BY <1>3, <3>2 DEF Reads, Flow
    <3> QED
      BY <1>4, <2>1, <3>1, <3>3
  <2> QED
    BY <2>1, <2>2 DEF Reads
<1>8. Made(p)'
  BY <1>3, <1>4 DEF Made, Delivers, Running
<1> QED
  BY <1>1, <1>2, <1>5, <1>6, <1>7, <1>8, QuietStep

LEMMA CreateArchiveOK ==
  ASSUME CInv, NEW p \in Procs, CreateArchive(p)
  PROVE  CInv'
<1> DEFINE changes == [pc |-> "member"]
           j == job[p]
           k == job'[p]
<1>1. Set(p, changes) /\ UNCHANGED <<dir, targets, out, scratch, litter>>
  BY DEF CreateArchive
<1>2. ArchiveOK'
  BY JobFacts DEF CreateArchive, ArchiveOK, CInv, ZipFile
<1>3. j.pc = "create" /\ Flow(j) /\ Holds(j, scratch) /\ Reads(j, dir)
  BY JobFacts DEF CreateArchive, At
<1>4. /\ k.pc = "member" /\ k.cmd = j.cmd /\ k.from = j.from /\ k.status = j.status
      /\ k.todo = j.todo /\ k.files = j.files /\ k.run = j.run /\ k.work = j.work
      /\ k.ran = j.ran /\ k.seen = j.seen /\ k.whole = j.whole
      /\ Fields \subseteq DOMAIN k
  <2>1. k = Over(changes, j)
    BY <1>1, JobFacts
  <2> QED
    BY <2>1, <1>3 DEF Over, Fields, Flow
<1>5. Flow(k) /\ Dirs(k) = Dirs(j)
  BY <1>3, <1>4, JobFacts DEF Flow, Dirs, Cmds
<1>6. Holds(k, scratch)
  BY <1>3, <1>4, <1>5 DEF Holds, Flow
<1>7. Reads(k, dir)
  BY <1>3, <1>4, JobFacts DEF Reads, Flow
<1>8. Made(p)'
  BY <1>3, <1>4 DEF Made, Delivers, Running
<1> QED
  BY <1>1, <1>2, <1>5, <1>6, <1>7, <1>8, QuietStep

LEMMA CompileOK ==
  ASSUME CInv, NEW p \in Procs, Compile(p)
  PROVE  CInv'
<1> DEFINE changes == [pc |-> IF job[p].cmd = "emit-ir" THEN "write" ELSE "workdir"]
           j == job[p]
           k == job'[p]
<1>1. Set(p, changes) /\ UNCHANGED <<dir, targets, out, scratch, litter>>
  BY DEF Compile
<1>2. ArchiveOK'
  BY JobFacts DEF Compile, ArchiveOK, CInv
<1>3. j.pc \in {"read", "compile"} /\ j.todo = {} /\ Flow(j) /\ Holds(j, scratch) /\ Reads(j, dir)
  BY JobFacts DEF Compile, At, Flow
<1>4. /\ k.pc = (IF j.cmd = "emit-ir" THEN "write" ELSE "workdir") /\ k.cmd = j.cmd
      /\ k.from = j.from /\ k.status = j.status /\ k.todo = j.todo /\ k.files = j.files
      /\ k.run = j.run /\ k.work = j.work /\ k.ran = j.ran /\ k.seen = j.seen
      /\ k.whole = j.whole
      /\ Fields \subseteq DOMAIN k
  <2>1. k = Over(changes, j)
    BY <1>1, JobFacts
  <2> QED
    BY <2>1, <1>3 DEF Over, Fields, Flow
<1>5. Flow(k) /\ Dirs(k) = Dirs(j)
  BY <1>3, <1>4, JobFacts DEF Flow, Dirs, Cmds
<1>6. Holds(k, scratch)
  BY <1>3, <1>4, <1>5 DEF Holds, Flow
<1>7. Reads(k, dir)
  BY <1>3, <1>4, JobFacts DEF Reads, Flow
<1>8. Made(p)'
  BY <1>3, <1>4 DEF Made, Delivers, Running
<1> QED
  BY <1>1, <1>2, <1>5, <1>6, <1>7, <1>8, QuietStep

-----------------------------------------------------------------------------
(* The steps that make a directory or write to one.                        *)

LEMMA MakeRunDirOK ==
  ASSUME CInv, NEW p \in Procs, MakeRunDir(p)
  PROVE  CInv'
<1> DEFINE changes == [run |-> NewDir, pc |-> "list"]
           j == job[p]
           k == job'[p]
<1>1. /\ Set(p, changes) /\ UNCHANGED <<dir, targets, out, litter>>
      /\ scratch' = Holding(NewDir, Missing, scratch)
  BY DEF MakeRunDir, With
<1>2. ArchiveOK'
  BY JobFacts DEF MakeRunDir, ArchiveOK, CInv
<1>3. j.pc = "rundir" /\ Flow(j) /\ Holds(j, scratch) /\ Reads(j, dir)
  BY JobFacts DEF MakeRunDir, At
<1>4. /\ k.pc = "list" /\ k.cmd = j.cmd /\ k.from = j.from /\ k.status = j.status
      /\ k.todo = j.todo /\ k.files = j.files /\ k.run = NewDir /\ k.work = j.work
      /\ k.ran = j.ran /\ k.seen = j.seen /\ k.whole = j.whole
      /\ Fields \subseteq DOMAIN k
  <2>1. k = Over(changes, j)
    BY <1>1, JobFacts
  <2> QED
    BY <2>1, <1>3 DEF Over, Fields, Flow
<1>5. NewDir # NoScratch /\ NewDir \notin DOMAIN scratch
  BY Fresh DEF CInv
<1>6. /\ DOMAIN scratch' = DOMAIN scratch \cup {NewDir} /\ DirsOK'
      /\ \A d \in DOMAIN scratch : scratch'[d] = scratch[d]
  BY <1>1, MadeDirOK DEF CInv
<1>7. Flow(k)
  BY <1>3, <1>4, <1>5 DEF Flow, Cmds
<1>8. Dirs(k) = Dirs(j) \cup {NewDir} /\ j.run = NoScratch
  BY <1>3, <1>4, <1>5 DEF Dirs, Flow
<1>9. Holds(k, scratch')
  BY <1>3, <1>4, <1>5, <1>6, <1>8 DEF Holds, Dirs
<1>10. Reads(k, dir)
  BY <1>3, <1>4 DEF Reads, Flow, NoFiles, Absent
<1>11. Made(p)'
  BY <1>3, <1>4 DEF Made, Delivers, Running
<1>12. /\ DOMAIN job' = Procs /\ \A q \in Procs \ {p} : job'[q] = job[q]
       /\ DOMAIN out' = Procs /\ \A q \in Procs \ {p} : out'[q] = out[q]
  BY <1>1, SetJob DEF CInv, Shape
<1> QED
  BY <1>1, <1>2, <1>5, <1>6, <1>7, <1>8, <1>9, <1>10, <1>11, <1>12, StepOfOne

LEMMA MakeWorkDirOK ==
  ASSUME CInv, NEW p \in Procs, MakeWorkDir(p)
  PROVE  CInv'
<1> DEFINE changes == [work |-> NewDir, pc |-> "prepare"]
           j == job[p]
           k == job'[p]
<1>1. /\ Set(p, changes) /\ UNCHANGED <<dir, targets, out, litter>>
      /\ scratch' = Holding(NewDir, Missing, scratch)
  BY DEF MakeWorkDir, With
<1>2. ArchiveOK'
  BY JobFacts DEF MakeWorkDir, ArchiveOK, CInv
<1>3. j.pc = "workdir" /\ Flow(j) /\ Holds(j, scratch) /\ Reads(j, dir)
  BY JobFacts DEF MakeWorkDir, At
<1>4. /\ k.pc = "prepare" /\ k.cmd = j.cmd /\ k.from = j.from /\ k.status = j.status
      /\ k.todo = j.todo /\ k.files = j.files /\ k.run = j.run /\ k.work = NewDir
      /\ k.ran = j.ran /\ k.seen = j.seen /\ k.whole = j.whole
      /\ Fields \subseteq DOMAIN k
  <2>1. k = Over(changes, j)
    BY <1>1, JobFacts
  <2> QED
    BY <2>1, <1>3 DEF Over, Fields, Flow
<1>5. NewDir # NoScratch /\ NewDir \notin DOMAIN scratch
  BY Fresh DEF CInv
<1>6. /\ DOMAIN scratch' = DOMAIN scratch \cup {NewDir} /\ DirsOK'
      /\ \A d \in DOMAIN scratch : scratch'[d] = scratch[d]
  BY <1>1, MadeDirOK DEF CInv
<1>7. Flow(k)
  BY <1>3, <1>4, <1>5 DEF Flow, Cmds
<1>8. Dirs(k) = Dirs(j) \cup {NewDir} /\ j.work = NoScratch
  BY <1>3, <1>4, <1>5 DEF Dirs, Flow
<1>9. Holds(k, scratch')
  BY <1>3, <1>4, <1>5, <1>6, <1>8 DEF Holds, Dirs
<1>10. Reads(k, dir)
  BY <1>3, <1>4 DEF Reads, Flow, NoFiles, Absent
<1>11. Made(p)'
  BY <1>3, <1>4 DEF Made, Delivers, Running
<1>12. /\ DOMAIN job' = Procs /\ \A q \in Procs \ {p} : job'[q] = job[q]
       /\ DOMAIN out' = Procs /\ \A q \in Procs \ {p} : out'[q] = out[q]
  BY <1>1, SetJob DEF CInv, Shape
<1> QED
  BY <1>1, <1>2, <1>5, <1>6, <1>7, <1>8, <1>9, <1>10, <1>11, <1>12, StepOfOne

\* Writing to a directory that is there.
LEMMA WroteDirOK ==
  ASSUME DirsOK, NEW d \in DOMAIN scratch, NEW c, scratch' = Holding(d, c, scratch)
  PROVE  /\ DOMAIN scratch' = DOMAIN scratch /\ DirsOK'
         /\ scratch'[d] = c
         /\ \A e \in DOMAIN scratch \ {d} : scratch'[e] = scratch[e]
BY DEF Holding, Over, DirsOK

LEMMA PrepareOK ==
  ASSUME CInv, NEW p \in Procs, Prepare(p)
  PROVE  CInv'
<1> DEFINE changes == [pc |-> "amivm"]
           j == job[p]
           k == job'[p]
           content == [kind |-> "ir", files |-> j.files]
<1>1. /\ Set(p, changes) /\ UNCHANGED <<dir, targets, out, litter>>
      /\ scratch' = Holding(j.work, content, scratch)
  BY DEF Prepare, With
<1>2. ArchiveOK'
  BY JobFacts DEF Prepare, ArchiveOK, CInv
<1>3. j.pc = "prepare" /\ Flow(j) /\ Holds(j, scratch) /\ Reads(j, dir)
  BY JobFacts DEF Prepare, At
<1>4. /\ k.pc = "amivm" /\ k.cmd = j.cmd /\ k.from = j.from /\ k.status = j.status
      /\ k.todo = j.todo /\ k.files = j.files /\ k.run = j.run /\ k.work = j.work
      /\ k.ran = j.ran /\ k.seen = j.seen /\ k.whole = j.whole
      /\ Fields \subseteq DOMAIN k
  <2>1. k = Over(changes, j)
    BY <1>1, JobFacts
  <2> QED
    BY <2>1, <1>3 DEF Over, Fields, Flow
<1>5. Flow(k) /\ Dirs(k) = Dirs(j) /\ j.work \in Dirs(j)
  BY <1>3, <1>4 DEF Flow, Cmds, Dirs
<1>6. j.work \in DOMAIN scratch
  BY <1>3, <1>5 DEF Holds
<1>7. /\ DOMAIN scratch' = DOMAIN scratch /\ DirsOK' /\ scratch'[j.work] = content
      /\ \A e \in DOMAIN scratch \ {j.work} : scratch'[e] = scratch[e]
  BY <1>1, <1>6, WroteDirOK DEF CInv
<1>8. Holds(k, scratch')
  BY <1>3, <1>4, <1>5, <1>7 DEF Holds
<1>9. Reads(k, dir)
  BY <1>3, <1>4 DEF Reads, Flow
<1>10. Made(p)'
  BY <1>3, <1>4 DEF Made, Delivers, Running
<1>11. /\ DOMAIN job' = Procs /\ \A q \in Procs \ {p} : job'[q] = job[q]
       /\ DOMAIN out' = Procs /\ \A q \in Procs \ {p} : out'[q] = out[q]
  BY <1>1, SetJob DEF CInv, Shape
<1>12. /\ \A d \in DOMAIN scratch \ Dirs(j) : d \in DOMAIN scratch' /\ scratch'[d] = scratch[d]
       /\ \A d \in DOMAIN scratch' : d \in DOMAIN scratch \ Dirs(j) \/ d \in Dirs(k)
  BY <1>5, <1>7
<1> QED
  BY <1>1, <1>2, <1>5, <1>7, <1>8, <1>9, <1>10, <1>11, <1>12, StepOfOne

LEMMA AmivmOK ==
  ASSUME CInv, NEW p \in Procs, Amivm(p)
  PROVE  CInv'
<1> DEFINE changes == [pc |-> IF job[p].cmd = "emit-go" THEN "write" ELSE "gobuild"]
           j == job[p]
           k == job'[p]
           content == [kind |-> "go", files |-> scratch[j.work].files,
                       args |-> Externs.args, copies |-> Externs.copies]
<1>1. /\ Set(p, changes) /\ UNCHANGED <<dir, targets, out, litter>>
      /\ scratch' = Holding(j.work, content, scratch)
  BY DEF Amivm, With
<1>2. ArchiveOK'
  BY JobFacts DEF Amivm, ArchiveOK, CInv
<1>3. j.pc = "amivm" /\ Flow(j) /\ Holds(j, scratch) /\ Reads(j, dir)
  BY JobFacts DEF Amivm, At
<1>4. /\ k.pc = (IF j.cmd = "emit-go" THEN "write" ELSE "gobuild") /\ k.cmd = j.cmd
      /\ k.from = j.from /\ k.status = j.status /\ k.todo = j.todo /\ k.files = j.files
      /\ k.run = j.run /\ k.work = j.work /\ k.ran = j.ran /\ k.seen = j.seen
      /\ k.whole = j.whole
      /\ Fields \subseteq DOMAIN k
  <2>1. k = Over(changes, j)
    BY <1>1, JobFacts
  <2> QED
    BY <2>1, <1>3 DEF Over, Fields, Flow
<1>5. Flow(k) /\ Dirs(k) = Dirs(j) /\ j.work \in Dirs(j)
  BY <1>3, <1>4 DEF Flow, Cmds, Dirs
<1>6. j.work \in DOMAIN scratch /\ content.files = j.files
  BY <1>3, <1>5 DEF Holds
<1> HIDE DEF content
<1>7. /\ DOMAIN scratch' = DOMAIN scratch /\ DirsOK' /\ scratch'[j.work] = content
      /\ \A e \in DOMAIN scratch \ {j.work} : scratch'[e] = scratch[e]
  BY <1>1, <1>6, WroteDirOK DEF CInv
<1>8. Holds(k, scratch')
  <2>1. \A i \in DOMAIN Aliases : Served(content, Aliases[i])
    BY EveryAliasServed DEF content, Served, Source, CInv
  <2> QED
    BY <1>3, <1>4, <1>5, <1>6, <1>7, <2>1 DEF Holds
<1>9. Reads(k, dir)
  BY <1>3, <1>4 DEF Reads, Flow
<1>10. Made(p)'
  BY <1>3, <1>4 DEF Made, Delivers, Running
<1>11. /\ DOMAIN job' = Procs /\ \A q \in Procs \ {p} : job'[q] = job[q]
       /\ DOMAIN out' = Procs /\ \A q \in Procs \ {p} : out'[q] = out[q]
  BY <1>1, SetJob DEF CInv, Shape
<1>12. /\ \A d \in DOMAIN scratch \ Dirs(j) : d \in DOMAIN scratch' /\ scratch'[d] = scratch[d]
       /\ \A d \in DOMAIN scratch' : d \in DOMAIN scratch \ Dirs(j) \/ d \in Dirs(k)
  BY <1>5, <1>7
<1> QED
  BY <1>1, <1>2, <1>5, <1>7, <1>8, <1>9, <1>10, <1>11, <1>12, StepOfOne

-----------------------------------------------------------------------------
(* The steps that end a command.                                           *)

\* What a command that ends leaves of its job.
LEMMA EndedJob ==
  ASSUME CInv, NEW p \in Procs, NEW status, Set(p, Ended(status))
  PROVE  /\ job'[p].pc = "idle" /\ job'[p].status = status /\ job'[p].cmd = job[p].cmd
         /\ job'[p].seen = job[p].seen /\ job'[p].whole = job[p].whole
         /\ Dirs(job'[p]) = {} /\ Flow(job'[p])
         /\ Holds(job'[p], scratch') /\ Reads(job'[p], dir)
<1> DEFINE j == job[p]
           k == job'[p]
<1>1. Flow(j)
  BY JobFacts
<1>2. /\ k.pc = "idle" /\ k.status = status /\ k.cmd = j.cmd /\ k.from = j.from
      /\ k.seen = j.seen /\ k.whole = j.whole /\ k.todo = {} /\ k.files = NoFiles
      /\ k.run = NoScratch /\ k.work = NoScratch
      /\ Fields \subseteq DOMAIN k
  <2>1. k = Over(Ended(status), j)
    BY JobFacts
  <2> QED
    BY <2>1, <1>1 DEF Over, Ended, Fields, Flow
<1>3. Dirs(k) = {}
  BY <1>2 DEF Dirs
<1>4. Flow(k)
  BY <1>1, <1>2 DEF Flow, NoFiles
<1>5. Holds(k, scratch') /\ Reads(k, dir)
  BY <1>2, <1>3 DEF Holds, Reads
<1> QED
  BY <1>2, <1>3, <1>4, <1>5

\* The deferred removals take the directories of the command and no others.
LEMMA CleanupOK ==
  ASSUME CInv, NEW p \in Procs, Cleanup(p)
  PROVE  /\ DirsOK'
         /\ \A d \in DOMAIN scratch \ Dirs(job[p]) :
              d \in DOMAIN scratch' /\ scratch'[d] = scratch[d]
         /\ \A d \in DOMAIN scratch' : d \in DOMAIN scratch \ Dirs(job[p])
<1> DEFINE ds == {job[p].run, job[p].work}
<1>1. scratch' = Removed(ds) /\ DirsOK
  BY DEF Cleanup, CInv
<1>2. /\ DOMAIN scratch' = DOMAIN scratch \ ds /\ IsFiniteSet(DOMAIN scratch')
      /\ \A e \in DOMAIN scratch \ ds : scratch'[e] = scratch[e]
  <2> HIDE DEF ds
  <2> QED
    BY <1>1, RemovedOK
<1>3. DOMAIN scratch \ Dirs(job[p]) = DOMAIN scratch \ ds
  BY <1>1 DEF Dirs, DirsOK
<1> QED
  BY <1>1, <1>2, <1>3 DEF DirsOK

\* A command that ends, delivers what it should and takes its directories
\* with it.
LEMMA EndOfOne ==
  ASSUME CInv, NEW p \in Procs, NEW status, Set(p, Ended(status)), Cleanup(p),
         DOMAIN out' = Procs, \A q \in Procs \ {p} : out'[q] = out[q],
         dir' = dir, targets' = targets, litter' = litter, ArchiveOK', Made(p)'
  PROVE  CInv'
<1>1. /\ DOMAIN job' = Procs /\ \A q \in Procs \ {p} : job'[q] = job[q]
  BY SetJob DEF CInv
<1>2. Dirs(job'[p]) = {}
  BY EndedJob
<1> QED
  BY <1>1, <1>2, EndedJob, CleanupOK, StepOfOne

LEMMA FailOK ==
  ASSUME CInv, NEW p \in Procs, Fail(p)
  PROVE  CInv'
<1>1. Set(p, Ended("error")) /\ Cleanup(p) /\ UNCHANGED <<dir, targets, amlz, out, litter>>
  BY DEF Fail
<1>2. ArchiveOK' /\ DOMAIN out' = Procs
  BY <1>1, JobFacts DEF ArchiveOK, CInv
<1>3. Made(p)'
  BY <1>1, EndedJob DEF Made, Delivers
<1> QED
  BY <1>1, <1>2, <1>3, EndOfOne

LEMMA WriteOK ==
  ASSUME CInv, NEW p \in Procs, Write(p)
  PROVE  CInv'
<1> DEFINE j == job[p]
<1>1. Cleanup(p) /\ UNCHANGED <<dir, targets, amlz, litter>>
  BY DEF Write
<1>2. ArchiveOK'
  BY <1>1 DEF ArchiveOK, CInv
<1>3. j.pc = "write" /\ Flow(j) /\ Reads(j, dir) /\ DOMAIN out = Procs
  BY JobFacts DEF Write, At
<1>4. CASE /\ out' = [out EXCEPT ![p] = [kind |-> j.cmd, files |-> j.files]]
           /\ Set(p, Ended("ok"))
  <2>1. out'[p].kind = j.cmd /\ out'[p].files = j.files
    BY <1>3, <1>4
  <2>2. j.whole => \A n \in Names : j.files[n] \in j.seen[n]
    BY <1>3 DEF Reads, Flow
  <2>3. j.cmd \in {"emit-ir", "emit-go"}
    BY <1>3 DEF Flow
  <2>4. Delivered(p)' = out'[p] /\ Kind(j.cmd) = j.cmd
    BY <1>4, <2>3, EndedJob DEF Delivered, Kind
  <2>5. Made(p)'
    <3>1. Kind(j.cmd) # "binary"
      BY <2>3, <2>4
    <3> QED
      BY <1>4, <2>1, <2>2, <2>4, <3>1, EndedJob DEF Made
  <2>6. DOMAIN out' = Procs /\ \A q \in Procs \ {p} : out'[q] = out[q]
    BY <1>3, <1>4
  <2> QED
    BY <1>1, <1>2, <1>4, <2>5, <2>6, EndOfOne
<1>5. CASE \E left \in {out[p], CutFile} :
             out' = [out EXCEPT ![p] = left] /\ Set(p, Ended("error"))
  <2>1. Set(p, Ended("error"))
    BY <1>5
  <2>2. Made(p)'
    BY <2>1, EndedJob DEF Made, Delivers
  <2>3. DOMAIN out' = Procs /\ \A q \in Procs \ {p} : out'[q] = out[q]
    BY <1>3, <1>5
  <2> QED
    BY <1>1, <1>2, <2>1, <2>2, <2>3, EndOfOne
<1> QED
  BY <1>4, <1>5 DEF Write

LEMMA MemberFailsOK ==
  ASSUME CInv, NEW p \in Procs, MemberFails(p)
  PROVE  CInv'
<1>1. Set(p, Ended("error")) /\ UNCHANGED <<dir, targets, out, scratch, litter>>
  BY DEF MemberFails
<1>2. PICK left \in LeftMembers(p), kind \in {"zip", "open"} :
        amlz' = ZipFile(kind, left, p, FALSE)
  BY DEF MemberFails
<1>3. job[p].pc = "member" /\ Flow(job[p])
  BY JobFacts DEF MemberFails, At
<1>4. DOMAIN left = Names
  BY <1>3 DEF LeftMembers, Flow
<1>5. ArchiveOK'
  BY <1>2, <1>4 DEF ZipFile, ArchiveOK
<1>6. Dirs(job[p]) = {}
  BY <1>3 DEF Flow, Dirs
<1>7. Made(p)'
  BY <1>1, EndedJob DEF Made, Delivers
<1>8. Holds(job'[p], scratch)
  BY <1>1, EndedJob
<1> QED
  BY <1>1, <1>5, <1>6, <1>7, <1>8, EndedJob, QuietStep

LEMMA CloseArchiveOK ==
  ASSUME CInv, NEW p \in Procs, CloseArchive(p)
  PROVE  CInv'
<1> DEFINE j == job[p]
<1>1. UNCHANGED <<dir, targets, out, scratch, litter>>
  BY DEF CloseArchive
<1>2. j.pc = "member" /\ j.todo = {} /\ Flow(j) /\ Reads(j, dir)
  BY JobFacts DEF CloseArchive, At
<1>3. \A n \in Names : j.files[n] \in j.seen[n]
  BY <1>2 DEF Reads, Flow
<1>4. Dirs(j) = {}
  BY <1>2 DEF Flow, Dirs
<1>5. PICK kind, reported, status :
        /\ amlz' = ZipFile(kind, j.files, p, reported) /\ Set(p, Ended(status))
  BY DEF CloseArchive
<1>6. ArchiveOK'
  <2>1. amlz'.members = j.files /\ amlz'.seen = j.seen
    BY <1>5 DEF ZipFile
  <2> QED
    BY <1>2, <1>3, <2>1 DEF ArchiveOK, Flow
<1>7. Made(p)'
  BY <1>2, <1>5, EndedJob DEF Made, Delivers, Flow
<1>8. Holds(job'[p], scratch)
  BY <1>1, <1>5, EndedJob
<1> QED
  BY <1>1, <1>4, <1>5, <1>6, <1>7, <1>8, EndedJob, QuietStep

\* A killed command leaves its directories, and its directories only.
LEMMA KillOK ==
  ASSUME CInv, NEW p \in Procs, Kill(p)
  PROVE  CInv'
<1> DEFINE j == job[p]
<1>1. /\ Set(p, Ended("killed")) /\ UNCHANGED <<dir, targets, amlz, scratch>>
      /\ litter' = litter \cup Dirs(j)
  BY DEF Kill, Dirs
<1>2. ArchiveOK' /\ DirsOK'
  BY <1>1 DEF ArchiveOK, DirsOK, CInv
<1>3. DOMAIN out' = Procs /\ \A q \in Procs \ {p} : out'[q] = out[q]
  BY DEF Kill, CInv, Shape
<1>4. Made(p)'
  BY <1>1, EndedJob DEF Made, Delivers
<1>5. DOMAIN job' = Procs /\ \A q \in Procs \ {p} : job'[q] = job[q]
  BY <1>1, SetJob DEF CInv
<1>6. \A d \in DOMAIN scratch' : d \in DOMAIN scratch \ Dirs(j) \/ d \in litter'
  BY <1>1
<1>7. Dirs(job'[p]) = {}
  BY <1>1, EndedJob
<1> QED
  BY <1>1, <1>2, <1>3, <1>4, <1>5, <1>6, <1>7, EndedJob, StepOfOne

\* The program of run has ended: its directory goes, or stays as litter.
LEMMA ExecOK ==
  ASSUME CInv, NEW p \in Procs, Exec(p)
  PROVE  CInv'
<1> DEFINE j == job[p]
           k == job'[p]
<1>1. UNCHANGED <<dir, targets, out, amlz>>
  BY DEF Exec
<1>2. ArchiveOK'
  BY <1>1 DEF ArchiveOK, CInv
<1>3. j.pc = "exec" /\ Flow(j) /\ Holds(j, scratch) /\ Reads(j, dir)
  BY JobFacts DEF Exec, At
<1>4. Dirs(j) = {j.run}
  BY <1>3 DEF Flow, Dirs
<1>5. PICK status : Set(p, Over(Result(p), Ended(status)))
  BY DEF Exec
<1>6. /\ k.pc = "idle" /\ k.status = status /\ k.cmd = j.cmd /\ k.from = j.from
      /\ k.seen = j.seen /\ k.whole = j.whole /\ k.todo = {} /\ k.files = NoFiles
      /\ k.run = NoScratch /\ k.work = NoScratch /\ k.ran = scratch[j.run]
      /\ Fields \subseteq DOMAIN k
  <2>1. k = Over(Over(Result(p), Ended(status)), j)
    BY <1>5, JobFacts
  <2> QED
    BY <2>1, <1>3 DEF Over, Ended, Result, Fields, Flow
<1>7. Flow(k) /\ Dirs(k) = {}
  BY <1>3, <1>6 DEF Flow, NoFiles, Dirs
<1>8. Holds(k, scratch') /\ Reads(k, dir)
  BY <1>6, <1>7 DEF Holds, Reads
<1>9. Made(p)'
  <2>1. Delivered(p)' = scratch[j.run] /\ Kind(k.cmd) = "binary"
    BY <1>3, <1>6 DEF Delivered, Kind, Flow
  <2>2. scratch[j.run].kind = "binary" /\ scratch[j.run].files = j.files
    BY <1>3 DEF Holds
  <2>3. j.whole => \A n \in Names : j.files[n] \in j.seen[n]
    BY <1>3 DEF Reads, Flow
  <2>4. Imports(Delivered(p))'
    BY <1>1, <1>3, <2>1 DEF Holds, Imports
  <2> QED
    BY <1>6, <2>1, <2>2, <2>3, <2>4 DEF Made
<1>10. /\ DOMAIN job' = Procs /\ \A q \in Procs \ {p} : job'[q] = job[q]
       /\ DOMAIN out' = Procs /\ \A q \in Procs \ {p} : out'[q] = out[q]
  BY <1>1, <1>5, SetJob DEF CInv, Shape
<1>11. /\ DirsOK' /\ litter \subseteq litter'
       /\ \A d \in DOMAIN scratch \ Dirs(j) : d \in DOMAIN scratch' /\ scratch'[d] = scratch[d]
       /\ \A d \in DOMAIN scratch' : d \in DOMAIN scratch \ Dirs(j) \/ d \in litter'
  <2>1. CASE Cleanup(p) /\ UNCHANGED litter
    BY <2>1, CleanupOK
  <2>2. CASE litter' = litter \cup {j.run} /\ UNCHANGED scratch
    BY <1>4, <2>2 DEF DirsOK, CInv
  <2> QED
    BY <2>1, <2>2 DEF Exec
<1> QED
  BY <1>1, <1>2, <1>7, <1>8, <1>9, <1>10, <1>11, StepOfOne

\* go build: to the output path and the end, or to the directory of run.
LEMMA GoBuildOK ==
  ASSUME CInv, NEW p \in Procs, GoBuild(p)
  PROVE  CInv'
<1> DEFINE j == job[p]
           k == job'[p]
           binary == Linked(j.work)
<1>1. UNCHANGED <<dir, targets, amlz, litter>>
  BY DEF GoBuild
<1>2. ArchiveOK'
  BY <1>1 DEF ArchiveOK, CInv
<1>3. j.pc = "gobuild" /\ Flow(j) /\ Holds(j, scratch) /\ Reads(j, dir) /\ DOMAIN out = Procs
  BY JobFacts DEF GoBuild, At
<1>4. binary.kind = "binary" /\ binary.files = j.files
  BY <1>3 DEF Linked, Holds
<1>5. /\ j.whole => \A n \in Names : j.files[n] \in j.seen[n]
      /\ Imports(binary)
  <2>1. \A i \in DOMAIN Aliases : Served(scratch[j.work], Aliases[i])
    BY <1>3 DEF Holds
  <2> QED
    BY <1>3, <2>1 DEF Reads, Flow, Imports, Linked, Served, Source
<1>6. j.work # NoScratch /\ j.work \in DOMAIN scratch /\ NoScratch \notin DOMAIN scratch
  BY <1>3 DEF Flow, Holds, Dirs, CInv, DirsOK
<1>7. CASE j.cmd = "build"
  <2>1. /\ out' = [out EXCEPT ![p] = binary] /\ Set(p, Ended("ok"))
        /\ scratch' = Removed({j.work})
    BY <1>7 DEF GoBuild
  <2>2. Cleanup(p)
    <3>1. DOMAIN scratch \ {j.work} = DOMAIN scratch \ {j.run, j.work}
      BY <1>3, <1>6, <1>7 DEF Flow
    <3> QED
      BY <2>1, <3>1 DEF Cleanup, Removed
  <2> HIDE DEF binary
  <2>3. out'[p] = binary /\ DOMAIN out' = Procs /\ \A q \in Procs \ {p} : out'[q] = out[q]
    BY <1>3, <2>1
  <2>4. Delivered(p)' = binary /\ Kind(j.cmd) = "binary"
    BY <1>7, <2>1, <2>3, EndedJob DEF Delivered, Kind
  <2>5. Made(p)'
    <3>1. Imports(Delivered(p))'
      BY <1>1, <1>5, <2>4 DEF Imports
    <3> QED
      BY <1>4, <1>5, <2>1, <2>4, <3>1, EndedJob DEF Made
  <2> QED
    BY <1>1, <1>2, <2>1, <2>2, <2>3, <2>5, EndOfOne
<1>8. CASE j.cmd = "run"
  <2> DEFINE changes == [work |-> NoScratch, pc |-> "exec"]
  <2>1. /\ Set(p, changes) /\ UNCHANGED out
        /\ scratch' = Holding(j.run, binary, Removed({j.work}))
    BY <1>8 DEF GoBuild
  <2>2. /\ k.pc = "exec" /\ k.cmd = j.cmd /\ k.from = j.from /\ k.status = j.status
        /\ k.todo = j.todo /\ k.files = j.files /\ k.run = j.run /\ k.work = NoScratch
        /\ k.ran = j.ran /\ k.seen = j.seen /\ k.whole = j.whole
        /\ Fields \subseteq DOMAIN k
    <3>1. k = Over(changes, j)
      BY <2>1, JobFacts
    <3> QED
      BY <3>1, <1>3 DEF Over, Fields, Flow
  <2>3. Flow(k)
    BY <1>3, <1>8, <2>2 DEF Flow, Cmds
  <2>4. j.run # NoScratch /\ j.run # j.work /\ Dirs(j) = {j.run, j.work} /\ Dirs(k) = {j.run}
    BY <1>3, <1>6, <1>8, <2>2 DEF Flow, Holds, Dirs
  <2>5. j.run \in DOMAIN scratch \ {j.work}
    BY <1>3, <2>4 DEF Holds
  <2> HIDE DEF binary
  <2>6. /\ DOMAIN scratch' = DOMAIN scratch \ {j.work} /\ scratch'[j.run] = binary
        /\ \A d \in DOMAIN scratch \ {j.run, j.work} : scratch'[d] = scratch[d]
    BY <2>1, <2>5 DEF Holding, Over, Removed
  <2>7. DirsOK'
    BY <2>6, FS_Subset DEF DirsOK, CInv
  <2>8. Holds(k, scratch')
    BY <1>4, <1>5, <2>2, <2>4, <2>5, <2>6 DEF Holds
  <2>9. Reads(k, dir)
    BY <1>3, <2>2 DEF Reads, Flow
  <2>10. Made(p)'
    BY <2>2 DEF Made, Delivers, Running
  <2>11. /\ DOMAIN job' = Procs /\ \A q \in Procs \ {p} : job'[q] = job[q]
         /\ DOMAIN out' = Procs /\ \A q \in Procs \ {p} : out'[q] = out[q]
    BY <2>1, SetJob DEF CInv, Shape
  <2>12. /\ \A d \in DOMAIN scratch \ Dirs(j) : d \in DOMAIN scratch' /\ scratch'[d] = scratch[d]
         /\ \A d \in DOMAIN scratch' : d \in DOMAIN scratch \ Dirs(j) \/ d \in Dirs(k)
         /\ \A d \in Dirs(k) : d \in Dirs(j)
    BY <2>4, <2>6
  <2> QED
    BY <1>1, <1>2, <2>3, <2>7, <2>8, <2>9, <2>10, <2>11, <2>12, StepOfOne
<1> QED
  BY <1>3, <1>7, <1>8 DEF Flow

-----------------------------------------------------------------------------
(* The author's edits and the whole specification.                         *)

\* An edit adds to what the jobs have seen and changes nothing they have.
LEMMA EditOK ==
  ASSUME CInv, NEW n \in Names, Edit(n)
  PROVE  CInv'
<1>1. PICK v : /\ dir' = [dir EXCEPT ![n] = v]
               /\ job' = [p \in Procs |->
                            IF Running(p) /\ job[p].whole /\ job[p].from = "dir"
                            THEN [job[p] EXCEPT !.seen[n] = @ \cup {v}] ELSE job[p]]
  BY DEF Edit
<1>2. UNCHANGED <<targets, amlz, out, scratch, litter>>
  BY DEF Edit
<1>3. Shape'
  BY <1>1, <1>2 DEF CInv, Shape
<1>4. ASSUME NEW p \in Procs
      PROVE  /\ \A f \in Fields \ {"seen"} : job'[p][f] = job[p][f]
             /\ DOMAIN job'[p] = DOMAIN job[p]
             /\ job[p].from = "dir" => DOMAIN job'[p].seen = Names
             /\ job[p].pc # "idle" /\ job[p].from = "dir" =>
                  \A m \in Names : job'[p].seen[m] = job[p].seen[m] \cup IF m = n THEN {v} ELSE {}
             /\ job[p].pc = "idle" \/ job[p].from # "dir" => job'[p].seen = job[p].seen
  BY <1>1, JobFacts DEF Fields, Flow, Running
<1>5. ASSUME NEW p \in Procs
      PROVE  Flow(job'[p]) /\ Holds(job'[p], scratch') /\ Reads(job'[p], dir') /\ Made(p)'
             /\ Dirs(job'[p]) = Dirs(job[p])
  <2> DEFINE j == job[p]
             k == job'[p]
  <2>1. /\ k.pc = j.pc /\ k.cmd = j.cmd /\ k.from = j.from /\ k.status = j.status
        /\ k.todo = j.todo /\ k.files = j.files /\ k.run = j.run /\ k.work = j.work
        /\ k.ran = j.ran /\ k.whole = j.whole /\ DOMAIN k = DOMAIN j
    BY <1>4 DEF Fields
  <2>2. Flow(j) /\ Holds(j, scratch) /\ Reads(j, dir) /\ Made(p) /\ DOMAIN dir = Names
    BY JobFacts
  <2>3. Flow(k) /\ Dirs(k) = Dirs(j)
    BY <1>4, <2>1, <2>2 DEF Flow, Dirs
  <2>4. Holds(k, scratch')
    BY <1>2, <2>1, <2>2, <2>3 DEF Holds
  <2>5. Reads(k, dir')
    <3>1. ASSUME k.pc # "idle", k.from = "dir", NEW m \in Names PROVE dir'[m] \in k.seen[m]
      <4>1. k.seen[m] = j.seen[m] \cup IF m = n THEN {v} ELSE {}
        BY <1>4, <2>1, <3>1
      <4>2. dir[m] \in j.seen[m]
        BY <2>1, <2>2, <3>1 DEF Reads
      <4> QED
        BY <1>1, <2>2, <4>1, <4>2
    <3>2. ASSUME k.pc \notin {"idle", "rundir", "list"}, k.whole, NEW m \in Names \ k.todo
          PROVE  k.files[m] \in k.seen[m]
      <4>1. j.files[m] \in j.seen[m]
        BY <2>1, <2>2, <3>2 DEF Reads
      <4> QED
        BY <1>4, <2>1, <3>2, <4>1
    <3> QED
      BY <3>1, <3>2 DEF Reads
  <2>6. Made(p)'
    <3>1. j.pc = "idle" => k.seen = j.seen
      BY <1>4
    <3> QED
      BY <1>2, <2>1, <2>2, <3>1 DEF Made, Delivers, Delivered, Running, Imports
  <2> QED
    BY <2>3, <2>4, <2>5, <2>6
<1>6. JobsOK' /\ Private'
  BY <1>2, <1>5, SameTargets DEF JobsOK, Private, CInv
<1>7. ScratchGoesAway'
  <2>1. \A p \in Procs : job'[p].pc = job[p].pc /\ job'[p].run = job[p].run
                         /\ job'[p].work = job[p].work
    BY <1>4 DEF Fields
  <2> QED
    BY <1>2, <2>1 DEF ScratchGoesAway, Running, CInv
<1>8. DirsOK' /\ ArchiveOK'
  BY <1>2 DEF DirsOK, ArchiveOK, CInv
<1> QED
  BY <1>2, <1>3, <1>6, <1>7, <1>8 DEF CInv

LEMMA InitOK ==
  ASSUME Init
  PROVE  CInv
<1>1. DOMAIN scratch = {}
  BY DEF Init
<1>2. Shape
  BY DEF Init, Shape
<1>3. DirsOK /\ ScratchGoesAway
  BY <1>1, FS_EmptySet DEF DirsOK, ScratchGoesAway
<1>4. ASSUME NEW p \in Procs
      PROVE  Flow(job[p]) /\ Holds(job[p], scratch) /\ Reads(job[p], dir) /\ Made(p)
             /\ Dirs(job[p]) = {}
  <2>1. job[p] = Idle
    BY DEF Init
  <2>2. Flow(Idle) /\ Dirs(Idle) = {}
    BY DEF Flow, Idle, Fields, NoFiles, NothingSeen, Dirs, NoScratch
  <2>3. Holds(Idle, scratch) /\ Reads(Idle, dir)
    BY <2>2 DEF Holds, Reads, Idle
  <2>4. Made(p)
    BY <2>1 DEF Made, Delivers, Idle
  <2> QED
    BY <2>1, <2>2, <2>3, <2>4
<1>5. JobsOK /\ Private
  BY <1>4 DEF JobsOK, Private
<1>6. ArchiveOK
  BY DEF Init, ArchiveOK
<1> QED
  BY <1>2, <1>3, <1>5, <1>6 DEF CInv, Init

LEMMA NextOK ==
  ASSUME CInv, [Next]_vars
  PROVE  CInv'
<1>1. ASSUME NEW p \in Procs, NEW from \in {"dir", "archive"}, NEW cmd \in Cmds,
             Start(p, cmd, from)
      PROVE  CInv'
  BY <1>1, StartOK
<1>2. ASSUME NEW p \in Procs,
             \/ MakeRunDir(p) \/ List(p) \/ OpenArchive(p) \/ ReadFile(p)
             \/ CreateArchive(p) \/ AddMember(p) \/ MemberFails(p) \/ CloseArchive(p)
      PROVE  CInv'
  BY <1>2, MakeRunDirOK, ListOK, OpenArchiveOK, ReadFileOK, CreateArchiveOK, AddMemberOK,
     MemberFailsOK, CloseArchiveOK
<1>3. ASSUME NEW p \in Procs,
             \/ Compile(p) \/ MakeWorkDir(p) \/ Prepare(p) \/ Amivm(p) \/ GoBuild(p)
             \/ Exec(p) \/ Write(p) \/ Fail(p) \/ Kill(p)
      PROVE  CInv'
  BY <1>3, CompileOK, MakeWorkDirOK, PrepareOK, AmivmOK, GoBuildOK, ExecOK, WriteOK, FailOK,
     KillOK
<1>4. ASSUME NEW n \in Names, Edit(n) PROVE CInv'
  BY <1>4, EditOK
<1>5. CASE UNCHANGED vars
  <2>1. Shape' /\ DirsOK' /\ Private' /\ ArchiveOK' /\ ScratchGoesAway'
    BY <1>5 DEF vars, CInv, Shape, DirsOK, Private, ArchiveOK, ScratchGoesAway, Running
  <2>2. JobsOK'
    BY <1>5 DEF vars, CInv, JobsOK, Made, Delivers, Delivered, Running, Holds, Imports, Served,
                Source
  <2> QED
    BY <1>5, <2>1, <2>2 DEF vars, CInv
<1> QED
  BY <1>1, <1>2, <1>3, <1>4, <1>5 DEF Next, Cmds

(* The invariant of the commands: the stages of every job, the privacy of   *)
(* its scratch directories, and that it has read what the source directory *)
(* held meanwhile (cmd/amifl).                                             *)
THEOREM CommandsInvariant == Spec => []CInv
<1>1. Init => CInv
  BY InitOK
<1>2. CInv /\ [Next]_vars => CInv'
  BY NextOK
<1> QED
  BY <1>1, <1>2, PTL DEF Spec

(* No command leaves a scratch directory behind but by being killed or by   *)
(* passing on the exit code of the program it ran, however many processes  *)
(* work at a time and whichever of their steps fail.                       *)
THEOREM ScratchGoesAwayAlways == Spec => []ScratchGoesAway
<1>1. CInv => ScratchGoesAway
  BY DEF CInv
<1> QED
  BY <1>1, CommandsInvariant, PTL

(* What a command makes of an archive whose path was printed is every file  *)
(* of the directory, each as it was at some time while the archive was     *)
(* made, for every directory and every sequence of commands and edits.     *)
THEOREM ArchiveStandsForDirectoryAlways == Spec => []ArchiveStandsForDirectory
<1>1. CInv => ArchiveStandsForDirectory
  BY DEF CInv, JobsOK, Made, ArchiveStandsForDirectory
<1> QED
  BY <1>1, CommandsInvariant, PTL

(* A command that reports success has delivered what it was asked for, made *)
(* of files the directory had while it ran, and each extern alias of its   *)
(* binary has the Go code of the target its extern block names, however    *)
(* many aliases share a local directory (compileToGo, compileToBinary).    *)
THEOREM ReportedIsCompleteAlways == Spec => []ReportedIsComplete
<1>1. CInv => ReportedIsComplete
  BY DEF CInv, JobsOK, Made, ReportedIsComplete, Flow, Imports
<1> QED
  BY <1>1, CommandsInvariant, PTL

=============================================================================
