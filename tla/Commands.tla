------------------------------ MODULE Commands ------------------------------
(***************************************************************************)
(* The amifl command (cmd/amifl): build, run, emit-ir, emit-go and         *)
(* archive, run by several processes at a time over one source directory   *)
(* that its author may edit meanwhile.                                     *)
(*                                                                         *)
(* A process works on private scratch directories of the system's temporary *)
(* directory and on files at paths the user chose.  Every step that reads  *)
(* or writes may fail, and the process may be killed before or in any      *)
(* step.  A file is its version; what the compiler makes of the files is   *)
(* the files themselves, and it may refuse any.                            *)
(***************************************************************************)
EXTENDS Integers, Sequences, FiniteSets, SequencesExt, FiniteSetsExt

CONSTANTS
  Procs,        \* the processes, each with an output path of its own
  Names,        \* the names of the .aml files, as numbers: sort.Strings
  Aliases,      \* the extern aliases, sorted
  LocalDirs,    \* directories of hand-written .go files
  Targets,      \* the tables alias |-> local directory or Go import path
  MaxVersion,   \* bound: versions of a file
  MaxEdits,     \* bound: edits of the author
  MaxCommands   \* bound: commands started

\* The copy of a local directory is a subdirectory of the scratch module.
ExternName(i) == "extern" \o ToString(i)

\* The copies have a name each, which is no import path of a program: the
\* scratch module is nothing that a program could import from elsewhere.
ASSUME CommandsAssumption ==
  /\ Names \subseteq Nat /\ IsFiniteSet(Names)
  /\ {MaxVersion, MaxEdits, MaxCommands} \subseteq Nat
  /\ Aliases \in Seq(ToSet(Aliases))
  /\ \A i, j \in 0 .. Len(Aliases) : ExternName(i) = ExternName(j) => i = j
  /\ \A t \in Targets, i \in DOMAIN Aliases, k \in 0 .. Len(Aliases) :
       t[Aliases[i]] = ExternName(k) => t[Aliases[i]] \in LocalDirs

VARIABLES
  dir,       \* the source directory: name |-> version, or Absent
  targets,   \* what the extern blocks of the program bind
  amlz,      \* the .amlz archive
  out,       \* process |-> the file at its output path
  scratch,   \* scratch directory |-> what it holds, for those that exist
  litter,    \* ghost: those a kill or a program's exit code left behind
  job,       \* process |-> its command
  edits, commands

vars == <<dir, targets, amlz, out, scratch, litter, job, edits, commands>>

Absent == 0
Cut == -1   \* a file whose writing stopped half way
NoFiles == [n \in Names |-> Absent]
Missing == [kind |-> "missing"]
CutFile == [kind |-> "cut"]
NoScratch == 0
NothingSeen == [n \in Names |-> {}]
Present == {n \in Names : dir[n] # Absent}
Idle == [pc |-> "idle", cmd |-> "none", from |-> "dir", status |-> "none",
         todo |-> {}, files |-> NoFiles, run |-> NoScratch, work |-> NoScratch,
         ran |-> Missing, seen |-> NothingSeen, whole |-> TRUE]

Init ==
  /\ dir = [n \in Names |-> 1]
  /\ targets \in Targets
  /\ amlz = [kind |-> "missing"]
  /\ out = [p \in Procs |-> Missing]
  /\ scratch = << >> /\ litter = {}
  /\ job = [p \in Procs |-> Idle]
  /\ edits = 0 /\ commands = 0

Running(p) == job[p].pc # "idle"
At(p, pc) == job[p].pc = pc
\* f, and g where f has no value (f @@ g of TLC, which the provers do not know).
Over(f, g) == [x \in DOMAIN f \cup DOMAIN g |-> IF x \in DOMAIN f THEN f[x] ELSE g[x]]
Set(p, changes) == job' = [job EXCEPT ![p] = Over(changes, @)]
Ended(status) == [pc |-> "idle", status |-> status, todo |-> {}, files |-> NoFiles,
                  run |-> NoScratch, work |-> NoScratch]

\* os.MkdirTemp: a name that no directory has.
NewDir == CHOOSE d \in 1 .. (Cardinality(DOMAIN scratch) + 1) : d \notin DOMAIN scratch
Holding(k, value, f) == Over([e \in {k} |-> value], f)
With(d, content) == Holding(d, content, scratch)
Removed(ds) == [d \in DOMAIN scratch \ ds |-> scratch[d]]

\* The deferred calls of os.RemoveAll and the cleanup of compileToGo: a
\* command that returns removes the scratch directories it has made.
Cleanup(p) == scratch' = Removed({job[p].run, job[p].work})

-----------------------------------------------------------------------------
(* One command up to its sources.                                          *)

\* The sources are the directory, or the archive made of it.  What the
\* author had in the files while the command ran is kept in seen.
Start(p, cmd, from) ==
  /\ ~Running(p) /\ commands < MaxCommands
  /\ cmd = "archive" => from = "dir" /\ \A q \in Procs : Running(q) => job[q].cmd # "archive"
  /\ commands' = commands + 1
  /\ Set(p, [Idle EXCEPT !.pc = IF cmd = "run" THEN "rundir" ELSE "list", !.cmd = cmd,
                         !.from = from, !.status = "running",
                         !.seen = [n \in Names |-> {dir[n]}]])
  /\ UNCHANGED <<dir, targets, amlz, out, scratch, litter, edits>>

\* runRun makes its directory before it looks at the sources.
MakeRunDir(p) ==
  /\ At(p, "rundir")
  /\ scratch' = With(NewDir, Missing)
  /\ Set(p, [run |-> NewDir, pc |-> "list"])
  /\ UNCHANGED <<dir, targets, amlz, out, litter, edits, commands>>

\* os.ReadDir; a directory without .aml files is an error.
List(p) ==
  /\ At(p, "list") /\ job[p].from = "dir" /\ Present # {}
  /\ Set(p, [todo |-> Present, pc |-> IF job[p].cmd = "archive" THEN "create" ELSE "read"])
  /\ UNCHANGED <<dir, targets, amlz, out, scratch, litter, edits, commands>>

\* readArchiveAmlFiles: what zip.OpenReader accepts, which is what
\* zip.Writer.Close ended, however many members it has.
OpenArchive(p) ==
  /\ At(p, "list") /\ job[p].from = "archive"
  /\ amlz.kind = "zip" /\ amlz.members # NoFiles
  /\ Set(p, [files |-> amlz.members, seen |-> amlz.seen, whole |-> amlz.reported,
             pc |-> "compile"])
  /\ UNCHANGED <<dir, targets, amlz, out, scratch, litter, edits, commands>>

NextName(p) == Min(job[p].todo)

\* os.ReadFile of the next name; the file may be gone since it was listed.
ReadFile(p) ==
  /\ At(p, "read") /\ job[p].todo # {} /\ dir[NextName(p)] # Absent
  /\ Set(p, [files |-> [job[p].files EXCEPT ![NextName(p)] = dir[NextName(p)]],
             todo |-> job[p].todo \ {NextName(p)}])
  /\ UNCHANGED <<dir, targets, amlz, out, scratch, litter, edits, commands>>

-----------------------------------------------------------------------------
(* amifl archive.                                                          *)

ZipFile(kind, files, p, reported) ==
  [kind |-> kind, members |-> files, seen |-> job[p].seen, reported |-> reported]

\* os.Create truncates what the path held.
CreateArchive(p) ==
  /\ At(p, "create")
  /\ amlz' = ZipFile("open", NoFiles, p, FALSE)
  /\ Set(p, [pc |-> "member"])
  /\ UNCHANGED <<dir, targets, out, scratch, litter, edits, commands>>

AddMember(p) ==
  /\ At(p, "member") /\ job[p].todo # {} /\ dir[NextName(p)] # Absent
  /\ Set(p, [files |-> [job[p].files EXCEPT ![NextName(p)] = dir[NextName(p)]],
             todo |-> job[p].todo \ {NextName(p)}])
  /\ UNCHANGED <<dir, targets, amlz, out, scratch, litter, edits, commands>>

\* What has been written when a member fails, which may be there in part.
LeftMembers(p) ==
  {job[p].files} \cup
  {[job[p].files EXCEPT ![n] = Cut] : n \in {m \in job[p].todo : m = NextName(p) /\ dir[m] # Absent}}

\* Mutation: a file that cannot be read is left out.
MemberSkipped(p) ==
  /\ At(p, "member") /\ job[p].todo # {}
  /\ Set(p, [todo |-> job[p].todo \ {NextName(p)}])
  /\ UNCHANGED <<dir, targets, amlz, out, scratch, litter, edits, commands>>

\* zip.Writer.Close after an error ends the archive as if it were complete,
\* unless it fails too.
MemberFails(p) ==
  /\ At(p, "member") /\ job[p].todo # {}
  /\ \E left \in LeftMembers(p), kind \in {"zip", "open"} : amlz' = ZipFile(kind, left, p, FALSE)
  /\ Set(p, Ended("error"))
  /\ UNCHANGED <<dir, targets, out, scratch, litter, edits, commands>>

\* The last Close writes the directory of the zip; its error is the command's.
CloseArchive(p) ==
  /\ At(p, "member") /\ job[p].todo = {}
  /\ \/ amlz' = ZipFile("zip", job[p].files, p, TRUE) /\ Set(p, Ended("ok"))
     \/ amlz' = ZipFile("open", job[p].files, p, FALSE) /\ Set(p, Ended("error"))
  /\ UNCHANGED <<dir, targets, out, scratch, litter, edits, commands>>

-----------------------------------------------------------------------------
(* compileToIR, compileToGo, compileToBinary and what the commands do with *)
(* their results.                                                          *)

\* The checker and the generator accepted the program.
Compile(p) ==
  /\ At(p, "compile") \/ (At(p, "read") /\ job[p].todo = {})
  /\ Set(p, [pc |-> IF job[p].cmd = "emit-ir" THEN "write" ELSE "workdir"])
  /\ UNCHANGED <<dir, targets, amlz, out, scratch, litter, edits, commands>>

\* The scratch module: main.ir, go.mod and amiflrt are written to it.
MakeWorkDir(p) ==
  /\ At(p, "workdir")
  /\ scratch' = With(NewDir, Missing)
  /\ Set(p, [work |-> NewDir, pc |-> "prepare"])
  /\ UNCHANGED <<dir, targets, amlz, out, litter, edits, commands>>

Prepare(p) ==
  /\ At(p, "prepare")
  /\ scratch' = With(job[p].work, [kind |-> "ir", files |-> job[p].files])
  /\ Set(p, [pc |-> "amivm"])
  /\ UNCHANGED <<dir, targets, amlz, out, litter, edits, commands>>

\* Mutation: localScratchNames is never written.
CopyExternUnrecorded(done, alias) ==
  LET target == targets[alias]
      name == ExternName(Cardinality(DOMAIN done.names))
  IN  [done EXCEPT !.args = Holding(alias, IF target \in LocalDirs THEN name ELSE target, @),
                   !.copies = IF target \in LocalDirs THEN Holding(name, target, @) ELSE @]

\* The loop over externImports: a local directory is copied once, to a
\* subdirectory of its own, however many aliases name it.
CopyExtern(done, alias) ==
  LET target == targets[alias]
      name == IF target \in DOMAIN done.names THEN done.names[target]
              ELSE ExternName(Cardinality(DOMAIN done.names))
  IN  IF target \notin LocalDirs
      THEN [done EXCEPT !.args = Holding(alias, target, @)]
      ELSE [args |-> Holding(alias, name, done.args),
            names |-> Holding(target, name, done.names),
            copies |-> Holding(name, target, done.copies)]

\* What the first i aliases have come to, and all of them.
CopyExterns[i \in 0 .. Len(Aliases)] ==
  IF i = 0 THEN [args |-> << >>, names |-> << >>, copies |-> << >>]
  ELSE CopyExtern(CopyExterns[i - 1], Aliases[i])
Externs == CopyExterns[Len(Aliases)]

\* amivm makes Go of main.ir, with one import for each alias.
Amivm(p) ==
  LET d == job[p].work
  IN  /\ At(p, "amivm")
      /\ scratch' = With(d, [kind |-> "go", files |-> scratch[d].files,
                             args |-> Externs.args, copies |-> Externs.copies])
      /\ Set(p, [pc |-> IF job[p].cmd = "emit-go" THEN "write" ELSE "gobuild"])
      /\ UNCHANGED <<dir, targets, amlz, out, litter, edits, commands>>

\* The Go source that an alias of the binary ends up with.
Linked(d) ==
  [kind |-> "binary", files |-> scratch[d].files,
   externs |-> [a \in DOMAIN scratch[d].args |->
                  IF scratch[d].args[a] \in DOMAIN scratch[d].copies
                  THEN scratch[d].copies[scratch[d].args[a]] ELSE scratch[d].args[a]]]

\* go build writes to the output path, or into the directory of run; the
\* scratch module is removed on the way out of compileToBinary.
GoBuild(p) ==
  /\ At(p, "gobuild")
  /\ IF job[p].cmd = "build"
     THEN /\ out' = [out EXCEPT ![p] = Linked(job[p].work)]
          /\ scratch' = Removed({job[p].work})
          /\ Set(p, Ended("ok"))
     ELSE /\ scratch' = Holding(job[p].run, Linked(job[p].work), Removed({job[p].work}))
          /\ Set(p, [work |-> NoScratch, pc |-> "exec"])
          /\ UNCHANGED out
  /\ UNCHANGED <<dir, targets, amlz, litter, edits, commands>>

Result(p) == [ran |-> scratch[job[p].run]]

\* runRun: the program runs to its end.  os.Exit passes its exit code on and
\* skips the deferred removal.
Exec(p) ==
  /\ At(p, "exec")
  /\ \/ Cleanup(p) /\ Set(p, Over(Result(p), Ended("ok"))) /\ UNCHANGED litter
     \/ /\ litter' = litter \cup {job[p].run}
        /\ Set(p, Over(Result(p), Ended("exit")))
        /\ UNCHANGED scratch
  /\ UNCHANGED <<dir, targets, amlz, out, edits, commands>>

\* os.WriteFile of the text of emit-ir and emit-go.
Write(p) ==
  /\ At(p, "write")
  /\ \/ /\ out' = [out EXCEPT ![p] = [kind |-> job[p].cmd, files |-> job[p].files]]
        /\ Set(p, Ended("ok"))
     \/ \E left \in {out[p], CutFile} :
          out' = [out EXCEPT ![p] = left] /\ Set(p, Ended("error"))
  /\ Cleanup(p)
  /\ UNCHANGED <<dir, targets, amlz, litter, edits, commands>>

\* Any other step fails: a directory or a file cannot be read or made, the
\* compiler, amivm or go build refuses, the binary does not start.
FailBefore == {"rundir", "list", "read", "create", "compile", "workdir", "prepare", "amivm",
               "gobuild", "exec"}

\* Mutation: compileToGo does not clean up when a file cannot be written.
FailUnclean(p) ==
  /\ job[p].pc \in FailBefore
  /\ Set(p, Ended("error"))
  /\ scratch' = IF At(p, "prepare") THEN Removed({job[p].run})
                ELSE Removed({job[p].run, job[p].work})
  /\ UNCHANGED <<dir, targets, amlz, out, litter, edits, commands>>

Fail(p) ==
  /\ job[p].pc \in FailBefore
  /\ Set(p, Ended("error"))
  /\ Cleanup(p)
  /\ UNCHANGED <<dir, targets, amlz, out, litter, edits, commands>>

\* The process is killed, and the programs it started with it; what it was
\* writing stays as it is.
Kill(p) ==
  /\ Running(p)
  /\ litter' = litter \cup ({job[p].run, job[p].work} \ {NoScratch})
  /\ \E left \in {out[p]} \cup IF job[p].pc \in {"write", "gobuild"} /\ job[p].cmd # "run"
                              THEN {CutFile} ELSE {} :
       out' = [out EXCEPT ![p] = left]
  /\ Set(p, Ended("killed"))
  /\ UNCHANGED <<dir, targets, amlz, scratch, edits, commands>>

\* The author saves, removes or restores a file.
Edit(n) ==
  /\ edits < MaxEdits
  /\ edits' = edits + 1
  /\ \E v \in (0 .. MaxVersion) \ {dir[n]} :
       /\ dir' = [dir EXCEPT ![n] = v]
       /\ job' = [p \in Procs |->
                    IF Running(p) /\ job[p].whole /\ job[p].from = "dir"
                    THEN [job[p] EXCEPT !.seen[n] = @ \cup {v}] ELSE job[p]]
  /\ UNCHANGED <<targets, amlz, out, scratch, litter, commands>>

Next ==
  \/ \E p \in Procs, from \in {"dir", "archive"},
        cmd \in {"build", "run", "emit-ir", "emit-go", "archive"} : Start(p, cmd, from)
  \/ \E p \in Procs :
       \/ MakeRunDir(p) \/ List(p) \/ OpenArchive(p) \/ ReadFile(p)
       \/ CreateArchive(p) \/ AddMember(p) \/ MemberFails(p) \/ CloseArchive(p)
       \/ Compile(p) \/ MakeWorkDir(p) \/ Prepare(p) \/ Amivm(p) \/ GoBuild(p)
       \/ Exec(p) \/ Write(p) \/ Fail(p) \/ Kill(p)
  \/ \E n \in Names : Edit(n)

Spec == Init /\ [][Next]_vars

-----------------------------------------------------------------------------
(* What the commands promise.                                              *)

Delivered(p) == IF job[p].cmd = "run" THEN job[p].ran ELSE out[p]
Kind(cmd) == IF cmd \in {"build", "run"} THEN "binary" ELSE cmd
Delivers(p) == ~Running(p) /\ job[p].status \in {"ok", "exit"} /\ job[p].cmd # "archive"

(* A command that reports success has delivered what was asked for, made of *)
(* files the directory had while it ran, whatever other commands, edits and *)
(* failures came between, and each extern alias of a binary has the Go code *)
(* of the directory its extern block names (compileToGo, compileToBinary). *)
ReportedIsComplete ==
  \A p \in Procs : Delivers(p) =>
    /\ Delivered(p).kind = Kind(job[p].cmd)
    /\ job[p].from = "dir" => \A n \in Names : Delivered(p).files[n] \in job[p].seen[n]
    /\ Kind(job[p].cmd) = "binary" =>
         \A i \in DOMAIN Aliases : Delivered(p).externs[Aliases[i]] = targets[Aliases[i]]

(* An archive whose path was printed stands for its directory: a command    *)
(* that compiles it compiles every file, each as it was at some time while  *)
(* the archive was made (writeArchive, readArchiveAmlFiles).               *)
ArchiveStandsForDirectory ==
  \A p \in Procs : Delivers(p) /\ job[p].from = "archive" /\ job[p].whole =>
    \A n \in Names : Delivered(p).files[n] \in job[p].seen[n]

(* Scratch directories go away with the command that made them, on every    *)
(* path but two: it is killed, or run passes on the exit code of the        *)
(* program, which leaves the directory of the binary and no other          *)
(* (compileToGo's cleanup, the deferred RemoveAll of the commands).        *)
ScratchGoesAway ==
  \A d \in DOMAIN scratch :
    d \in litter \/ \E p \in Procs : Running(p) /\ d \in {job[p].run, job[p].work}
=============================================================================
