---------------------------- MODULE MCModLoader ----------------------------
(***************************************************************************)
(* A small source tree for ModLoader.  Each behaviour starts from one of   *)
(* all the ways the files can import each other within the bounds below:   *)
(* every diamond, cycle, self-import and alias clash of three packages.    *)
(*                                                                         *)
(* The root is a single file whose own directory is importable too; lib is *)
(* a directory of two files and ext an archive; the other paths cannot be  *)
(* imported, each for a reason of its own.                                 *)
(***************************************************************************)
EXTENDS ModLoader

MCPath == {"main.aml", "app", "lib", "ext.amlz", "bare", "bad", "gone"}
MCKind == [k \in MCPath |-> CASE k = "main.aml" -> "file"
                              [] k = "ext.amlz" -> "archive"
                              [] k = "gone"     -> "missing"
                              [] OTHER          -> "dir"]
MCFile == {"app/main", "app/more", "lib/b", "lib/c", "ext/d", "bad/x"}
MCFilesOf == [k \in MCPath |-> CASE k = "main.aml" -> <<"app/main">>
                                 [] k = "app"      -> <<"app/main", "app/more">>
                                 [] k = "lib"      -> <<"lib/b", "lib/c">>
                                 [] k = "ext.amlz" -> <<"ext/d">>
                                 [] k = "bad"      -> <<"bad/x">>
                                 [] OTHER          -> << >>]

UpTo(n) == UNION {[1 .. m -> Import] : m \in 0 .. n}

\* The first alias is "x", which loses nothing: the aliases are
\* interchangeable.  Nothing ever reads on to app/more: its directory is
\* reached from app/main only, and importing it is a cycle.
MCPrograms ==
  {[f \in File |-> CASE f = "app/main" -> a [] f = "lib/b" -> b
                     [] f = "lib/c" -> c [] f = "ext/d" -> d [] OTHER -> << >>] :
     a \in {p \in UpTo(2) : p # << >> => p[1].alias = "x"},
     b \in {<< >>, <<[alias |-> "y", target |-> "ext.amlz"]>>},
     c \in UpTo(1), d \in UpTo(1)}
=============================================================================
