----------------------------- MODULE PackageDag -----------------------------
(***************************************************************************)
(* What modloader.Load promises (the comment of Load and sections 12.2 to  *)
(* 12.5 of the language specification that it cites): the packages the     *)
(* program needs, each once and after the packages it imports, the root    *)
(* last; or an error, if a package cannot be used, if the imports are      *)
(* cyclic, if an alias names two packages, or if the disk fails.  Nothing  *)
(* is said of how the packages are found.                                  *)
(***************************************************************************)
EXTENDS Naturals, Sequences, SequencesExt

CONSTANTS Path, Root

VARIABLES
  graph,    \* graph[k]: the import declarations of package k
  usable,   \* the paths that hold a package that reads and parses
  order,    \* the packages delivered so far
  outcome   \* "loading", "ok", "rejected" or "io"

vars == <<graph, usable, order, outcome>>

Targets(k) == {d.target : d \in graph[k]}

\* The least set that contains S and what its usable members import.
Closure(S) ==
  {k \in Path : \A T \in SUBSET Path :
     (S \subseteq T /\ \A m \in T \cap usable : Targets(m) \subseteq T) => k \in T}

Needed == Closure({Root})

Cyclic == \E k \in Needed \cap usable : k \in Closure(Targets(k))

AliasConflict ==
  \E k, m \in Needed \cap usable : \E d \in graph[k], e \in graph[m] :
    d.alias = e.alias /\ d.target # e.target

Legal == Needed \subseteq usable /\ ~Cyclic /\ ~AliasConflict

Init ==
  /\ usable \subseteq Path
  /\ graph \in [Path -> SUBSET UNION {graph[k] : k \in Path}]
  /\ order = <<>>
  /\ outcome = "loading"

Deliver(k) ==
  /\ outcome = "loading"
  /\ order' = Append(order, k)
  /\ k \in (Needed \cap usable) \ ToSet(order)
  /\ Targets(k) \subseteq ToSet(order)
  /\ IF k = Root THEN Legal /\ ToSet(order') = Needed /\ outcome' = "ok"
                 ELSE outcome' = "loading"
  /\ UNCHANGED <<graph, usable>>

Reject ==
  /\ outcome = "loading"
  /\ outcome' = "rejected"
  /\ ~Legal
  /\ UNCHANGED <<graph, usable, order>>

DiskFails ==
  /\ outcome = "loading"
  /\ outcome' = "io"
  /\ UNCHANGED <<graph, usable, order>>

Next == (\E k \in Path : Deliver(k)) \/ Reject \/ DiskFails

Spec == Init /\ [][Next]_vars
=============================================================================
