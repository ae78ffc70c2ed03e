------------------------------- MODULE Assign -------------------------------
(***************************************************************************)
(* Nested assignment: what the code emitted for x[a][b][c] = v does to the *)
(* storage of x.  Each layer of the target is read into a temporary, the   *)
(* innermost is changed, and every temporary is written back into the slot *)
(* it was read from (readAssignableContainer): a List is a reference, so   *)
(* its copy is the same storage, an Array or a struct is a value.  A field *)
(* is an index that is a literal.                                          *)
(*                                                                         *)
(* An index that is a variable is read wherever its token stands, when it  *)
(* is used to read and again when it is used to write back.  Other code    *)
(* runs in between: the calls in the index expressions of inner layers,    *)
(* and the closures given to spawn.  Here that is other assignments to     *)
(* other places of x, one for each process, and an assignment to i.        *)
(***************************************************************************)
EXTENDS Naturals, Sequences, FiniteSets, SequencesExt

CONSTANTS
  Proc,      \* the assignments; also the values they assign
  Depth,     \* the indices of a target
  N,         \* the elements of a container
  None,      \* what the innermost elements are at first
  Spawned    \* other code runs in closures of its own, not only in the calls

ASSUME AssignAssumption ==
  /\ Depth \in Nat \ {0} /\ N \in Nat \ {0} /\ None \notin Proc
  /\ Spawned \in BOOLEAN /\ (Spawned \/ Cardinality(Proc) = 1)

Index == 1 .. N

\* Stands for the variable where an index is expected.
Variable == 0

\* The least index that is out of range: Go panics.
BadIndex == N + 1

VARIABLES
  kinds,     \* "list" or "value": the containers of each layer, x itself first
  shared,    \* the two halves of x refer to the same Lists
  path,      \* the indices of each target
  i,         \* the value of the variable that is an index
  moved,     \* it was assigned while an assignment was under way
  x, heap,   \* the storage of the variable and the elements of every List
  temp,      \* the temporaries of each assignment, outermost first
  pc, layer

vars == <<kinds, shared, path, i, moved, x, heap, temp, pc, layer>>
program == <<kinds, shared, path>>

\* What may be assigned to: a chain of layers over a variable.
Targets == [1 .. Depth -> Index \cup {Variable}]

Prefix == UNION {[1 .. d -> Index] : d \in 0 .. Depth}
Place == [1 .. Depth -> Index]

\* The List found at a place: the first index does not tell them apart when
\* x holds the same Lists twice.
Cell(p, sh) == IF sh /\ p # <<>> THEN <<1>> \o Tail(p) ELSE p

\* The element at p in an x that was just built.
Built(ks, sh) ==
  LET v[p \in Prefix] ==
        IF Len(p) = Depth THEN None
        ELSE IF ks[Len(p) + 1] = "list" THEN [ref |-> Cell(p, sh)]
        ELSE [k \in Index |-> v[Append(p, k)]]
  IN  v

Init ==
  /\ kinds \in [1 .. Depth -> {"list", "value"}]
  /\ shared \in BOOLEAN /\ (shared => \E d \in 2 .. Depth : kinds[d] = "list")
  /\ path \in [Proc -> Targets]
  /\ i \in Index
  /\ moved = FALSE
  /\ x = Built(kinds, shared)[<<>>]
  /\ heap = [c \in {p \in Prefix : Len(p) < Depth} |->
               [k \in Index |-> Built(kinds, shared)[Append(c, k)]]]
  /\ temp = [p \in Proc |-> <<>>]
  /\ pc = [p \in Proc |-> "read"] /\ layer = [p \in Proc |-> 1]
-----------------------------------------------------------------------------
\* The container of layer d that p works on: x or a temporary.
Held(p, d) == IF d = 1 THEN x ELSE temp[p][d - 1]

\* AGET and FGET.
Get(d, c, k) == IF kinds[d] = "list" THEN heap[c.ref][k] ELSE c[k]

\* ASET and FSET into the container of layer d.
Store(p, d, k, v) ==
  CASE kinds[d] = "list" ->
         heap' = [heap EXCEPT ![Held(p, d).ref][k] = v] /\ UNCHANGED <<x, temp>>
    [] kinds[d] = "value" /\ d = 1 ->
         x' = [x EXCEPT ![k] = v] /\ UNCHANGED <<heap, temp>>
    [] kinds[d] = "value" /\ d > 1 ->
         temp' = [temp EXCEPT ![p][d - 1][k] = v] /\ UNCHANGED <<x, heap>>

IndexOf(p, d) == IF path[p][d] = Variable THEN i ELSE path[p][d]

\* p executes the instruction at its layer, if the index allows it.
At(p, where, next, towards) ==
  /\ pc[p] = where /\ IndexOf(p, layer[p]) \in Index
  /\ pc' = [pc EXCEPT ![p] = next] /\ layer' = [layer EXCEPT ![p] = towards]
  /\ UNCHANGED <<program, i, moved>>

\* The temporary of the next layer.
Read(p) ==
  /\ layer[p] < Depth
  /\ At(p, "read", "read", layer[p] + 1)
  /\ temp' = [temp EXCEPT ![p] =
                Append(@, Get(layer[p], Held(p, layer[p]), IndexOf(p, layer[p])))]
  /\ UNCHANGED <<x, heap>>

\* Mutation: the copies are not written back.
SetOnly(p) ==
  /\ layer[p] = Depth
  /\ At(p, "read", "done", 1)
  /\ Store(p, Depth, IndexOf(p, Depth), p)

\* The value goes into the innermost container.
Set(p) ==
  /\ layer[p] = Depth
  /\ IF Depth = 1 THEN At(p, "read", "done", 1) ELSE At(p, "read", "back", Depth - 1)
  /\ Store(p, Depth, IndexOf(p, Depth), p)

\* Mutation: every copy goes into the slot of the innermost index.
WriteBackInner(p) ==
  /\ IF layer[p] = 1 THEN At(p, "back", "done", 1) ELSE At(p, "back", "back", layer[p] - 1)
  /\ Store(p, layer[p], IF IndexOf(p, Depth) \in Index THEN IndexOf(p, Depth) ELSE 1,
           temp[p][layer[p]])

\* The temporary of a layer goes back into its slot.
WriteBack(p) ==
  /\ IF layer[p] = 1 THEN At(p, "back", "done", 1) ELSE At(p, "back", "back", layer[p] - 1)
  /\ Store(p, layer[p], IndexOf(p, layer[p]), temp[p][layer[p]])

\* An index out of range ends the program.
Panic(p) ==
  /\ pc[p] \in {"read", "back"} /\ IndexOf(p, layer[p]) \notin Index
  /\ pc' = [q \in Proc |-> "panicked"]
  /\ UNCHANGED <<program, i, moved, x, heap, temp, layer>>

Over == \A p \in Proc : pc[p] \in {"done", "panicked"}

\* The index of an inner layer may be a call.
Calling(p) == pc[p] = "read" /\ layer[p] \in 2 .. Depth - 1 /\ path[p][layer[p]] # Variable

\* i = k, at most once, and not if nobody reads it.
AssignIndex ==
  /\ Spawned \/ \E p \in Proc : Calling(p)
  /\ \E p \in Proc : pc[p] \in {"read", "back"} /\ Variable \in Range(path[p])
  /\ \E k \in Index \cup {BadIndex} : k # i /\ i' = k
  /\ ~moved /\ moved' = TRUE
  /\ UNCHANGED <<program, x, heap, temp, pc, layer>>

Stopped == Over /\ UNCHANGED vars

Next == (\E p \in Proc : Read(p) \/ Set(p) \/ WriteBack(p) \/ Panic(p)) \/ AssignIndex \/ Stopped

Spec == Init /\ [][Next]_vars
-----------------------------------------------------------------------------
(* Properties                                                              *)

\* The element of x at a place.
Leaf(at) ==
  LET c[d \in 1 .. Depth] == IF d = 1 THEN x ELSE Get(d - 1, c[d - 1], at[d - 1])
  IN  Get(Depth, c[Depth], at[Depth])

\* The elements of layer d at two places are one and the same.
SameSlot(a, b, d) ==
  /\ \A k \in 2 .. d : a[k] = b[k]
  /\ a[1] = b[1] \/ (shared /\ \E k \in 2 .. d : kinds[k] = "list")

SamePlace(a, b) == SameSlot(a, b, Depth)

\* The innermost List a place is in, and with it the least that is copied:
\* all of an element of that List, or of x, and nothing more.
SameRow(a, b) ==
  LET lists == {d \in 1 .. Depth : kinds[d] = "list"}
  IN  SameSlot(a, b, Max(lists \cup {1}))

Target(p) == [d \in 1 .. Depth |-> IndexOf(p, d)]
Landed(p) == Target(p) \in Place /\ Leaf(Target(p)) = p

\* No other assignment is to the row of this one, and the variable keeps its
\* value: what sequential code without such calls does, and more.
Alone(p) == ~moved /\ \A q \in Proc \ {p} : ~SameRow(Target(p), Target(q))

\* The variables hold values of their types.
TypeOK ==
  /\ kinds \in [1 .. Depth -> {"list", "value"}] /\ shared \in BOOLEAN
  /\ path \in [Proc -> Targets]
  /\ i \in Index \cup {BadIndex} /\ moved \in BOOLEAN
  /\ DOMAIN temp = Proc /\ \A p \in Proc : Len(temp[p]) < Depth
  /\ pc \in [Proc -> {"read", "back", "done", "panicked"}]
  /\ layer \in [Proc -> 1 .. Depth]
  /\ \A a \in Place : Leaf(a) \in Proc \cup {None}

\* A nested assignment reaches the storage of x, through Lists and Arrays in
\* any order (amifl-spec.md section 3.2), whatever else is assigned to
\* other rows meanwhile.
AssignmentsLand == \A p \in Proc : pc[p] = "done" /\ Alone(p) => Landed(p)

\* No place changes but the targets and what is the same storage: a copy
\* goes back where it came from.
ElsewhereUntouched ==
  ~moved => \A a \in Place :
    Leaf(a) # None => \E p \in Proc : Leaf(a) = p /\ SamePlace(a, Target(p))

\* Every copy is written back into the slot it came from, and into no other
\* (collections.go:219-221), so that no element turns up twice.
CopiesGoHome ==
  \A p \in Proc : \A a, b \in Place : Leaf(a) = p /\ Leaf(b) = p => SamePlace(a, b)

\* Multi-level assignment is right whether the layers are references or
\* values (amifl-spec.md:165): assignments to different places all land.
DifferentPlacesLand ==
  \A p \in Proc :
    pc[p] = "done" /\ ~moved /\ (\A q \in Proc \ {p} : ~SamePlace(Target(p), Target(q))) /\ Over
      => Landed(p)
=============================================================================
