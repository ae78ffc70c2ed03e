---------------------------- MODULE AssignProofs ----------------------------
(***************************************************************************)
(* Proofs about Assign, for every number of assignments, layers and        *)
(* elements.                                                               *)
(*                                                                         *)
(* While the variable that is an index keeps its value, every assignment   *)
(* works on one place of x, and every container has one: x, a List of the  *)
(* heap, a temporary.  V[d][c] is the set of what may be stored after the  *)
(* indices c, d of them: a List only the one of that place, a value any    *)
(* that has allowed elements, an innermost element None or an assignment   *)
(* whose target is there.  That all storage is allowed (Stored) is         *)
(* preserved by every instruction and is why elements never turn up in     *)
(* the wrong place.  That an assignment lands takes its row, the slot of   *)
(* the innermost List: no copy of another row contains it, and what p has  *)
(* written back there agrees with its temporaries (RowsOK).                *)
(***************************************************************************)
EXTENDS Assign, Integers, WellFoundedInduction, TLAPS

\* A set of naturals that is not empty has a least element.
LEMMA Least ==
  ASSUME NEW T \in SUBSET Nat, T # {}
  PROVE  \E m \in T : \A j \in T : m <= j
<1> DEFINE R == {ss \in Nat \X Nat : ss[1] < ss[2]}
<1>1. IsWellFoundedOn(R, Nat)
  BY NatLessThanWellFounded DEF OpToRel
<1>2. PICK m \in T : \A y \in T : <<y, m>> \notin R
  <2> HIDE DEF R
  <2> QED
    BY <1>1, WFMin
<1>3. \A j \in T : ~(j < m)
  BY <1>2
<1> QED
  BY <1>3

-----------------------------------------------------------------------------
(* Places and their prefixes.                                              *)

\* The prefixes of d indices, and the one of a place.
Pfx(d) == [1 .. d -> Index]
Pre(a, d) == [j \in 1 .. d |-> a[j]]

\* The places with d indices that one storage has: two that differ in the
\* first index only are one when the Lists below it are shared.
Inside(d) == shared /\ \E k \in 2 .. d : kinds[k] = "list"
Canon(a, d) == [j \in 1 .. d |-> IF j = 1 /\ Inside(d) THEN 1 ELSE a[j]]

LEMMA Depths == Depth \in Nat \ {0} /\ N \in Nat \ {0} /\ None \notin Proc /\ 1 \in Index /\ Index \subseteq Nat
BY AssignAssumption DEF Index

LEMMA Appended ==
  ASSUME NEW d \in Nat, NEW c \in Pfx(d), NEW k \in Index
  PROVE  /\ Len(c) = d /\ Append(c, k) \in Pfx(d + 1)
         /\ Append(c, k) = [j \in 1 .. d + 1 |-> IF j = d + 1 THEN k ELSE c[j]]
<1>1. c \in Seq(Index) /\ Len(c) = d
  BY DEF Pfx
<1>2. Append(c, k) = [j \in 1 .. d + 1 |-> IF j = d + 1 THEN k ELSE c[j]]
  <2> DEFINE s == Append(c, k)
  <2>1. Len(s) = d + 1 /\ s \in Seq(Index)
    BY <1>1
  <2>2. \A j \in 1 .. d + 1 : s[j] = IF j = d + 1 THEN k ELSE c[j]
    BY <1>1
  <2> HIDE DEF s
  <2>3. s \in [1 .. d + 1 -> Index]
    BY <2>1
  <2>4. s = [j \in 1 .. d + 1 |-> s[j]]
    BY <2>3
  <2> QED
    BY <2>2, <2>4 DEF s
<1> QED
  BY <1>1, <1>2 DEF Pfx

LEMMA CellIs ==
  ASSUME NEW d \in Nat, NEW c \in Pfx(d)
  PROVE  /\ Cell(c, shared) = [j \in 1 .. d |-> IF j = 1 /\ shared THEN 1 ELSE c[j]]
         /\ Cell(c, shared) \in Pfx(d)
<1>1. c \in Seq(Index) /\ Len(c) = d
  BY DEF Pfx
<1>2. d = 0 <=> c = << >>
  BY <1>1
<1>3. CASE shared /\ d # 0
  <2>1. Cell(c, shared) = <<1>> \o Tail(c)
    BY <1>2, <1>3 DEF Cell
  <2>2. <<1>> \o Tail(c) = [j \in 1 .. d |-> IF j = 1 THEN 1 ELSE c[j]]
    BY <1>1, <1>2, <1>3
  <2>3. \A j \in 1 .. d : (IF j = 1 THEN 1 ELSE c[j]) = (IF j = 1 /\ shared THEN 1 ELSE c[j])
    BY <1>3
  <2>4. \A j \in 1 .. d : (IF j = 1 THEN 1 ELSE c[j]) \in Index
    BY Depths DEF Pfx
  <2>5. Cell(c, shared) = [j \in 1 .. d |-> IF j = 1 /\ shared THEN 1 ELSE c[j]]
    BY <2>1, <2>2, <2>3
  <2>6. [j \in 1 .. d |-> IF j = 1 THEN 1 ELSE c[j]] \in Pfx(d)
    BY <2>4 DEF Pfx
  <2> QED
    BY <2>1, <2>2, <2>5, <2>6
<1>4. CASE ~(shared /\ d # 0)
  <2>1. Cell(c, shared) = c
    BY <1>2, <1>4 DEF Cell
  <2> QED
    BY <1>4, <2>1 DEF Pfx
<1> QED
  BY <1>3, <1>4

LEMMA CanonIn ==
  ASSUME NEW d \in Nat, NEW a, \A j \in 1 .. d : a[j] \in Index
  PROVE  Canon(a, d) \in Pfx(d) /\ Pre(a, d) \in Pfx(d)
BY Depths DEF Canon, Pfx, Pre

\* One index more.
LEMMA CanonNext ==
  ASSUME NEW d \in Nat, NEW a, NEW k \in Index, \A j \in 1 .. d + 1 : a[j] \in Index,
         a[d + 1] = k
  PROVE  Canon(Append(Canon(a, d), k), d + 1) = Canon(a, d + 1)
<1>1. Canon(a, d) \in Pfx(d)
  BY CanonIn
<1>2. Append(Canon(a, d), k) = [j \in 1 .. d + 1 |-> IF j = d + 1 THEN k ELSE Canon(a, d)[j]]
  BY <1>1, Appended
<1>3. Inside(d) => Inside(d + 1)
  BY DEF Inside
<1> QED
  BY <1>2, <1>3 DEF Canon

\* The List of a place does not depend on which of the places it has.
LEMMA CellOfCanon ==
  ASSUME NEW d \in Nat, NEW a, \A j \in 1 .. d : a[j] \in Index
  PROVE  Cell(Canon(a, d), shared) = Cell(Pre(a, d), shared)
BY CanonIn, CellIs DEF Canon, Pre, Inside

\* An element of a List has the place of the List and its own index.
LEMMA CanonOfCell ==
  ASSUME NEW d \in Nat, NEW a, NEW k \in Index, \A j \in 1 .. d + 1 : a[j] \in Index,
         a[d + 1] = k, kinds[d + 1] = "list"
  PROVE  Canon(Append(Cell(Pre(a, d), shared), k), d + 1) = Canon(a, d + 1)
<1> DEFINE c == Cell(Pre(a, d), shared)
<1>1. Pre(a, d) \in Pfx(d)
  BY CanonIn
<1>2. c = [j \in 1 .. d |-> IF j = 1 /\ shared THEN 1 ELSE Pre(a, d)[j]] /\ c \in Pfx(d)
  BY <1>1, CellIs
<1> HIDE DEF c
<1>3. Append(c, k) = [j \in 1 .. d + 1 |-> IF j = d + 1 THEN k ELSE c[j]]
  BY <1>2, Appended
<1>4. shared /\ d # 0 => Inside(d + 1)
  BY DEF Inside
<1>5. \A j \in 1 .. d + 1 : j # 1 \/ ~Inside(d + 1) => Append(c, k)[j] = a[j]
  BY <1>2, <1>3, <1>4 DEF Pre
<1> QED
  BY <1>3, <1>5 DEF Canon, c

\* SameSlot compares canonical places.
LEMMA SlotsAreCanon ==
  ASSUME NEW d \in Nat \ {0}, NEW a, NEW b, SameSlot(a, b, d)
  PROVE  Canon(a, d) = Canon(b, d)
BY DEF SameSlot, Canon, Inside

LEMMA CanonIsSlot ==
  ASSUME NEW d \in Nat \ {0}, NEW a, NEW b, Canon(a, d) = Canon(b, d)
  PROVE  SameSlot(a, b, d)
<1>1. \A j \in 1 .. d : Canon(a, d)[j] = Canon(b, d)[j]
  OBVIOUS
<1>2. \A j \in 1 .. d : (IF j = 1 /\ Inside(d) THEN 1 ELSE a[j]) = (IF j = 1 /\ Inside(d) THEN 1 ELSE b[j])
  BY <1>1 DEF Canon
<1>3. \A j \in 2 .. d : a[j] = b[j]
  BY <1>2
<1>4. a[1] = b[1] \/ Inside(d)
  BY <1>2
<1> QED
  BY <1>3, <1>4 DEF SameSlot, Inside

-----------------------------------------------------------------------------
(* What the model and the proofs define by recursion.                      *)

\* What the storage may hold after all but m indices: an element is None or an
\* assignment to this place, a List is the one of this place.
ContentsBefore(prev, m) ==
  LET d == Depth - m
  IN  [c \in Pfx(d) |->
         IF kinds[d + 1] = "list" THEN {[ref |-> Cell(c, shared)]}
         ELSE {f \in [Index -> UNION {prev[e] : e \in Pfx(d + 1)}] :
                 \A k \in Index : f[k] \in prev[Canon(Append(c, k), d + 1)]}]
BuiltBefore(prev, m) ==
  LET d == Depth - m
  IN  [c \in Pfx(d) |-> IF kinds[d + 1] = "list" THEN [ref |-> Cell(c, shared)]
                        ELSE [k \in Index |-> prev[Append(c, k)]]]

First(w) ==
  IF w.of = "contents" THEN [c \in Place |-> {None} \cup {q \in Proc : Canon(Target(q), Depth) = c}]
  ELSE IF w.of = "built" THEN [c \in Place |-> None]
  ELSE x
After(w, prev, m) ==
  IF w.of = "contents" THEN ContentsBefore(prev, m)
  ELSE IF w.of = "built" THEN BuiltBefore(prev, m)
  ELSE Get(m, prev, w.at[m])

Recursion(w, n, f) == f = [m \in 0 .. n |-> IF m = 0 THEN First(w) ELSE After(w, f[m - 1], m)]

LEMMA OneMore ==
  ASSUME NEW w, NEW n \in Nat, NEW f, Recursion(w, n, f)
  PROVE  \E g : Recursion(w, n + 1, g)
<1> DEFINE g == [m \in 0 .. n + 1 |-> IF m = n + 1 THEN After(w, f[n], n + 1) ELSE f[m]]
<1>1. \A m \in 0 .. n : f[m] = IF m = 0 THEN First(w) ELSE After(w, f[m - 1], m)
  BY DEF Recursion
<1>2. \A m \in 0 .. n : g[m] = f[m]
  OBVIOUS
<1>3. g[n + 1] = After(w, g[n], n + 1)
  OBVIOUS
<1>4. ASSUME NEW m \in 0 .. n + 1
      PROVE  g[m] = IF m = 0 THEN First(w) ELSE After(w, g[m - 1], m)
  <2>1. CASE m = n + 1
    BY <2>1, <1>3
  <2>2. CASE m = 0
    BY <2>2, <1>1, <1>2
  <2>3. CASE m # n + 1 /\ m # 0
    <3>1. m \in 0 .. n /\ m - 1 \in 0 .. n
      BY <2>3
    <3> QED
      BY <2>3, <3>1, <1>1, <1>2
  <2> QED
    BY <2>1, <2>2, <2>3
<1> DEFINE h == [m \in 0 .. n + 1 |-> IF m = 0 THEN First(w) ELSE After(w, g[m - 1], m)]
<1>5. \A m \in 0 .. n + 1 : g[m] = h[m]
  BY <1>4
<1>6. g = h
  <2>1. g = [m \in 0 .. n + 1 |-> g[m]]
    OBVIOUS
  <2> QED
    BY <2>1, <1>5
<1> QED
  BY <1>6 DEF Recursion

LEMMA Defined ==
  ASSUME NEW w, NEW n \in Nat
  PROVE  \E f : Recursion(w, n, f)
<1> DEFINE T == {m \in Nat : ~ \E f : Recursion(w, m, f)}
<1> SUFFICES ASSUME T # {} PROVE FALSE
  OBVIOUS
<1>1. PICK m \in T : \A j \in T : m <= j
  <2>1. T \subseteq Nat
    OBVIOUS
  <2> HIDE DEF T
  <2> QED
    BY <2>1, Least
<1>2. Recursion(w, 0, [j \in 0 .. 0 |-> First(w)])
  BY DEF Recursion
<1>3. m # 0
  BY <1>2
<1>4. m - 1 \in Nat /\ m - 1 \notin T /\ (m - 1) + 1 = m
  BY <1>1, <1>3
<1>5. PICK f : Recursion(w, m - 1, f)
  BY <1>4
<1>6. \E g : Recursion(w, (m - 1) + 1, g)
  BY <1>4, <1>5, OneMore
<1> QED
  BY <1>4, <1>6

\* The contents that the storage may have after d indices, at each prefix.
IsContents(V) ==
  /\ \A c \in Place : V[Depth][c] = {None} \cup {q \in Proc : Canon(Target(q), Depth) = c}
  /\ \A d \in 0 .. Depth - 1 : \A c \in Pfx(d) :
       V[d][c] = IF kinds[d + 1] = "list" THEN {[ref |-> Cell(c, shared)]}
                 ELSE {f \in [Index -> UNION {V[d + 1][e] : e \in Pfx(d + 1)}] :
                         \A k \in Index : f[k] \in V[d + 1][Canon(Append(c, k), d + 1)]}

LEMMA SomeContents == \E V : IsContents(V)
<1> DEFINE w == [of |-> "contents"]
<1>1. PICK U : Recursion(w, Depth, U)
  BY Depths, Defined
<1> DEFINE V == [d \in 0 .. Depth |-> U[Depth - d]]
<1>2. \A m \in 0 .. Depth : U[m] = IF m = 0 THEN First(w) ELSE After(w, U[m - 1], m)
  BY <1>1 DEF Recursion
<1>3. V[Depth] = [c \in Place |-> {None} \cup {q \in Proc : Canon(Target(q), Depth) = c}]
  <2>1. V[Depth] = U[0] /\ 0 \in 0 .. Depth
    BY Depths
  <2> HIDE DEF V
  <2> QED
    BY <1>2, <2>1 DEF First
<1>4. ASSUME NEW d \in 0 .. Depth - 1
      PROVE  V[d] = ContentsBefore(V[d + 1], Depth - d)
  <2>1. V[d] = U[Depth - d] /\ V[d + 1] = U[(Depth - d) - 1] /\ Depth - d \in 0 .. Depth
        /\ Depth - d # 0
    BY Depths
  <2> HIDE DEF V
  <2>2. U[Depth - d] = After(w, U[(Depth - d) - 1], Depth - d)
    BY <1>2, <2>1
  <2> QED
    BY <2>1, <2>2 DEF After
<1> HIDE DEF V
<1>5. ASSUME NEW d \in 0 .. Depth - 1, NEW c \in Pfx(d)
      PROVE  V[d][c] = IF kinds[d + 1] = "list" THEN {[ref |-> Cell(c, shared)]}
                       ELSE {f \in [Index -> UNION {V[d + 1][e] : e \in Pfx(d + 1)}] :
                               \A k \in Index : f[k] \in V[d + 1][Canon(Append(c, k), d + 1)]}
  <2>1. Depth - (Depth - d) = d
    BY Depths
  <2>2. PICK prev : prev = V[d + 1]
    OBVIOUS
  <2>3. V[d] = ContentsBefore(prev, Depth - d)
    BY <1>4, <2>2
  <2>4. V[d][c] = IF kinds[d + 1] = "list" THEN {[ref |-> Cell(c, shared)]}
                  ELSE {f \in [Index -> UNION {prev[e] : e \in Pfx(d + 1)}] :
                          \A k \in Index : f[k] \in prev[Canon(Append(c, k), d + 1)]}
    BY <2>1, <2>3 DEF ContentsBefore
  <2> QED
    BY <2>2, <2>4
<1>6. \A c \in Place : V[Depth][c] = {None} \cup {q \in Proc : Canon(Target(q), Depth) = c}
  BY <1>3
<1>7. IsContents(V)
  BY <1>5, <1>6 DEF IsContents
<1> QED
  BY <1>7

\* The recursive functions of Built and Leaf are what they say.
IsBuilt(v) ==
  v = [p \in Prefix |->
         IF Len(p) = Depth THEN None
         ELSE IF kinds[Len(p) + 1] = "list" THEN [ref |-> Cell(p, shared)]
         ELSE [k \in Index |-> v[Append(p, k)]]]

LEMMA BuiltIs == IsBuilt(Built(kinds, shared))
<1> DEFINE w == [of |-> "built"]
<1>1. PICK B : Recursion(w, Depth, B)
  BY Depths, Defined
<1> DEFINE v == [p \in Prefix |-> B[Depth - Len(p)][p]]
<1>2. \A m \in 0 .. Depth : B[m] = IF m = 0 THEN First(w) ELSE After(w, B[m - 1], m)
  BY <1>1 DEF Recursion
<1>3. ASSUME NEW p \in Prefix
      PROVE  v[p] = IF Len(p) = Depth THEN None
                    ELSE IF kinds[Len(p) + 1] = "list" THEN [ref |-> Cell(p, shared)]
                    ELSE [k \in Index |-> v[Append(p, k)]]
  <2>1. PICK d \in 0 .. Depth : p \in Pfx(d)
    BY DEF Prefix, Pfx
  <2>2. Len(p) = d
    BY <2>1 DEF Pfx
  <2>3. CASE d = Depth
    <3>1. v[p] = B[0][p] /\ p \in Place
      BY <2>1, <2>2, <2>3, Depths DEF Pfx, Place
    <3>2. B[0] = [c \in Place |-> None]
      BY <1>2, Depths DEF First
    <3> QED
      BY <2>2, <2>3, <3>1, <3>2
  <2>4. CASE d # Depth
    <3> DEFINE m == Depth - d
    <3>1. m \in 1 .. Depth /\ Depth - m = d /\ m - 1 = Depth - (d + 1) /\ d \in Nat
          /\ d + 1 \in 0 .. Depth
      BY <2>4, Depths
    <3>2. v[p] = B[m][p]
      BY <2>2
    <3>3. B[m] = BuiltBefore(B[m - 1], m)
      <4> HIDE DEF m
      <4> QED
        BY <1>2, <3>1 DEF After
    <3>4. B[m][p] = IF kinds[d + 1] = "list" THEN [ref |-> Cell(p, shared)]
                    ELSE [k \in Index |-> B[m - 1][Append(p, k)]]
      <4> HIDE DEF m
      <4> QED
        BY <2>1, <3>1, <3>3 DEF BuiltBefore
    <3>5. ASSUME NEW k \in Index PROVE v[Append(p, k)] = B[m - 1][Append(p, k)]
      <4>1. Append(p, k) \in Pfx(d + 1)
        BY <2>1, <3>1, Appended
      <4>2. Append(p, k) \in Prefix
        BY <3>1, <4>1 DEF Prefix, Pfx
      <4>3. Len(Append(p, k)) = d + 1
        BY <3>1, <4>1 DEF Pfx
      <4> QED
        BY <3>1, <4>2, <4>3
    <3> HIDE DEF v, m
    <3>6. kinds[d + 1] # "list" =>
            [k \in Index |-> v[Append(p, k)]] = [k \in Index |-> B[m - 1][Append(p, k)]]
      BY <3>5
    <3> QED
      BY <2>2, <2>4, <3>2, <3>4, <3>6
  <2> QED
    BY <2>3, <2>4
<1>4. IsBuilt(v)
  <2> HIDE DEF v
  <2>1. v = [p \in Prefix |-> v[p]]
    BY DEF v
  <2> QED
    BY <1>3, <2>1 DEF IsBuilt
<1> HIDE DEF v
<1> QED
  BY <1>4 DEF Built, IsBuilt

\* The containers on the way to a place.
Way(a, c) == c = [d \in 1 .. Depth |-> IF d = 1 THEN x ELSE Get(d - 1, c[d - 1], a[d - 1])]

LEMMA LeafIs ==
  ASSUME NEW a
  PROVE  \E c : Way(a, c) /\ Leaf(a) = Get(Depth, c[Depth], a[Depth])
<1> DEFINE w == [of |-> "way", at |-> a]
<1>1. PICK f : Recursion(w, Depth, f)
  BY Depths, Defined
<1> DEFINE c == [d \in 1 .. Depth |-> f[d - 1]]
<1>2. \A m \in 0 .. Depth : f[m] = IF m = 0 THEN x ELSE Get(m, f[m - 1], a[m])
  BY <1>1 DEF Recursion, First, After
<1>3. ASSUME NEW d \in 1 .. Depth
      PROVE  c[d] = IF d = 1 THEN x ELSE Get(d - 1, c[d - 1], a[d - 1])
  <2>1. CASE d = 1
    BY <1>2, <2>1, Depths
  <2>2. CASE d # 1
    <3>1. d - 1 \in 0 .. Depth /\ d - 1 # 0 /\ d - 1 \in 1 .. Depth
      BY <2>2, Depths
    <3>2. c[d] = f[d - 1] /\ c[d - 1] = f[(d - 1) - 1]
      BY <3>1
    <3>3. f[d - 1] = Get(d - 1, f[(d - 1) - 1], a[d - 1])
      BY <1>2, <3>1
    <3> HIDE DEF c
    <3> QED
      BY <2>2, <3>2, <3>3
  <2> QED
    BY <2>1, <2>2
<1>4. Way(a, c)
  <2>1. c = [d \in 1 .. Depth |-> c[d]]
    OBVIOUS
  <2> HIDE DEF c
  <2> QED
    BY <1>3, <2>1 DEF Way
<1> HIDE DEF c
<1>5. Way(a, CHOOSE cc : Way(a, cc))
  BY <1>4
<1> QED
  BY <1>5 DEF Leaf, Way

-----------------------------------------------------------------------------
(* What a storage may hold.                                                *)

\* The contents allowed after the first d indices of a place.
Allowed(V, a, d) == V[d][Canon(a, d)]

Indexes(a, d) == \A j \in 1 .. d : a[j] \in Index

LEMMA ListAllowed ==
  ASSUME NEW V, IsContents(V), NEW d \in 0 .. Depth - 1, NEW a, Indexes(a, d),
         kinds[d + 1] = "list", NEW f \in Allowed(V, a, d)
  PROVE  f.ref = Cell(Pre(a, d), shared)
<1>1. d \in Nat /\ Canon(a, d) \in Pfx(d)
  BY CanonIn, Depths DEF Indexes
<1>2. V[d][Canon(a, d)] = {[ref |-> Cell(Canon(a, d), shared)]}
  BY <1>1 DEF IsContents
<1>3. Cell(Canon(a, d), shared) = Cell(Pre(a, d), shared)
  BY <1>1, CellOfCanon DEF Indexes
<1> QED
  BY <1>2, <1>3 DEF Allowed

LEMMA ValueAllowed ==
  ASSUME NEW V, IsContents(V), NEW d \in 0 .. Depth - 1, NEW a, Indexes(a, d + 1),
         kinds[d + 1] # "list"
  PROVE  /\ Allowed(V, a, d) = {f \in [Index -> UNION {V[d + 1][e] : e \in Pfx(d + 1)}] :
                                  \A k \in Index : f[k] \in V[d + 1][Canon(Append(Canon(a, d), k), d + 1)]}
         /\ V[d + 1][Canon(Append(Canon(a, d), a[d + 1]), d + 1)] = Allowed(V, a, d + 1)
         /\ Canon(a, d + 1) \in Pfx(d + 1) /\ a[d + 1] \in Index
<1>1. d \in Nat /\ Indexes(a, d) /\ a[d + 1] \in Index /\ d + 1 \in Nat
  BY Depths DEF Indexes
<1>2. Canon(a, d) \in Pfx(d) /\ Canon(a, d + 1) \in Pfx(d + 1)
  BY <1>1, CanonIn DEF Indexes
<1>3. Canon(Append(Canon(a, d), a[d + 1]), d + 1) = Canon(a, d + 1)
  BY <1>1, CanonNext DEF Indexes
<1>4. V[d][Canon(a, d)] =
        {f \in [Index -> UNION {V[d + 1][e] : e \in Pfx(d + 1)}] :
           \A k \in Index : f[k] \in V[d + 1][Canon(Append(Canon(a, d), k), d + 1)]}
  BY <1>2 DEF IsContents
<1> QED
  BY <1>1, <1>2, <1>3, <1>4 DEF Allowed

LEMMA ElementAllowed ==
  ASSUME NEW V, IsContents(V), NEW d \in 0 .. Depth - 1, NEW a, Indexes(a, d + 1),
         kinds[d + 1] # "list", NEW f \in Allowed(V, a, d)
  PROVE  f[a[d + 1]] \in Allowed(V, a, d + 1) /\ DOMAIN f = Index /\ a[d + 1] \in Index
BY ValueAllowed

LEMMA UpdateAllowed ==
  ASSUME NEW V, IsContents(V), NEW d \in 0 .. Depth - 1, NEW a, Indexes(a, d + 1),
         kinds[d + 1] # "list", NEW f \in Allowed(V, a, d), NEW v \in Allowed(V, a, d + 1)
  PROVE  [f EXCEPT ![a[d + 1]] = v] \in Allowed(V, a, d)
<1> DEFINE F == UNION {V[d + 1][e] : e \in Pfx(d + 1)}
           S(k) == V[d + 1][Canon(Append(Canon(a, d), k), d + 1)]
           k0 == a[d + 1]
           g == [f EXCEPT ![k0] = v]
<1>1. /\ Allowed(V, a, d) = {h \in [Index -> F] : \A k \in Index : h[k] \in S(k)}
      /\ S(k0) = Allowed(V, a, d + 1) /\ Canon(a, d + 1) \in Pfx(d + 1) /\ k0 \in Index
  BY ValueAllowed
<1>2. v \in F
  BY <1>1 DEF Allowed
<1> HIDE DEF F, S, k0
<1>3. f \in [Index -> F] /\ \A k \in Index : f[k] \in S(k)
  BY <1>1
<1>4. g \in [Index -> F]
  BY <1>2, <1>3
<1>5. \A k \in Index : g[k] \in S(k)
  BY <1>1, <1>3
<1> QED
  BY <1>1, <1>4, <1>5 DEF k0

\* The prefix of no index.
Nowhere == [j \in 1 .. 0 |-> 0]

LEMMA NowhereIs ==
  /\ << >> = Nowhere /\ Nowhere \in Pfx(0)
  /\ \A a : Canon(a, 0) = Nowhere /\ Pre(a, 0) = Nowhere
<1>1. << >> = Nowhere
  BY DEF Nowhere
<1>2. Nowhere \in Pfx(0)
  BY DEF Nowhere, Pfx
<1>3. \A a : Canon(a, 0) = Nowhere
  BY DEF Nowhere, Canon
<1>4. \A a : Pre(a, 0) = Nowhere
  BY DEF Nowhere, Pre
<1> QED
  BY <1>1, <1>2, <1>3, <1>4

\* x, the Lists and the temporaries hold what is allowed in their places.
HeapOK(V, h) ==
  \A d \in 0 .. Depth - 1 : \A c \in Pfx(d) :
    /\ c \in DOMAIN h /\ DOMAIN h[c] = Index
    /\ \A k \in Index : h[c][k] \in V[d + 1][Canon(Append(c, k), d + 1)]
TempsOK(V, t, a) == \A d \in 1 .. Len(t) : t[d] \in Allowed(V, a, d)
Stored(V) ==
  /\ x \in V[0][Nowhere] /\ HeapOK(V, heap)
  /\ \A p \in Proc : TempsOK(V, temp[p], Target(p))

AnyContent(V) == UNION {UNION {V[d][c] : c \in Pfx(d)} : d \in 0 .. Depth}

\* Where an assignment is and what it holds there.
Control(V) ==
  /\ kinds \in [1 .. Depth -> {"list", "value"}] /\ shared \in BOOLEAN
  /\ path \in [Proc -> Targets] /\ i \in Index
  /\ pc \in [Proc -> {"read", "back", "done", "panicked"}]
  /\ layer \in [Proc -> 1 .. Depth]
  /\ DOMAIN temp = Proc /\ \A p \in Proc : temp[p] \in Seq(AnyContent(V))
  /\ \A p \in Proc : /\ pc[p] = "read" => Len(temp[p]) = layer[p] - 1
                     /\ pc[p] \in {"back", "done"} => Len(temp[p]) = Depth - 1
                     /\ pc[p] = "back" => layer[p] < Depth

\* The layer of the innermost List; the slots of that layer are the rows.
Innermost == Max({d \in 1 .. Depth : kinds[d] = "list"} \cup {1})
Row(p) == IF kinds[Innermost] = "list"
          THEN heap[Cell(Pre(Target(p), Innermost - 1), shared)][Target(p)[Innermost]]
          ELSE x[Target(p)[1]]

\* The layers behind p are written: below the row into its temporaries, and
\* the row with the outermost of them.
BackAt(p) == IF pc[p] = "done" THEN 0 ELSE layer[p]
Value(p, d) == IF d = Depth THEN p ELSE temp[p][d]
Copied(p) == \A d \in Innermost + 1 .. Depth :
               d > BackAt(p) => temp[p][d - 1][Target(p)[d]] = Value(p, d)
Home(p) == Innermost > BackAt(p) => Row(p) = Value(p, Innermost)
AloneInRow(p) == \A q \in Proc \ {p} : ~SameRow(Target(p), Target(q))
RowsOK == \A p \in Proc : pc[p] \in {"back", "done"} /\ AloneInRow(p) => Copied(p) /\ Home(p)

\* Invariant while the variable is not assigned: some V describes the storage.
Good(V) == IsContents(V) /\ Control(V) /\ Stored(V)
Inv == moved \in BOOLEAN /\ (moved = FALSE => (RowsOK /\ \E V : Good(V)))

LEMMA TargetsIn ==
  ASSUME NEW V, Control(V), NEW p \in Proc
  PROVE  /\ Target(p) \in Place /\ \A d \in 0 .. Depth : Indexes(Target(p), d)
         /\ \A d \in 1 .. Depth : Target(p)[d] = IndexOf(p, d)
<1>1. \A d \in 1 .. Depth : IndexOf(p, d) \in Index
  BY Depths DEF Control, IndexOf, Targets, Variable, Index
<1>2. \A d \in 1 .. Depth : Target(p)[d] = IndexOf(p, d)
  BY DEF Target
<1>3. Target(p) \in Place
  BY <1>1 DEF Target, Place
<1> QED
  BY <1>1, <1>2, <1>3, Depths DEF Indexes

LEMMA InnermostIs ==
  ASSUME NEW V, Control(V)
  PROVE  /\ Innermost \in 1 .. Depth /\ Innermost \in Nat
         /\ kinds[Innermost] = "list" \/ Innermost = 1
         /\ \A d \in 1 .. Depth : kinds[d] = "list" => d <= Innermost
<1> DEFINE S == {d \in 1 .. Depth : kinds[d] = "list"} \cup {1}
           T == {Depth - d : d \in S}
<1>1. S \subseteq 1 .. Depth /\ 1 \in S
  BY Depths
<1>2. PICK m \in T : \A j \in T : m <= j
  <2>1. T \subseteq Nat /\ T # {}
    BY <1>1, Depths
  <2> HIDE DEF T
  <2> QED
    BY <2>1, Least
<1>3. PICK s \in S : m = Depth - s
  OBVIOUS
<1>4. \A d \in S : s >= d
  <2>1. \A d \in S : Depth - s <= Depth - d
    BY <1>2, <1>3
  <2> HIDE DEF S
  <2> QED
    BY <2>1, <1>1, Depths
<1>5. Max(S) \in S /\ \A d \in S : Max(S) >= d
  <2> HIDE DEF S
  <2> QED
    BY <1>4 DEF Max
<1>6. Innermost = Max(S)
  BY DEF Innermost
<1> HIDE DEF T
<1>7. Innermost \in S /\ \A d \in S : Innermost >= d
  <2> HIDE DEF S
  <2> QED
    BY <1>5, <1>6
<1> QED
  BY <1>1, <1>7, Depths

LEMMA RowsAreSlots ==
  ASSUME NEW a, NEW b
  PROVE  SameRow(a, b) <=> SameSlot(a, b, Innermost)
BY DEF SameRow, Innermost

\* The container that p holds at a layer is one allowed there.
LEMMA HeldAllowed ==
  ASSUME NEW V, IsContents(V), Control(V), Stored(V), NEW p \in Proc,
         NEW d \in 1 .. Depth, d - 1 <= Len(temp[p])
  PROVE  Held(p, d) \in Allowed(V, Target(p), d - 1)
<1>1. CASE d = 1
  <2>1. Held(p, 1) = x /\ 1 - 1 = 0
    BY DEF Held
  <2> QED
    BY <1>1, <2>1, NowhereIs DEF Allowed, Stored
<1>2. CASE d # 1
  <2>1. Len(temp[p]) \in Nat
    BY DEF Control
  <2>2. d - 1 \in 1 .. Len(temp[p])
    BY <1>2, <2>1, Depths
  <2> QED
    BY <1>2, <2>2 DEF Held, Stored, TempsOK
<1> QED
  BY <1>1, <1>2


\* AGET and FGET give what is allowed one layer further in.
LEMMA GetAllowed ==
  ASSUME NEW V, IsContents(V), Stored(V), NEW d \in 1 .. Depth, NEW a, Indexes(a, d),
         NEW f \in Allowed(V, a, d - 1)
  PROVE  /\ Get(d, f, a[d]) \in Allowed(V, a, d)
         /\ kinds[d] = "list" => Get(d, f, a[d]) = heap[Cell(Pre(a, d - 1), shared)][a[d]]
<1>1. /\ d - 1 \in Nat /\ (d - 1) + 1 = d /\ d - 1 \in 0 .. Depth - 1 /\ Indexes(a, d - 1)
      /\ a[d] \in Index
  BY Depths DEF Indexes
<1>2. CASE kinds[d] = "list"
  <2> DEFINE c == Cell(Pre(a, d - 1), shared)
  <2>1. f.ref = c
    BY <1>1, <1>2, ListAllowed
  <2>2. c \in Pfx(d - 1)
    BY <1>1, CanonIn, CellIs DEF Indexes
  <2>3. Canon(Append(c, a[d]), d) = Canon(a, d)
    <3>1. Canon(Append(c, a[d]), (d - 1) + 1) = Canon(a, (d - 1) + 1)
      BY <1>1, <1>2, CanonOfCell DEF Indexes
    <3> QED
      BY <1>1, <3>1
  <2> HIDE DEF c
  <2>4. heap[c][a[d]] \in V[(d - 1) + 1][Canon(Append(c, a[d]), (d - 1) + 1)]
    BY <1>1, <2>2 DEF Stored, HeapOK
  <2>5. Get(d, f, a[d]) = heap[c][a[d]]
    BY <1>2, <2>1 DEF Get
  <2> QED
    BY <1>1, <2>3, <2>4, <2>5 DEF Allowed, c
<1>3. CASE kinds[d] # "list"
  <2>1. f[a[(d - 1) + 1]] \in Allowed(V, a, (d - 1) + 1)
    BY <1>1, <1>3, ElementAllowed
  <2>2. Get(d, f, a[d]) = f[a[d]]
    BY <1>3 DEF Get
  <2> QED
    BY <1>1, <1>3, <2>1, <2>2
<1> QED
  BY <1>2, <1>3

-----------------------------------------------------------------------------
(* Steps that leave the variable alone.                                    *)

LEMMA FrameIs ==
  ASSUME UNCHANGED program, i' = i
  PROVE  /\ kinds' = kinds /\ shared' = shared /\ path' = path
         /\ \A p : Target(p)' = Target(p)
         /\ \A a, d : Canon(a, d)' = Canon(a, d)
         /\ \A a, b : SameRow(a, b)' = SameRow(a, b)
         /\ Innermost' = Innermost
<1>1. kinds' = kinds /\ shared' = shared /\ path' = path
  BY DEF program
<1>2. \A p : Target(p)' = Target(p)
  BY <1>1 DEF Target, IndexOf
<1>3. \A a, d : Canon(a, d)' = Canon(a, d)
  BY <1>1 DEF Canon, Inside
<1>4. \A a, b : SameRow(a, b)' = SameRow(a, b)
  BY <1>1 DEF SameRow, SameSlot
<1>5. Innermost' = Innermost
  BY <1>1 DEF Innermost
<1> QED
  BY <1>1, <1>2, <1>3, <1>4, <1>5

LEMMA ContentsStay ==
  ASSUME NEW V, IsContents(V), UNCHANGED program, i' = i
  PROVE  IsContents(V)'
<1>1. /\ kinds' = kinds /\ shared' = shared
      /\ \A p : Target(p)' = Target(p)
      /\ \A a, d : Canon(a, d)' = Canon(a, d)
  BY FrameIs
<1>2. ASSUME NEW c \in Place
      PROVE  V[Depth][c] = {None} \cup {q \in Proc : Canon(Target(q), Depth)' = c}
  BY <1>1 DEF IsContents
<1>3. ASSUME NEW d \in 0 .. Depth - 1, NEW c \in Pfx(d)
      PROVE  V[d][c] = IF kinds'[d + 1] = "list" THEN {[ref |-> Cell(c, shared')]}
                       ELSE {f \in [Index -> UNION {V[d + 1][e] : e \in Pfx(d + 1)}] :
                               \A k \in Index : f[k] \in V[d + 1][Canon(Append(c, k), d + 1)']}
  <2> DEFINE F == [Index -> UNION {V[d + 1][e] : e \in Pfx(d + 1)}]
  <2>1. \A k \in Index : Canon(Append(c, k), d + 1)' = Canon(Append(c, k), d + 1)
    BY <1>1
  <2>2. V[d][c] = IF kinds[d + 1] = "list" THEN {[ref |-> Cell(c, shared)]}
                  ELSE {f \in F : \A k \in Index : f[k] \in V[d + 1][Canon(Append(c, k), d + 1)]}
    BY DEF IsContents
  <2> HIDE DEF F
  <2>3. {f \in F : \A k \in Index : f[k] \in V[d + 1][Canon(Append(c, k), d + 1)]}
        = {f \in F : \A k \in Index : f[k] \in V[d + 1][Canon(Append(c, k), d + 1)']}
    BY <2>1
  <2>4. V[d][c] = IF kinds'[d + 1] = "list" THEN {[ref |-> Cell(c, shared')]}
                  ELSE {f \in F : \A k \in Index : f[k] \in V[d + 1][Canon(Append(c, k), d + 1)']}
    BY <1>1, <2>2, <2>3
  <2> QED
    BY <2>4 DEF F
<1> QED
  BY <1>1, <1>2, <1>3 DEF IsContents

\* An instruction that stores an allowed content in the slot of p at a layer.
LEMMA StoreAllowed ==
  ASSUME NEW V, IsContents(V), Control(V), Stored(V), NEW p \in Proc,
         NEW d \in 1 .. Depth, d - 1 <= Len(temp[p]),
         NEW v \in Allowed(V, Target(p), d), Store(p, d, Target(p)[d], v)
  PROVE  /\ x' \in V[0][Nowhere] /\ HeapOK(V, heap')
         /\ \A q \in Proc : TempsOK(V, temp'[q], Target(q))
         /\ DOMAIN temp' = Proc
         /\ \A q \in Proc : temp'[q] \in Seq(AnyContent(V)) /\ Len(temp'[q]) = Len(temp[q])
<1> DEFINE T == Target(p)
           k == T[d]
           e == d - 1
<1>1. /\ e \in 0 .. Depth - 1 /\ e + 1 = d /\ e \in Nat
      /\ Indexes(T, e) /\ Indexes(T, d) /\ k \in Index
  BY TargetsIn, Depths DEF Indexes
<1>2. Held(p, d) \in Allowed(V, T, e)
  BY HeldAllowed
<1>3. DOMAIN temp = Proc /\ \A q \in Proc : temp[q] \in Seq(AnyContent(V))
  BY DEF Control
<1>4. kinds[d] \in {"list", "value"}
  BY DEF Control
<1> HIDE DEF T, k, e
<1>5. CASE kinds[d] = "list"
  <2> DEFINE c == Cell(Pre(T, e), shared)
  <2>1. Held(p, d).ref = c
    BY <1>1, <1>2, <1>5, ListAllowed
  <2>2. c \in Pfx(e)
    BY <1>1, CanonIn, CellIs DEF Indexes
  <2>3. V[d][Canon(Append(c, k), d)] = Allowed(V, T, d)
    <3>1. Canon(Append(c, k), e + 1) = Canon(T, e + 1)
      BY <1>1, <1>5, CanonOfCell DEF Indexes, k
    <3> QED
      BY <1>1, <3>1 DEF Allowed
  <2> HIDE DEF c
  <2>4. heap' = [heap EXCEPT ![c][k] = v] /\ UNCHANGED <<x, temp>>
    BY <1>5, <2>1 DEF Store, k, T
  <2>5. c \in DOMAIN heap /\ DOMAIN heap[c] = Index
    BY <1>1, <2>2 DEF Stored, HeapOK
  <2>6. ASSUME NEW d2 \in 0 .. Depth - 1, NEW c2 \in Pfx(d2)
        PROVE  /\ c2 \in DOMAIN heap' /\ DOMAIN heap'[c2] = Index
               /\ \A k2 \in Index : heap'[c2][k2] \in V[d2 + 1][Canon(Append(c2, k2), d2 + 1)]
    <3>1. /\ c2 \in DOMAIN heap /\ DOMAIN heap[c2] = Index
          /\ \A k2 \in Index : heap[c2][k2] \in V[d2 + 1][Canon(Append(c2, k2), d2 + 1)]
      BY DEF Stored, HeapOK
    <3>2. CASE c2 # c
      <4>1. heap'[c2] = heap[c2] /\ DOMAIN heap' = DOMAIN heap
        BY <2>4, <2>5, <3>1, <3>2
      <4> QED
        BY <3>1, <4>1
    <3>3. CASE c2 = c
      <4>1. d2 = e
        <5>1. DOMAIN c = 1 .. e /\ DOMAIN c2 = 1 .. d2
          BY <2>2 DEF Pfx
        <5>2. d2 \in Nat
          BY Depths
        <5> QED
          BY <1>1, <3>3, <5>1, <5>2
      <4>2. DOMAIN heap' = DOMAIN heap /\ heap'[c] = [heap[c] EXCEPT ![k] = v]
        BY <2>4, <2>5
      <4>3. \A k2 \in Index : heap'[c][k2] = IF k2 = k THEN v ELSE heap[c][k2]
        BY <2>5, <4>2
      <4>4. v \in V[d2 + 1][Canon(Append(c2, k), d2 + 1)]
        BY <1>1, <2>3, <3>3, <4>1 DEF T
      <4> QED
        BY <2>5, <3>1, <3>3, <4>2, <4>3, <4>4
    <3> QED
      BY <3>2, <3>3
  <2>7. HeapOK(V, heap')
    BY <2>6 DEF HeapOK
  <2> QED
    BY <1>3, <2>4, <2>7 DEF Stored
<1>6. CASE kinds[d] = "value" /\ d = 1
  <2>1. x' = [x EXCEPT ![k] = v] /\ UNCHANGED <<heap, temp>>
    BY <1>6 DEF Store, k, T
  <2>2. x \in Allowed(V, T, e) /\ e = 0
    BY <1>1, <1>2, <1>6 DEF Held
  <2>3. [x EXCEPT ![T[e + 1]] = v] \in Allowed(V, T, e)
    BY <1>1, <1>6, <2>2, UpdateAllowed DEF T
  <2>4. x' \in Allowed(V, T, 0)
    BY <1>1, <2>1, <2>2, <2>3 DEF k
  <2> QED
    BY <1>3, <2>1, <2>4, NowhereIs DEF Stored, Allowed
<1>7. CASE kinds[d] = "value" /\ d > 1
  <2> DEFINE t == temp[p][e]
             u == [t EXCEPT ![k] = v]
             s == temp[p]
  <2>1. temp' = [temp EXCEPT ![p][e][k] = v] /\ UNCHANGED <<x, heap>>
    BY <1>7 DEF Store, k, T, e
  <2>2. t \in Allowed(V, T, e) /\ e # 0
    BY <1>1, <1>2, <1>7 DEF Held, e
  <2>3. u \in Allowed(V, T, e)
    <3>1. [t EXCEPT ![T[e + 1]] = v] \in Allowed(V, T, e)
      BY <1>1, <1>7, <2>2, UpdateAllowed DEF T
    <3> QED
      BY <1>1, <3>1 DEF k
  <2>4. s \in Seq(AnyContent(V)) /\ e \in 1 .. Len(s)
    BY <1>1, <1>3, <2>2 DEF e
  <2>5. u \in AnyContent(V)
    <3>1. Canon(T, e) \in Pfx(e)
      BY <1>1, CanonIn DEF Indexes
    <3>2. e \in 0 .. Depth
      BY <1>1, Depths
    <3> HIDE DEF u
    <3> QED
      BY <2>3, <3>1, <3>2 DEF AnyContent, Allowed
  <2> HIDE DEF u
  <2>6. temp'[p] = [s EXCEPT ![e] = u] /\ DOMAIN temp' = Proc
        /\ \A q \in Proc \ {p} : temp'[q] = temp[q]
    BY <1>3, <2>1 DEF u
  <2> HIDE DEF s, t
  <2>7. temp'[p] \in Seq(AnyContent(V)) /\ Len(temp'[p]) = Len(s)
        /\ \A j \in 1 .. Len(s) : temp'[p][j] = IF j = e THEN u ELSE s[j]
    BY <2>4, <2>5, <2>6
  <2>8. TempsOK(V, s, T)
    BY DEF Stored, s, T
  <2>9. TempsOK(V, temp'[p], T)
    BY <2>3, <2>7, <2>8 DEF TempsOK
  <2> QED
    BY <1>3, <2>1, <2>6, <2>7, <2>9 DEF Stored, s, T
<1> QED
  BY <1>4, <1>5, <1>6, <1>7, Depths

\* The same instruction leaves the rows of the others as they are.
LEMMA StoreElsewhere ==
  ASSUME NEW V, IsContents(V), Control(V), Stored(V), NEW p \in Proc,
         NEW d \in 1 .. Depth, d - 1 <= Len(temp[p]),
         NEW v, Store(p, d, Target(p)[d], v), UNCHANGED program, i' = i,
         NEW q \in Proc \ {p}, ~SameRow(Target(q), Target(p))
  PROVE  Row(q)' = Row(q) /\ temp'[q] = temp[q]
<1> DEFINE T == Target(p)
           U == Target(q)
           L == Innermost
           C == Cell(Pre(U, L - 1), shared)
<1>1. /\ kinds' = kinds /\ shared' = shared /\ Innermost' = L /\ Target(q)' = U
  BY FrameIs
<1>2. /\ L \in 1 .. Depth /\ (kinds[L] = "list" \/ L = 1) /\ L - 1 \in Nat /\ L \in Nat \ {0}
      /\ \A j \in 1 .. Depth : kinds[j] = "list" => j <= L
  BY InnermostIs
<1>3. ~SameSlot(U, T, L)
  BY RowsAreSlots
<1>4. Indexes(U, L - 1) /\ Indexes(T, d - 1) /\ Indexes(T, d) /\ T[d] \in Index /\ U[L] \in Index
      /\ d - 1 \in 0 .. Depth - 1 /\ (d - 1) + 1 = d /\ d - 1 \in Nat
  BY <1>2, TargetsIn, Depths DEF Indexes
<1>5. C \in Pfx(L - 1)
  BY <1>2, <1>4, CanonIn, CellIs DEF Indexes
<1>6. DOMAIN temp = Proc /\ kinds[d] \in {"list", "value"}
  BY DEF Control
<1>7. /\ Row(q) = IF kinds[L] = "list" THEN heap[C][U[L]] ELSE x[U[1]]
      /\ Row(q)' = IF kinds[L] = "list" THEN heap'[C][U[L]] ELSE x'[U[1]]
  BY <1>1 DEF Row
<1> HIDE DEF T, U, L, C
<1>8. CASE kinds[d] = "list"
  <2> DEFINE c == Cell(Pre(T, d - 1), shared)
  <2>1. Held(p, d) \in Allowed(V, T, d - 1)
    BY HeldAllowed DEF T
  <2>2. Held(p, d).ref = c
    BY <1>4, <1>8, <2>1, ListAllowed
  <2>3. c \in Pfx(d - 1) /\ c = [j \in 1 .. d - 1 |-> IF j = 1 /\ shared THEN 1 ELSE Pre(T, d - 1)[j]]
    BY <1>4, CanonIn, CellIs DEF Indexes
  <2>4. C = [j \in 1 .. L - 1 |-> IF j = 1 /\ shared THEN 1 ELSE Pre(U, L - 1)[j]]
    BY <1>2, <1>4, CanonIn, CellIs DEF Indexes, C
  <2> HIDE DEF c
  <2>5. heap' = [heap EXCEPT ![c][T[d]] = v] /\ UNCHANGED <<x, temp>>
    BY <1>8, <2>2 DEF Store, T
  <2>6. c \in DOMAIN heap /\ DOMAIN heap[c] = Index
    BY <1>4, <2>3 DEF Stored, HeapOK
  <2>7. CASE kinds[L] = "list"
    <3>1. C \in DOMAIN heap
      <4>1. L - 1 \in 0 .. Depth - 1
        BY <1>2, Depths
      <4> QED
        BY <1>5, <4>1 DEF Stored, HeapOK
    <3>2. C # c \/ U[L] # T[d]
      <4> SUFFICES ASSUME C = c, U[L] = T[d] PROVE FALSE
        OBVIOUS
      <4>1. L = d
        <5>1. DOMAIN c = 1 .. d - 1 /\ DOMAIN C = 1 .. L - 1
          BY <1>5, <2>3 DEF Pfx
        <5>2. L - 1 = d - 1
          BY <1>2, <1>4, <5>1
        <5> QED
          BY <1>2, <5>2
      <4>2. \A j \in 1 .. L - 1 : (IF j = 1 /\ shared THEN 1 ELSE Pre(T, d - 1)[j])
                                = (IF j = 1 /\ shared THEN 1 ELSE Pre(U, L - 1)[j])
        BY <2>3, <2>4, <4>1
      <4>3. \A j \in 1 .. L - 1 : (j = 1 /\ shared) \/ U[j] = T[j]
        BY <4>1, <4>2 DEF Pre
      <4>4. \A j \in 2 .. L : U[j] = T[j]
        BY <1>2, <4>1, <4>3
      <4>5. U[1] = T[1] \/ (shared /\ L \in 2 .. L)
        BY <1>2, <4>1, <4>3
      <4> QED
        BY <1>3, <2>7, <4>4, <4>5 DEF SameSlot
    <3>3. heap'[C][U[L]] = heap[C][U[L]]
      BY <2>5, <2>6, <3>1, <3>2
    <3> QED
      BY <1>7, <2>5, <2>7, <3>3
  <2>8. CASE kinds[L] # "list"
    BY <1>7, <2>5, <2>8
  <2> QED
    BY <2>7, <2>8
<1>9. CASE kinds[d] = "value" /\ d = 1
  <2>1. x' = [x EXCEPT ![T[1]] = v] /\ UNCHANGED <<heap, temp>>
    BY <1>9 DEF Store, T
  <2>2. kinds[L] # "list" => L = 1 /\ U[1] # T[1]
    BY <1>2, <1>3 DEF SameSlot
  <2>3. x \in Allowed(V, T, 0)
    BY NowhereIs DEF Allowed, Stored
  <2>4. DOMAIN x = Index
    BY <1>4, <1>9, <2>3, ElementAllowed
  <2> QED
    BY <1>7, <2>1, <2>2, <2>4
<1>10. CASE kinds[d] = "value" /\ d > 1
  <2>1. temp' = [temp EXCEPT ![p][d - 1][T[d]] = v] /\ UNCHANGED <<x, heap>>
    BY <1>10 DEF Store, T
  <2>2. temp'[q] = temp[q]
    BY <1>6, <2>1
  <2> QED
    BY <1>7, <2>1, <2>2
<1> QED
  BY <1>4, <1>6, <1>8, <1>9, <1>10

\* And what it does to the row and the temporaries of p itself.
LEMMA StoreHere ==
  ASSUME NEW V, IsContents(V), Control(V), Stored(V), NEW p \in Proc,
         NEW d \in 1 .. Depth, d - 1 <= Len(temp[p]),
         NEW v, Store(p, d, Target(p)[d], v), UNCHANGED program, i' = i
  PROVE  /\ d < Innermost => /\ Row(p)' = Row(p)
                             /\ \A e \in Innermost .. Len(temp[p]) : temp'[p][e] = temp[p][e]
         /\ d = Innermost => Row(p)' = v /\ temp' = temp
         /\ d > Innermost => /\ Row(p)' = Row(p) /\ temp'[p][d - 1][Target(p)[d]] = v
                             /\ \A e \in 1 .. Len(temp[p]) : e # d - 1 => temp'[p][e] = temp[p][e]
<1> DEFINE T == Target(p)
           L == Innermost
           C == Cell(Pre(T, L - 1), shared)
<1>1. /\ kinds' = kinds /\ shared' = shared /\ Innermost' = L /\ Target(p)' = T
  BY FrameIs
<1>2. /\ L \in 1 .. Depth /\ (kinds[L] = "list" \/ L = 1) /\ L - 1 \in Nat /\ L \in Nat \ {0}
      /\ \A j \in 1 .. Depth : kinds[j] = "list" => j <= L
  BY InnermostIs
<1>3. Indexes(T, L - 1) /\ Indexes(T, d - 1) /\ Indexes(T, d) /\ T[d] \in Index /\ T[L] \in Index
      /\ d - 1 \in 0 .. Depth - 1 /\ (d - 1) + 1 = d /\ d - 1 \in Nat /\ L - 1 \in 0 .. Depth - 1
  BY <1>2, TargetsIn, Depths DEF Indexes
<1>4. C \in Pfx(L - 1)
  BY <1>2, <1>3, CanonIn, CellIs DEF Indexes
<1>5. /\ DOMAIN temp = Proc /\ kinds[d] \in {"list", "value"} /\ Len(temp[p]) \in Nat
      /\ temp[p] \in Seq(AnyContent(V))
  BY DEF Control
<1>6. /\ Row(p) = IF kinds[L] = "list" THEN heap[C][T[L]] ELSE x[T[1]]
      /\ Row(p)' = IF kinds[L] = "list" THEN heap'[C][T[L]] ELSE x'[T[1]]
  BY <1>1 DEF Row
<1>7. C \in DOMAIN heap /\ DOMAIN heap[C] = Index
  BY <1>3, <1>4 DEF Stored, HeapOK
<1>8. Held(p, d) \in Allowed(V, T, d - 1)
  BY HeldAllowed
<1> HIDE DEF T, L
<1>9. CASE kinds[d] = "list"
  <2> DEFINE c == Cell(Pre(T, d - 1), shared)
  <2>1. Held(p, d).ref = c
    BY <1>3, <1>8, <1>9, ListAllowed
  <2>2. c \in Pfx(d - 1)
    BY <1>3, CanonIn, CellIs DEF Indexes
  <2>3. d <= L
    BY <1>2, <1>9
  <2>4. d = L => c = C
    OBVIOUS
  <2>5. d # L => c # C
    <3>1. c = C => 1 .. d - 1 = 1 .. L - 1
      BY <1>4, <2>2 DEF Pfx
    <3> QED
      BY <1>2, <1>3, <3>1
  <2>6. d < L => kinds[L] = "list"
    BY <1>2, <1>3
  <2> HIDE DEF c, C
  <2>7. heap' = [heap EXCEPT ![c][T[d]] = v] /\ UNCHANGED <<x, temp>>
    BY <1>9, <2>1 DEF Store, T
  <2>8. CASE d = L
    <3>1. heap'[C][T[L]] = v
      BY <1>3, <1>7, <2>4, <2>7, <2>8
    <3> QED
      BY <1>6, <1>9, <2>7, <2>8, <3>1 DEF L
  <2>9. CASE d # L
    <3>1. heap'[C] = heap[C]
      BY <1>7, <2>5, <2>7, <2>9
    <3>2. d < L /\ ~(d > L)
      BY <1>2, <2>3, <2>9
    <3> QED
      BY <1>6, <2>6, <2>7, <3>1, <3>2 DEF L
  <2> QED
    BY <2>8, <2>9
<1>10. CASE kinds[d] = "value" /\ d = 1
  <2>1. x' = [x EXCEPT ![T[1]] = v] /\ UNCHANGED <<heap, temp>>
    BY <1>10 DEF Store, T
  <2>2. x \in Allowed(V, T, 0)
    BY NowhereIs DEF Allowed, Stored
  <2>3. DOMAIN x = Index
    BY <1>3, <1>10, <2>2, ElementAllowed
  <2>4. d = L => x'[T[1]] = v /\ kinds[L] # "list"
    BY <1>3, <1>10, <2>1, <2>3
  <2>5. d < L => kinds[L] = "list"
    BY <1>2, <1>10
  <2>6. ~(d > L)
    BY <1>2, <1>10
  <2> QED
    BY <1>6, <2>1, <2>4, <2>5, <2>6 DEF L, T
<1>11. CASE kinds[d] = "value" /\ d > 1
  <2>1. temp' = [temp EXCEPT ![p][d - 1][T[d]] = v] /\ UNCHANGED <<x, heap>>
    BY <1>11 DEF Store, T
  <2>2. Row(p)' = Row(p)
    BY <1>6, <2>1
  <2>3. d - 1 \in 1 .. Len(temp[p])
    BY <1>3, <1>5, <1>11
  <2>4. temp[p][d - 1] \in Allowed(V, T, d - 1)
    BY <1>8, <1>11 DEF Held
  <2>5. DOMAIN temp[p][d - 1] = Index
    BY <1>3, <1>11, <2>4, ElementAllowed
  <2>6. temp'[p] = [temp[p] EXCEPT ![d - 1] = [temp[p][d - 1] EXCEPT ![T[d]] = v]]
    BY <1>5, <2>1
  <2>7. \A e \in 1 .. Len(temp[p]) : e # d - 1 => temp'[p][e] = temp[p][e]
    BY <1>5, <2>3, <2>6
  <2>8. temp'[p][d - 1][T[d]] = v
    BY <1>3, <1>5, <2>3, <2>5, <2>6
  <2>9. d # L
    BY <1>2, <1>11
  <2>10. d < L => \A e \in L .. Len(temp[p]) : e \in 1 .. Len(temp[p]) /\ e # d - 1
    BY <1>2, <1>3, <1>5
  <2> QED
    BY <2>2, <2>7, <2>8, <2>9, <2>10 DEF L, T
<1> QED
  BY <1>3, <1>5, <1>9, <1>10, <1>11

-----------------------------------------------------------------------------
(* The steps.                                                              *)

\* An assignment that is at layer d puts there what it has of that layer.
LEMMA StoreOK ==
  ASSUME NEW V, Good(V), RowsOK, UNCHANGED <<program, i>>, NEW p \in Proc, NEW d \in 1 .. Depth,
         Len(temp[p]) = Depth - 1, Value(p, d) \in Allowed(V, Target(p), d),
         Store(p, d, Target(p)[d], Value(p, d)),
         d = Depth \/ (pc[p] = "back" /\ layer[p] = d),
         NEW next, NEW towards \in 1 .. Depth,
         pc' = [pc EXCEPT ![p] = next], layer' = [layer EXCEPT ![p] = towards],
         (next = "done" /\ d = 1) \/ (next = "back" /\ towards = d - 1)
  PROVE  Good(V)' /\ RowsOK'
<1> DEFINE T == Target(p)
           L == Innermost
<1>1. IsContents(V) /\ Control(V) /\ Stored(V) /\ UNCHANGED program /\ i' = i
  BY DEF Good
<1>2. /\ kinds' = kinds /\ shared' = shared /\ path' = path /\ Innermost' = L
      /\ \A q : Target(q)' = Target(q)
      /\ \A a, b : SameRow(a, b)' = SameRow(a, b)
      /\ \A a, e : Canon(a, e)' = Canon(a, e)
  BY <1>1, FrameIs
<1>3. d - 1 <= Len(temp[p]) /\ d - 1 < Depth
  BY Depths
<1>4. /\ x' \in V[0][Nowhere] /\ HeapOK(V, heap')
      /\ \A q \in Proc : TempsOK(V, temp'[q], Target(q))
      /\ DOMAIN temp' = Proc
      /\ \A q \in Proc : temp'[q] \in Seq(AnyContent(V)) /\ Len(temp'[q]) = Len(temp[q])
  <2>1. PICK v : v = Value(p, d)
    OBVIOUS
  <2> QED
    BY <1>1, <1>3, <2>1, StoreAllowed
<1>5. IsContents(V)'
  BY <1>1, ContentsStay
<1>6. Stored(V)'
  <2>1. HeapOK(V, heap)'
    BY <1>2, <1>4 DEF HeapOK
  <2>2. \A q \in Proc : TempsOK(V, temp[q], Target(q))'
    BY <1>2, <1>4 DEF TempsOK, Allowed
  <2> QED
    BY <1>4, <2>1, <2>2 DEF Stored
<1>7. /\ pc'[p] = next /\ layer'[p] = towards /\ next \in {"back", "done"}
      /\ \A q \in Proc \ {p} : pc'[q] = pc[q] /\ layer'[q] = layer[q]
  BY <1>1 DEF Control
<1>8. Control(V)'
  <2>1. /\ pc' \in [Proc -> {"read", "back", "done", "panicked"}]
        /\ layer' \in [Proc -> 1 .. Depth]
    BY <1>1, <1>7 DEF Control
  <2>2. /\ kinds' \in [1 .. Depth -> {"list", "value"}] /\ shared' \in BOOLEAN
        /\ path' \in [Proc -> Targets] /\ i' \in Index
    BY <1>1, <1>2 DEF Control
  <2>3. ASSUME NEW q \in Proc
        PROVE  /\ pc'[q] = "read" => Len(temp'[q]) = layer'[q] - 1
               /\ pc'[q] \in {"back", "done"} => Len(temp'[q]) = Depth - 1
               /\ pc'[q] = "back" => layer'[q] < Depth
    <3>1. CASE q = p
      BY <1>3, <1>4, <1>7, <3>1
    <3>2. CASE q # p
      BY <1>1, <1>4, <1>7, <3>2 DEF Control
    <3> QED
      BY <3>1, <3>2
  <2> QED
    BY <1>4, <2>1, <2>2, <2>3 DEF Control, AnyContent
<1>9. ASSUME NEW q \in Proc \ {p}, pc'[q] \in {"back", "done"}, AloneInRow(q)'
      PROVE  Copied(q)' /\ Home(q)'
  <2>1. AloneInRow(q)
    BY <1>2, <1>9 DEF AloneInRow
  <2>2. ~SameRow(Target(q), Target(p))
    BY <2>1 DEF AloneInRow
  <2>3. Row(q)' = Row(q) /\ temp'[q] = temp[q]
    <3>1. PICK v : v = Value(p, d)
      OBVIOUS
    <3> QED
      BY <1>1, <1>3, <2>2, <3>1, StoreElsewhere
  <2>4. Copied(q) /\ Home(q)
    BY <1>7, <1>9, <2>1 DEF RowsOK
  <2>5. BackAt(q)' = BackAt(q) /\ \A e : Value(q, e)' = Value(q, e)
    BY <1>7, <2>3 DEF BackAt, Value
  <2>6. Copied(q)'
    BY <1>2, <2>3, <2>4, <2>5 DEF Copied
  <2>7. Home(q)'
    BY <1>2, <2>3, <2>4, <2>5 DEF Home
  <2> QED
    BY <2>6, <2>7
<1>10. ASSUME AloneInRow(p)' PROVE Copied(p)' /\ Home(p)'
  <2>1. AloneInRow(p)
    BY <1>2, <1>10 DEF AloneInRow
  <2>2. /\ d < L => /\ Row(p)' = Row(p)
                    /\ \A e \in L .. Len(temp[p]) : temp'[p][e] = temp[p][e]
        /\ d = L => Row(p)' = Value(p, d) /\ temp' = temp
        /\ d > L => /\ Row(p)' = Row(p) /\ temp'[p][d - 1][T[d]] = Value(p, d)
                    /\ \A e \in 1 .. Len(temp[p]) : e # d - 1 => temp'[p][e] = temp[p][e]
    <3>1. PICK v : v = Value(p, d)
      OBVIOUS
    <3> QED
      BY <1>1, <1>3, <3>1, StoreHere
  <2>3. BackAt(p)' = d - 1
    BY <1>7 DEF BackAt
  <2>4. d # Depth => Copied(p) /\ Home(p) /\ BackAt(p) = d
    BY <2>1 DEF RowsOK, BackAt
  <2>5. L \in 1 .. Depth /\ L \in Nat
    BY <1>1, InnermostIs
  <2>6. \A e \in 1 .. Depth : e >= d /\ e >= L => Value(p, e)' = Value(p, e)
    <3>1. ASSUME NEW e \in 1 .. Depth, e >= d, e >= L, e # Depth PROVE temp'[p][e] = temp[p][e]
      <4>1. e \in L .. Len(temp[p]) /\ e \in 1 .. Len(temp[p]) /\ e # d - 1
        BY <2>5, <3>1, Depths
      <4> QED
        BY <2>2, <4>1, <2>5
    <3> QED
      BY <3>1 DEF Value
  <2> HIDE DEF T, L
  <2>7. Copied(p)'
    <3>1. SUFFICES ASSUME NEW e \in L + 1 .. Depth, e > d - 1
                   PROVE  temp'[p][e - 1][T[e]] = Value(p, e)'
      BY <1>2, <2>3 DEF Copied, T, L
    <3>2. e \in 1 .. Depth /\ e >= d /\ e >= L /\ e > L
      BY <2>5, <3>1
    <3>3. Value(p, e)' = Value(p, e)
      BY <2>6, <3>2
    <3>4. CASE e = d
      BY <2>2, <3>2, <3>3, <3>4
    <3>5. CASE e # d
      <4>1. e > d /\ d # Depth /\ e - 1 \in L .. Len(temp[p]) /\ e - 1 \in 1 .. Len(temp[p]) /\ e - 1 # d - 1
        BY <2>5, <3>2, <3>5, Depths
      <4>2. temp[p][e - 1][T[e]] = Value(p, e)
        BY <2>4, <4>1 DEF Copied, T, L
      <4>3. temp'[p][e - 1] = temp[p][e - 1]
        BY <2>2, <2>5, <4>1
      <4> QED
        BY <3>3, <4>2, <4>3
    <3> QED
      BY <3>4, <3>5
  <2>8. Home(p)'
    <3>1. SUFFICES ASSUME L > d - 1 PROVE Row(p)' = Value(p, L)'
      BY <1>2, <2>3 DEF Home, L
    <3>2. Value(p, L)' = Value(p, L)
      <4>1. L \in 1 .. Depth /\ L >= d /\ L >= L
        BY <2>5, <3>1
      <4>2. PICK e \in 1 .. Depth : e = L
        BY <4>1
      <4>3. L' = L
        BY <1>2 DEF L
      <4>4. Value(p, e)' = Value(p, e)
        BY <2>6, <4>1, <4>2
      <4> QED
        BY <4>2, <4>3, <4>4 DEF Value
    <3>3. CASE L = d
      BY <2>2, <3>2, <3>3
    <3>4. CASE L # d
      <4>1. L > d /\ d # Depth /\ d < L
        BY <2>5, <3>1, <3>4
      <4> QED
        BY <2>2, <2>4, <3>2, <4>1 DEF Home, L
    <3> QED
      BY <3>3, <3>4
  <2> QED
    BY <2>7, <2>8
<1>11. RowsOK'
  BY <1>9, <1>10 DEF RowsOK
<1> QED
  BY <1>5, <1>6, <1>8, <1>11 DEF Good

LEMMA ReadOK ==
  ASSUME NEW V, Good(V), RowsOK, NEW p \in Proc, Read(p)
  PROVE  Good(V)' /\ RowsOK'
<1> DEFINE T == Target(p)
           d == layer[p]
           v == Get(d, Held(p, d), IndexOf(p, d))
<1>1. IsContents(V) /\ Control(V) /\ Stored(V) /\ UNCHANGED program /\ i' = i
  BY DEF Good, Read, At
<1>2. /\ kinds' = kinds /\ shared' = shared /\ path' = path /\ Innermost' = Innermost
      /\ \A q : Target(q)' = Target(q)
      /\ \A a, b : SameRow(a, b)' = SameRow(a, b)
      /\ \A a, e : Canon(a, e)' = Canon(a, e)
  BY <1>1, FrameIs
<1>3. /\ d \in 1 .. Depth /\ d < Depth /\ pc[p] = "read" /\ Len(temp[p]) = d - 1
      /\ temp[p] \in Seq(AnyContent(V)) /\ d - 1 \in 0 .. Depth - 1 /\ (d - 1) + 1 = d
      /\ d - 1 \in Nat
  BY <1>1, Depths DEF Control, Read, At
<1>4. /\ pc' = [pc EXCEPT ![p] = "read"] /\ layer' = [layer EXCEPT ![p] = d + 1]
      /\ temp' = [temp EXCEPT ![p] = Append(temp[p], v)] /\ UNCHANGED <<x, heap>>
  BY DEF Read, At
<1>5. Held(p, d) \in Allowed(V, T, d - 1)
  BY <1>1, <1>3, HeldAllowed
<1>6. T[d] = IndexOf(p, d) /\ T[d] \in Index /\ Indexes(T, d - 1) /\ Indexes(T, d)
  BY <1>1, <1>3, TargetsIn DEF Indexes
<1>7. v \in Allowed(V, T, d)
  <2>1. PICK f : f = Held(p, d)
    OBVIOUS
  <2> QED
    BY <1>1, <1>3, <1>5, <1>6, <2>1, GetAllowed
<1> HIDE DEF v
<1>8. DOMAIN temp = Proc
  BY <1>1 DEF Control
<1>9. /\ temp'[p] = Append(temp[p], v) /\ DOMAIN temp' = Proc
      /\ \A q \in Proc \ {p} : temp'[q] = temp[q] /\ pc'[q] = pc[q] /\ layer'[q] = layer[q]
      /\ pc'[p] = "read" /\ layer'[p] = d + 1
  BY <1>1, <1>4, <1>8 DEF Control
<1>10. v \in AnyContent(V)
  <2>1. Canon(T, d) \in Pfx(d)
    BY <1>3, <1>6, CanonIn DEF Indexes
  <2>2. d \in 0 .. Depth
    BY <1>3
  <2> QED
    BY <1>7, <2>1, <2>2 DEF AnyContent, Allowed
<1>11. /\ temp'[p] \in Seq(AnyContent(V)) /\ Len(temp'[p]) = d
       /\ \A e \in 1 .. d : temp'[p][e] = IF e = d THEN v ELSE temp[p][e]
  BY <1>3, <1>9, <1>10
<1> HIDE DEF T, d
<1>12. IsContents(V)'
  BY <1>1, ContentsStay
<1>13. Stored(V)'
  <2>1. HeapOK(V, heap)'
    BY <1>1, <1>2, <1>4 DEF HeapOK, Stored
  <2>2. ASSUME NEW q \in Proc PROVE TempsOK(V, temp[q], Target(q))'
    <3>1. TempsOK(V, temp[q], Target(q))
      BY <1>1 DEF Stored
    <3>2. CASE q # p
      BY <1>2, <1>9, <3>1, <3>2 DEF TempsOK, Allowed
    <3>3. CASE q = p
      <4>1. \A e \in 1 .. d : temp'[p][e] \in Allowed(V, T, e)
        BY <1>3, <1>7, <1>11, <3>1, <3>3 DEF TempsOK, T
      <4> QED
        BY <1>2, <1>11, <3>3, <4>1 DEF TempsOK, Allowed, T
    <3> QED
      BY <3>2, <3>3
  <2> QED
    BY <1>1, <1>4, <2>1, <2>2 DEF Stored
<1>14. Control(V)'
  <2>1. /\ pc' \in [Proc -> {"read", "back", "done", "panicked"}]
        /\ layer' \in [Proc -> 1 .. Depth]
    BY <1>1, <1>3, <1>4, Depths DEF Control
  <2>2. /\ kinds' \in [1 .. Depth -> {"list", "value"}] /\ shared' \in BOOLEAN
        /\ path' \in [Proc -> Targets] /\ i' \in Index
    BY <1>1, <1>2 DEF Control
  <2>3. ASSUME NEW q \in Proc
        PROVE  /\ temp'[q] \in Seq(AnyContent(V))
               /\ pc'[q] = "read" => Len(temp'[q]) = layer'[q] - 1
               /\ pc'[q] \in {"back", "done"} => Len(temp'[q]) = Depth - 1
               /\ pc'[q] = "back" => layer'[q] < Depth
    <3>1. CASE q = p
      BY <1>3, <1>9, <1>11, <3>1
    <3>2. CASE q # p
      BY <1>1, <1>9, <3>2 DEF Control
    <3> QED
      BY <3>1, <3>2
  <2> QED
    BY <1>9, <2>1, <2>2, <2>3 DEF Control, AnyContent
<1>15. ASSUME NEW q \in Proc, pc'[q] \in {"back", "done"}, AloneInRow(q)'
       PROVE  Copied(q)' /\ Home(q)'
  <2>1. q # p
    BY <1>9, <1>15
  <2>2. AloneInRow(q)
    BY <1>2, <1>15 DEF AloneInRow
  <2>3. Row(q)' = Row(q) /\ temp'[q] = temp[q]
    BY <1>2, <1>4, <1>9, <2>1 DEF Row
  <2>4. Copied(q) /\ Home(q)
    BY <1>9, <1>15, <2>1, <2>2 DEF RowsOK
  <2>5. BackAt(q)' = BackAt(q) /\ \A e : Value(q, e)' = Value(q, e)
    BY <1>9, <2>1, <2>3 DEF BackAt, Value
  <2>6. Copied(q)'
    BY <1>2, <2>3, <2>4, <2>5 DEF Copied
  <2>7. Home(q)'
    BY <1>2, <2>3, <2>4, <2>5 DEF Home
  <2> QED
    BY <2>6, <2>7
<1> QED
  BY <1>12, <1>13, <1>14, <1>15 DEF Good, RowsOK

LEMMA SetOK ==
  ASSUME NEW V, Good(V), RowsOK, NEW p \in Proc, Set(p)
  PROVE  Good(V)' /\ RowsOK'
<1>1. IsContents(V) /\ Control(V) /\ Stored(V) /\ UNCHANGED <<program, i>>
  BY DEF Good, Set, At
<1>2. Depth \in 1 .. Depth /\ Value(p, Depth) = p
  BY Depths DEF Value
<1>3. /\ Target(p) \in Place /\ Indexes(Target(p), Depth) /\ Target(p)[Depth] = IndexOf(p, Depth)
  BY <1>1, <1>2, TargetsIn, Depths
<1>4. Len(temp[p]) = Depth - 1
  BY <1>1 DEF Control, Set, At
<1>5. p \in Allowed(V, Target(p), Depth)
  <2>1. Canon(Target(p), Depth) \in Place
    BY <1>3, CanonIn, Depths DEF Indexes, Pfx, Place
  <2> QED
    BY <1>1, <2>1 DEF IsContents, Allowed
<1>6. Store(p, Depth, Target(p)[Depth], Value(p, Depth))
  BY <1>2, <1>3 DEF Set
<1>7. CASE Depth = 1
  <2>1. pc' = [pc EXCEPT ![p] = "done"] /\ layer' = [layer EXCEPT ![p] = 1]
    BY <1>7 DEF Set, At
  <2> QED
    BY <1>1, <1>2, <1>4, <1>5, <1>6, <1>7, <2>1, StoreOK, ZenonT(60)
<1>8. CASE Depth # 1
  <2>1. pc' = [pc EXCEPT ![p] = "back"] /\ layer' = [layer EXCEPT ![p] = Depth - 1]
    BY <1>8 DEF Set, At
  <2>2. Depth - 1 \in 1 .. Depth
    BY <1>8, Depths
  <2>3. PICK s : s = Depth - 1
    OBVIOUS
  <2> QED
    BY <1>1, <1>2, <1>4, <1>5, <1>6, <1>8, <2>1, <2>2, <2>3, StoreOK, ZenonT(60)
<1> QED
  BY <1>7, <1>8

LEMMA WriteBackOK ==
  ASSUME NEW V, Good(V), RowsOK, NEW p \in Proc, WriteBack(p)
  PROVE  Good(V)' /\ RowsOK'
<1>1. IsContents(V) /\ Control(V) /\ Stored(V) /\ UNCHANGED <<program, i>>
  BY DEF Good, WriteBack, At
<1>2. PICK d \in 1 .. Depth : d = layer[p]
  BY <1>1 DEF Control
<1>3. pc[p] = "back" /\ d < Depth /\ Len(temp[p]) = Depth - 1
  BY <1>1, <1>2 DEF Control, WriteBack, At
<1>4. Value(p, d) = temp[p][d]
  BY <1>3 DEF Value
<1>5. Target(p)[d] = IndexOf(p, d)
  BY <1>1, TargetsIn
<1>6. Value(p, d) \in Allowed(V, Target(p), d)
  <2>1. d \in 1 .. Len(temp[p])
    BY <1>3, Depths
  <2> QED
    BY <1>1, <1>4, <2>1 DEF Stored, TempsOK
<1>7. Store(p, d, Target(p)[d], Value(p, d))
  BY <1>2, <1>4, <1>5 DEF WriteBack
<1>8. CASE d = 1
  <2>1. pc' = [pc EXCEPT ![p] = "done"] /\ layer' = [layer EXCEPT ![p] = 1]
    BY <1>2, <1>8 DEF WriteBack, At
  <2> QED
    BY <1>1, <1>2, <1>3, <1>6, <1>7, <1>8, <2>1, StoreOK, ZenonT(60)
<1>9. CASE d # 1
  <2>1. pc' = [pc EXCEPT ![p] = "back"] /\ layer' = [layer EXCEPT ![p] = d - 1]
    BY <1>2, <1>9 DEF WriteBack, At
  <2>2. d - 1 \in 1 .. Depth
    BY <1>9, Depths
  <2>3. PICK s : s = d - 1
    OBVIOUS
  <2> QED
    BY <1>1, <1>2, <1>3, <1>6, <1>7, <2>1, <2>2, <2>3, StoreOK, ZenonT(60)
<1> QED
  BY <1>8, <1>9

\* As long as the variable keeps its value, no index is out of range.
LEMMA NoPanic ==
  ASSUME NEW V, Good(V), NEW p \in Proc, Panic(p)
  PROVE  FALSE
<1>1. layer[p] \in 1 .. Depth /\ path \in [Proc -> Targets] /\ i \in Index
  BY DEF Good, Control
<1>2. IndexOf(p, layer[p]) \in Index
  BY <1>1, Depths DEF IndexOf, Targets, Variable, Index
<1> QED
  BY <1>2 DEF Panic

LEMMA NothingMoves ==
  ASSUME NEW V, Good(V), RowsOK, UNCHANGED vars
  PROVE  Good(V)' /\ RowsOK'
<1>1. UNCHANGED <<program, i, moved, x, heap, temp, pc, layer>>
  BY DEF vars, program
<1>2. /\ kinds' = kinds /\ shared' = shared /\ path' = path /\ Innermost' = Innermost
      /\ \A q : Target(q)' = Target(q)
      /\ \A a, b : SameRow(a, b)' = SameRow(a, b)
      /\ \A a, e : Canon(a, e)' = Canon(a, e)
  BY <1>1, FrameIs
<1>3. IsContents(V)'
  BY <1>1, ContentsStay DEF Good
<1>4. Control(V)'
  BY <1>1, <1>2 DEF Good, Control, AnyContent
<1>5. Stored(V)'
  <2>1. HeapOK(V, heap)'
    BY <1>1, <1>2 DEF Good, Stored, HeapOK
  <2>2. \A q \in Proc : TempsOK(V, temp[q], Target(q))'
    BY <1>1, <1>2 DEF Good, Stored, TempsOK, Allowed
  <2> QED
    BY <1>1, <2>1, <2>2 DEF Good, Stored
<1>6. RowsOK'
  BY <1>1, <1>2 DEF RowsOK, Copied, Home, AloneInRow, BackAt, Value, Row
<1> QED
  BY <1>3, <1>4, <1>5, <1>6 DEF Good

LEMMA NextOK ==
  ASSUME Inv, [Next]_vars
  PROVE  Inv'
<1>1. CASE AssignIndex
  BY <1>1 DEF AssignIndex, Inv
<1>2. CASE moved' = moved
  <2>1. CASE moved # FALSE
    BY <1>2, <2>1 DEF Inv
  <2>2. CASE moved = FALSE
    <3>1. RowsOK /\ \E V : Good(V)
      BY <2>2 DEF Inv
    <3>2. PICK V : Good(V)
      BY <3>1
    <3>3. Good(V)' /\ RowsOK'
      <4>1. ASSUME NEW p \in Proc, Read(p) PROVE Good(V)' /\ RowsOK'
        BY <3>1, <3>2, <4>1, ReadOK
      <4>2. ASSUME NEW p \in Proc, Set(p) PROVE Good(V)' /\ RowsOK'
        BY <3>1, <3>2, <4>2, SetOK
      <4>3. ASSUME NEW p \in Proc, WriteBack(p) PROVE Good(V)' /\ RowsOK'
        BY <3>1, <3>2, <4>3, WriteBackOK
      <4>4. ASSUME NEW p \in Proc, Panic(p) PROVE FALSE
        BY <3>2, <4>4, NoPanic
      <4>5. CASE UNCHANGED vars
        BY <3>1, <3>2, <4>5, NothingMoves
      <4>6. ~AssignIndex
        BY <1>2, <2>2 DEF AssignIndex
      <4> QED
        BY <4>1, <4>2, <4>3, <4>4, <4>5, <4>6 DEF Next, Stopped
    <3>4. (\E W : Good(W))'
      BY <3>3
    <3> QED
      BY <1>2, <2>2, <3>3, <3>4 DEF Inv
  <2> QED
    BY <2>1, <2>2
<1>3. ~AssignIndex => moved' = moved
  BY DEF Next, Read, Set, WriteBack, Panic, Stopped, At, vars
<1> QED
  BY <1>1, <1>2, <1>3

-----------------------------------------------------------------------------
(* The initial states.                                                     *)

\* What was just built is allowed where it is.
LEMMA BuiltAllowed ==
  ASSUME NEW V, IsContents(V), kinds \in [1 .. Depth -> {"list", "value"}],
         NEW v, IsBuilt(v)
  PROVE  \A d \in 0 .. Depth : \A c \in Pfx(d) : v[c] \in V[d][Canon(c, d)]
<1> DEFINE Bad(m) == \E c \in Pfx(Depth - m) : v[c] \notin V[Depth - m][Canon(c, Depth - m)]
           T == {m \in Nat : m <= Depth /\ Bad(m)}
<1>1. ASSUME NEW d \in 0 .. Depth, NEW c \in Pfx(d)
      PROVE  /\ v[c] = IF d = Depth THEN None
                       ELSE IF kinds[d + 1] = "list" THEN [ref |-> Cell(c, shared)]
                       ELSE [k \in Index |-> v[Append(c, k)]]
             /\ \A j \in 1 .. d : c[j] \in Index
             /\ Canon(c, d) \in Pfx(d) /\ Pre(c, d) = c
  <2>1. Len(c) = d /\ c \in Prefix /\ d \in Nat /\ \A j \in 1 .. d : c[j] \in Index
    BY DEF Pfx, Prefix
  <2>2. Pre(c, d) = c
    BY DEF Pre, Pfx
  <2> QED
    BY <2>1, <2>2, CanonIn DEF IsBuilt
<1>2. SUFFICES ASSUME T # {} PROVE FALSE
  <2>1. ASSUME NEW d \in 0 .. Depth, NEW c \in Pfx(d), v[c] \notin V[d][Canon(c, d)]
        PROVE  FALSE
    <3>1. PICK m \in Nat : m = Depth - d
      BY Depths
    <3>2. Depth - m = d /\ m <= Depth
      BY <3>1, Depths
    <3>3. m \in T
      BY <2>1, <3>2
    <3> QED
      BY <3>3, <1>2
  <2> QED
    BY <2>1
<1>3. PICK m \in T : \A j \in T : m <= j
  <2>1. T \subseteq Nat
    OBVIOUS
  <2> HIDE DEF T
  <2> QED
    BY <1>2, <2>1, Least
<1>4. PICK d \in 0 .. Depth : d = Depth - m
  BY <1>3, Depths
<1>5. PICK c \in Pfx(d) : v[c] \notin V[d][Canon(c, d)]
  BY <1>3, <1>4
<1>6. CASE d = Depth
  <2>1. Canon(c, d) \in Place
    BY <1>1, <1>6 DEF Pfx, Place
  <2>2. V[Depth][Canon(c, d)] = {None} \cup {q \in Proc : Canon(Target(q), Depth) = Canon(c, d)}
    BY <2>1 DEF IsContents
  <2> QED
    BY <1>1, <1>5, <1>6, <2>2
<1>7. CASE d # Depth
  <2>1. d \in 0 .. Depth - 1 /\ d + 1 \in 0 .. Depth /\ d \in Nat
    BY <1>7, Depths
  <2>2. ASSUME NEW e \in Pfx(d + 1) PROVE v[e] \in V[d + 1][Canon(e, d + 1)]
    <3>1. m - 1 \in Nat /\ m - 1 <= Depth /\ Depth - (m - 1) = d + 1 /\ ~(m <= m - 1)
      BY <1>3, <1>4, <1>7, Depths
    <3>2. m - 1 \notin T
      BY <1>3, <3>1
    <3>3. ~Bad(m - 1)
      BY <3>1, <3>2
    <3> QED
      BY <3>1, <3>3
  <2> HIDE DEF T
  <2>3. V[d][Canon(c, d)] =
          IF kinds[d + 1] = "list" THEN {[ref |-> Cell(Canon(c, d), shared)]}
          ELSE {f \in [Index -> UNION {V[d + 1][e] : e \in Pfx(d + 1)}] :
                  \A k \in Index : f[k] \in V[d + 1][Canon(Append(Canon(c, d), k), d + 1)]}
    BY <1>1, <2>1 DEF IsContents
  <2>4. CASE kinds[d + 1] = "list"
    <3>1. Cell(Canon(c, d), shared) = Cell(c, shared)
      <4>1. Cell(Canon(c, d), shared) = Cell(Pre(c, d), shared)
        BY <1>1, <2>1, CellOfCanon
      <4> QED
        BY <1>1, <4>1
    <3> QED
      BY <1>1, <1>5, <1>7, <2>3, <2>4, <3>1
  <2>5. CASE kinds[d + 1] # "list"
    <3> DEFINE f == [k \in Index |-> v[Append(c, k)]]
    <3>1. ASSUME NEW k \in Index
          PROVE  /\ v[Append(c, k)] \in V[d + 1][Canon(Append(Canon(c, d), k), d + 1)]
                 /\ Canon(Append(Canon(c, d), k), d + 1) \in Pfx(d + 1)
      <4>1. PICK a : a = Append(c, k)
        OBVIOUS
      <4>2. a \in Pfx(d + 1) /\ a = [j \in 1 .. d + 1 |-> IF j = d + 1 THEN k ELSE c[j]]
        BY <2>1, <4>1, Appended
      <4>3. (\A j \in 1 .. d + 1 : a[j] \in Index) /\ a[d + 1] = k
        BY <4>2, <2>1 DEF Pfx
      <4>4. Canon(a, d) = Canon(c, d)
        BY <4>2, <2>1 DEF Canon
      <4>5. Canon(Append(Canon(a, d), k), d + 1) = Canon(a, d + 1)
        BY <2>1, <4>3, CanonNext
      <4>6. Canon(a, d + 1) \in Pfx(d + 1)
        BY <1>1, <2>1, <4>2
      <4> QED
        BY <2>2, <4>1, <4>2, <4>4, <4>5, <4>6
    <3>2. f \in [Index -> UNION {V[d + 1][e] : e \in Pfx(d + 1)}]
      BY <3>1
    <3>3. \A k \in Index : f[k] \in V[d + 1][Canon(Append(Canon(c, d), k), d + 1)]
      BY <3>1
    <3>4. v[c] = f
      BY <1>1, <1>7, <2>5
    <3> HIDE DEF f
    <3> QED
      BY <1>5, <2>3, <2>5, <3>2, <3>3, <3>4
  <2> QED
    BY <2>4, <2>5
<1> QED
  BY <1>6, <1>7

LEMMA InitOK ==
  ASSUME Init
  PROVE  Inv
<1>1. PICK V : IsContents(V)
  BY SomeContents
<1>2. PICK v : v = Built(kinds, shared) /\ IsBuilt(v)
  BY BuiltIs
<1>3. \A d \in 0 .. Depth : \A c \in Pfx(d) : v[c] \in V[d][Canon(c, d)]
  BY <1>1, <1>2, BuiltAllowed DEF Init
<1>4. /\ x = v[<< >>]
      /\ heap = [c \in {p \in Prefix : Len(p) < Depth} |-> [k \in Index |-> v[Append(c, k)]]]
  BY <1>2 DEF Init
<1>5. /\ temp = [p \in Proc |-> << >>] /\ pc = [p \in Proc |-> "read"]
      /\ layer = [p \in Proc |-> 1] /\ moved = FALSE
  BY DEF Init
<1>6. x \in V[0][Nowhere]
  <2>1. v[Nowhere] \in V[0][Canon(Nowhere, 0)]
    BY <1>3, NowhereIs, Depths
  <2> QED
    BY <1>4, <2>1, NowhereIs
<1>7. HeapOK(V, heap)
  <2>1. ASSUME NEW d \in 0 .. Depth - 1, NEW c \in Pfx(d)
        PROVE  /\ c \in DOMAIN heap /\ DOMAIN heap[c] = Index
               /\ \A k \in Index : heap[c][k] \in V[d + 1][Canon(Append(c, k), d + 1)]
    <3>1. d \in Nat /\ d + 1 \in 0 .. Depth /\ d \in 0 .. Depth /\ d < Depth
      BY Depths
    <3>2. c \in {p \in Prefix : Len(p) < Depth}
      <4>1. Len(c) = d
        BY <3>1 DEF Pfx
      <4> QED
        BY <3>1, <4>1 DEF Pfx, Prefix
    <3>3. heap[c] = [k \in Index |-> v[Append(c, k)]]
      BY <1>4, <3>2
    <3>4. \A k \in Index : Append(c, k) \in Pfx(d + 1)
      BY <3>1, Appended
    <3> QED
      BY <1>3, <1>4, <3>1, <3>2, <3>3, <3>4
  <2> QED
    BY <2>1 DEF HeapOK
<1>8. \A p \in Proc : temp[p] = << >> /\ Len(temp[p]) = 0 /\ temp[p] \in Seq(AnyContent(V))
  BY <1>5
<1>9. Control(V)
  <2>1. /\ kinds \in [1 .. Depth -> {"list", "value"}] /\ shared \in BOOLEAN
        /\ path \in [Proc -> Targets] /\ i \in Index
    BY DEF Init
  <2>2. /\ pc \in [Proc -> {"read", "back", "done", "panicked"}] /\ layer \in [Proc -> 1 .. Depth]
        /\ DOMAIN temp = Proc
    BY <1>5, Depths
  <2>3. \A p \in Proc : pc[p] = "read" /\ layer[p] = 1
    BY <1>5
  <2> QED
    BY <1>8, <2>1, <2>2, <2>3 DEF Control
<1>10. Stored(V)
  BY <1>6, <1>7, <1>8 DEF Stored, TempsOK
<1>11. RowsOK
  BY <1>5 DEF RowsOK
<1> QED
  BY <1>1, <1>5, <1>9, <1>10, <1>11 DEF Inv, Good

LEMMA InvAlways == Spec => []Inv
<1>1. Init => Inv
  BY InitOK
<1>2. Inv /\ [Next]_vars => Inv'
  BY NextOK
<1> QED
  BY <1>1, <1>2, PTL DEF Spec

-----------------------------------------------------------------------------
(* The properties.                                                         *)

\* The way to a place leads through what is allowed on it.
LEMMA WayAllowed ==
  ASSUME NEW V, Good(V), NEW a, Indexes(a, Depth), NEW c, Way(a, c)
  PROVE  \A d \in 1 .. Depth : c[d] \in Allowed(V, a, d - 1)
<1> DEFINE T == {d \in Nat : d \in 1 .. Depth /\ c[d] \notin Allowed(V, a, d - 1)}
<1>1. SUFFICES ASSUME T # {} PROVE FALSE
  <2>1. 1 .. Depth \subseteq Nat
    OBVIOUS
  <2> QED
    BY <2>1
<1>2. PICK d \in T : \A j \in T : d <= j
  <2>1. T \subseteq Nat
    OBVIOUS
  <2> HIDE DEF T
  <2> QED
    BY <1>1, <2>1, Least
<1>3. d \in 1 .. Depth /\ c[d] \notin Allowed(V, a, d - 1)
  BY <1>2
<1>4. c[d] = IF d = 1 THEN x ELSE Get(d - 1, c[d - 1], a[d - 1])
  BY <1>3 DEF Way
<1>5. CASE d = 1
  <2>1. x \in Allowed(V, a, 0)
    BY NowhereIs DEF Good, Stored, Allowed
  <2> QED
    BY <1>3, <1>4, <1>5, <2>1
<1>6. CASE d # 1
  <2>1. PICK e \in 1 .. Depth : e = d - 1
    BY <1>3, <1>6, Depths
  <2>2. e \notin T /\ e \in Nat
    BY <1>2, <1>3, <2>1
  <2>3. c[e] \in Allowed(V, a, e - 1)
    BY <2>2
  <2>4. Indexes(a, e)
    BY <2>1, Depths DEF Indexes
  <2>5. PICK f : f = c[e]
    OBVIOUS
  <2>6. Get(e, f, a[e]) \in Allowed(V, a, e)
    BY <2>3, <2>4, <2>5, GetAllowed DEF Good
  <2> QED
    BY <1>3, <1>4, <1>6, <2>1, <2>5, <2>6
<1> QED
  BY <1>5, <1>6

LEMMA UntouchedOK ==
  ASSUME NEW V, Good(V), NEW a \in Place, Leaf(a) # None
  PROVE  \E p \in Proc : Leaf(a) = p /\ SamePlace(a, Target(p))
<1>1. Indexes(a, Depth)
  BY DEF Place, Indexes
<1>2. PICK c : Way(a, c) /\ Leaf(a) = Get(Depth, c[Depth], a[Depth])
  BY LeafIs
<1>3. PICK f : f = c[Depth]
  OBVIOUS
<1>4. Depth \in 1 .. Depth
  BY Depths
<1>5. f \in Allowed(V, a, Depth - 1)
  BY <1>1, <1>2, <1>3, <1>4, WayAllowed
<1>6. Leaf(a) \in Allowed(V, a, Depth)
  BY <1>1, <1>2, <1>3, <1>4, <1>5, GetAllowed DEF Good
<1>7. Canon(a, Depth) \in Place
  BY <1>1, CanonIn, Depths DEF Indexes, Pfx, Place
<1>8. Leaf(a) \in {None} \cup {q \in Proc : Canon(Target(q), Depth) = Canon(a, Depth)}
  BY <1>6, <1>7 DEF Good, IsContents, Allowed
<1>9. PICK p \in Proc : Leaf(a) = p /\ Canon(Target(p), Depth) = Canon(a, Depth)
  BY <1>8
<1>10. SamePlace(a, Target(p))
  <2>1. PICK b : b = Target(p)
    OBVIOUS
  <2> QED
    BY <1>9, <2>1, CanonIsSlot, Depths DEF SamePlace
<1> QED
  BY <1>9, <1>10

LEMMA LandOK ==
  ASSUME NEW V, Good(V), RowsOK, NEW p \in Proc, pc[p] = "done", AloneInRow(p)
  PROVE  Landed(p)
<1> DEFINE T == Target(p)
           L == Innermost
<1>1. IsContents(V) /\ Control(V) /\ Stored(V)
  BY DEF Good
<1>2. /\ L \in 1 .. Depth /\ (kinds[L] = "list" \/ L = 1)
      /\ \A d \in 1 .. Depth : kinds[d] = "list" => d <= L
  BY <1>1, InnermostIs
<1>3. T \in Place /\ \A d \in 0 .. Depth : Indexes(T, d)
  BY <1>1, TargetsIn
<1>4. PICK c : Way(T, c) /\ Leaf(T) = Get(Depth, c[Depth], T[Depth])
  BY LeafIs
<1>5. BackAt(p) = 0 /\ Copied(p) /\ Home(p)
  BY DEF BackAt, RowsOK
<1>6. \A d \in L + 1 .. Depth : temp[p][d - 1][T[d]] = Value(p, d)
  BY <1>2, <1>5 DEF Copied
<1>7. Row(p) = Value(p, L)
  BY <1>2, <1>5 DEF Home
<1>8. Get(L, c[L], T[L]) = Row(p)
  <2>1. CASE kinds[L] = "list"
    <3>1. c[L] \in Allowed(V, T, L - 1)
      <4>1. Indexes(T, Depth)
        BY <1>3, Depths
      <4> QED
        BY <1>2, <1>4, <4>1, WayAllowed
    <3>2. Indexes(T, L)
      BY <1>2, <1>3, Depths
    <3>3. PICK f : f = c[L]
      OBVIOUS
    <3>4. PICK d \in 1 .. Depth : d = L
      BY <1>2
    <3>5. Get(d, f, T[d]) = heap[Cell(Pre(T, d - 1), shared)][T[d]]
      BY <1>1, <2>1, <3>1, <3>2, <3>3, <3>4, GetAllowed
    <3> QED
      BY <2>1, <3>3, <3>4, <3>5 DEF Row
  <2>2. CASE kinds[L] # "list"
    <3>1. c[1] = x
      BY <1>4, Depths DEF Way
    <3> QED
      BY <1>2, <2>2, <3>1 DEF Row, Get
  <2> QED
    BY <2>1, <2>2
<1> HIDE DEF T, L
<1>9. \A d \in L .. Depth : Get(d, c[d], T[d]) = Value(p, d)
  <2> DEFINE B == {d \in Nat : d \in L .. Depth /\ Get(d, c[d], T[d]) # Value(p, d)}
  <2>1. SUFFICES ASSUME B # {} PROVE FALSE
    <3>1. L .. Depth \subseteq Nat
      BY <1>2
    <3> QED
      BY <3>1
  <2>2. PICK d \in B : \A j \in B : d <= j
    <3>1. B \subseteq Nat
      OBVIOUS
    <3> HIDE DEF B
    <3> QED
      BY <2>1, <3>1, Least
  <2>3. d \in L .. Depth /\ Get(d, c[d], T[d]) # Value(p, d)
    BY <2>2
  <2>4. d # L
    BY <1>7, <1>8, <2>3
  <2>5. /\ d \in L + 1 .. Depth /\ d \in 1 .. Depth /\ d # 1 /\ d - 1 \in Nat
        /\ d - 1 \in L .. Depth /\ d - 1 # Depth /\ ~(d <= d - 1) /\ ~(d <= L)
    BY <1>2, <2>3, <2>4, Depths
  <2>6. Get(d - 1, c[d - 1], T[d - 1]) = Value(p, d - 1)
    BY <2>2, <2>5
  <2>7. c[d] = Get(d - 1, c[d - 1], T[d - 1])
    BY <1>4, <2>5 DEF Way
  <2>8. c[d] = temp[p][d - 1]
    BY <2>5, <2>6, <2>7 DEF Value
  <2>9. Get(d, c[d], T[d]) = c[d][T[d]]
    BY <1>2, <2>5 DEF Get
  <2> QED
    BY <1>6, <2>3, <2>5, <2>8, <2>9
<1>10. Leaf(T) = p
  BY <1>2, <1>4, <1>9, Depths DEF Value
<1> QED
  BY <1>3, <1>10 DEF Landed, T

(* ElsewhereUntouched: while the variable keeps its value, every element   *)
(* of x is what it was or was put there by an assignment to that very      *)
(* element, whatever the layers are, however the assignments of any number *)
(* of closures interleave and although each writes whole copies back.      *)
THEOREM OnlyTargetsChange == Spec => []ElsewhereUntouched
<1>1. Inv => ElsewhereUntouched
  <2>1. SUFFICES ASSUME Inv, ~moved, NEW a \in Place, Leaf(a) # None
                 PROVE  \E p \in Proc : Leaf(a) = p /\ SamePlace(a, Target(p))
    BY DEF ElsewhereUntouched
  <2>2. PICK V : Good(V)
    BY <2>1 DEF Inv
  <2> QED
    BY <2>1, <2>2, UntouchedOK
<1> QED
  BY <1>1, InvAlways, PTL

(* AssignmentsLand: a nested assignment that is done and had its row of    *)
(* elements to itself finds its value in x at its indices, through Lists   *)
(* and values in any order and to any depth.                               *)
THEOREM EveryAssignmentLands == Spec => []AssignmentsLand
<1>1. Inv => AssignmentsLand
  <2>1. SUFFICES ASSUME Inv, NEW p \in Proc, pc[p] = "done", Alone(p)
                 PROVE  Landed(p)
    BY DEF AssignmentsLand
  <2>2. moved = FALSE /\ AloneInRow(p)
    BY <2>1 DEF Alone, AloneInRow, Inv
  <2>3. RowsOK /\ \E V : Good(V)
    BY <2>1, <2>2 DEF Inv
  <2>4. PICK V : Good(V)
    BY <2>3
  <2> QED
    BY <2>1, <2>2, <2>3, <2>4, LandOK
<1> QED
  BY <1>1, InvAlways, PTL
=============================================================================
