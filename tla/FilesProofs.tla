---------------------------- MODULE FilesProofs ----------------------------
(***************************************************************************)
(* Proofs about reading through File handles, for every file, every size   *)
(* of the buffer and every program of reads.                               *)
(***************************************************************************)
EXTENDS Files, Integers, WellFoundedInduction, TLAPS

ST == INSTANCE SequenceTheorems

(* Sequences built element by element. *)

\* A set of numbers has a least.
LEMMA Least ==
  ASSUME NEW T \in SUBSET Nat, T # {}
  PROVE  \E m \in T : \A i \in T : m <= i
<1> DEFINE R == {ss \in Nat \X Nat : ss[1] < ss[2]}
<1>1. IsWellFoundedOn(R, Nat)
  BY NatLessThanWellFounded DEF OpToRel
<1>2. PICK m \in T : \A y \in T : <<y, m>> \notin R
  <2> HIDE DEF R
  <2> QED BY <1>1, WFMin
<1>3. \A i \in T : ~(i < m)
  BY <1>2
<1> QED BY <1>3

\* The first k concatenations of the sequences in s.
Flattens(s, k, f) ==
  f = [i \in 1 .. k |-> IF i = 1 THEN s[i] ELSE f[i - 1] \o s[i]]

LEMMA FlattenExtends ==
  ASSUME NEW s, NEW k \in Nat \ {0}, NEW f, Flattens(s, k, f)
  PROVE  \E g : Flattens(s, k + 1, g)
<1> DEFINE g == [i \in 1 .. k + 1 |-> IF i = k + 1 THEN f[k] \o s[k + 1] ELSE f[i]]
<1>1. \A i \in 1 .. k : f[i] = IF i = 1 THEN s[i] ELSE f[i - 1] \o s[i]
  BY DEF Flattens
<1>2. \A i \in 1 .. k : g[i] = f[i]
  OBVIOUS
<1>3. g[k + 1] = g[k] \o s[k + 1]
  <2>1. k \in 1 .. k /\ k + 1 \in 1 .. k + 1
    OBVIOUS
  <2>2. g[k + 1] = f[k] \o s[k + 1] /\ g[k] = f[k]
    BY <1>2, <2>1
  <2> HIDE DEF g
  <2> QED BY <2>2
<1>4. g = [i \in 1 .. k + 1 |-> g[i]]
  OBVIOUS
<1> HIDE DEF g
<1>5. ASSUME NEW i \in 1 .. k + 1
      PROVE  g[i] = IF i = 1 THEN s[i] ELSE g[i - 1] \o s[i]
  <2>1. CASE i = k + 1
    <3>1. i # 1 /\ i - 1 = k
      BY <2>1
    <3> QED BY <2>1, <1>3, <3>1
  <2>2. CASE i = 1
    BY <2>2, <1>1, <1>2
  <2>3. CASE i \in 2 .. k
    <3>1. i \in 1 .. k /\ i - 1 \in 1 .. k /\ i # 1
      BY <2>3
    <3>2. f[i] = f[i - 1] \o s[i]
      BY <3>1, <1>1
    <3>3. g[i] = f[i] /\ g[i - 1] = f[i - 1]
      BY <3>1, <1>2
    <3> QED BY <3>1, <3>2, <3>3
  <2> QED BY <2>1, <2>2, <2>3
<1>6. Flattens(s, k + 1, g)
  BY <1>4, <1>5 DEF Flattens
<1> QED BY <1>6

LEMMA FlattenExists ==
  ASSUME NEW s, NEW n \in Nat \ {0}
  PROVE  \E f : Flattens(s, n, f)
<1> DEFINE T == {k \in Nat \ {0} : ~ \E f : Flattens(s, k, f)}
<1> SUFFICES ASSUME T # {} PROVE FALSE
  OBVIOUS
<1>1. PICK m \in T : \A i \in T : m <= i
  <2>1. T \subseteq Nat
    OBVIOUS
  <2> HIDE DEF T
  <2> QED BY <2>1, Least
<1>2. Flattens(s, 1, [i \in 1 .. 1 |-> s[i]])
  BY DEF Flattens
<1>3. m # 1
  BY <1>2
<1>4. m - 1 \in Nat \ {0} /\ m - 1 \notin T /\ (m - 1) + 1 = m
  BY <1>1, <1>3
<1>5. PICK f : Flattens(s, m - 1, f)
  BY <1>4
<1>6. \E g : Flattens(s, (m - 1) + 1, g)
  BY <1>4, <1>5, FlattenExtends
<1> QED BY <1>4, <1>6

\* Two of them agree where the sequences they are made of do.
LEMMA FlattenUnique ==
  ASSUME NEW s, NEW t, NEW n \in Nat, \A i \in 1 .. n : t[i] = s[i],
         NEW f, Flattens(s, n, f), NEW g, Flattens(t, n + 1, g)
  PROVE  \A i \in 1 .. n : g[i] = f[i]
<1> DEFINE T == {i \in 1 .. n : f[i] # g[i]}
<1> SUFFICES ASSUME T # {} PROVE FALSE
  OBVIOUS
<1>1. PICK m \in T : \A i \in T : m <= i
  <2>1. T \subseteq Nat
    OBVIOUS
  <2> HIDE DEF T
  <2> QED BY <2>1, Least
<1>2. /\ m \in 1 .. n + 1 /\ m \in 1 .. n
      /\ f[m] = IF m = 1 THEN s[m] ELSE f[m - 1] \o s[m]
      /\ g[m] = IF m = 1 THEN t[m] ELSE g[m - 1] \o t[m]
  <2>1. m \in 1 .. n + 1 /\ m \in 1 .. n
    BY <1>1
  <2> HIDE DEF T
  <2> QED BY <2>1 DEF Flattens
<1>3. m # 1 => f[m - 1] = g[m - 1]
  <2>1. m # 1 => m - 1 \in 1 .. n /\ ~(m <= m - 1)
    BY <1>2
  <2> QED BY <1>1, <2>1
<1> QED BY <1>2, <1>3

LEMMA FlattenIs ==
  ASSUME NEW s, NEW n \in Nat \ {0}, Len(s) = n
  PROVE  \E f : Flattens(s, n, f) /\ FlattenSeq(s) = f[n]
<1> DEFINE F == CHOOSE f : Flattens(s, n, f)
<1>1. Flattens(s, n, F)
  BY FlattenExists
<1>2. FlattenSeq(s) = F[n]
  BY DEF FlattenSeq, Flattens
<1> HIDE DEF F
<1> QED BY <1>1, <1>2

LEMMA FlattenLonger ==
  ASSUME NEW s, NEW t, NEW n \in Nat \ {0}, Len(s) = n, Len(t) = n + 1,
         \A i \in 1 .. n : t[i] = s[i]
  PROVE  FlattenSeq(t) = FlattenSeq(s) \o t[n + 1]
<1>1. n \in Nat /\ n + 1 \in Nat \ {0}
  OBVIOUS
<1>2. PICK f : Flattens(s, n, f) /\ FlattenSeq(s) = f[n]
  BY FlattenIs
<1>3. PICK g : Flattens(t, n + 1, g) /\ FlattenSeq(t) = g[n + 1]
  BY <1>1, FlattenIs
<1>4. g[n + 1] = g[n] \o t[n + 1]
  <2>1. n + 1 \in 1 .. n + 1 /\ n + 1 # 1 /\ (n + 1) - 1 = n
    OBVIOUS
  <2> QED BY <1>3, <2>1 DEF Flattens
<1>5. \A i \in 1 .. n : g[i] = f[i]
  BY <1>1, <1>2, <1>3, FlattenUnique
<1>6. n \in 1 .. n
  OBVIOUS
<1> QED BY <1>2, <1>3, <1>4, <1>5, <1>6

LEMMA FlattenAppend ==
  ASSUME NEW S, NEW s \in Seq(Seq(S)), NEW e \in Seq(S)
  PROVE  FlattenSeq(Append(s, e)) = FlattenSeq(s) \o e
<1> DEFINE n == Len(s)
<1>1. /\ n \in Nat /\ Len(Append(s, e)) = n + 1 /\ Append(s, e)[n + 1] = e
      /\ \A i \in 1 .. n : Append(s, e)[i] = s[i]
  BY ST!AppendProperties, ST!LenProperties
<1>2. CASE n = 0
  <2>1. s = << >> /\ Append(s, e) = <<e>>
    BY <1>2, ST!EmptySeq
  <2>2. FlattenSeq(s) = << >> /\ FlattenSeq(<<e>>) = e
    <3>1. FlattenSeq(s) = << >>
      BY <2>1 DEF FlattenSeq
    <3>2. PICK f : Flattens(<<e>>, 1, f) /\ FlattenSeq(<<e>>) = f[1]
      <4>1. 1 \in Nat \ {0} /\ Len(<<e>>) = 1
        OBVIOUS
      <4> QED BY <4>1, FlattenIs
    <3>3. f[1] = <<e>>[1]
      <4>1. 1 \in 1 .. 1
        OBVIOUS
      <4> QED BY <3>2, <4>1 DEF Flattens
    <3> QED BY <3>1, <3>2, <3>3
  <2>3. << >> \o e = e
    BY ST!ConcatEmptySeq
  <2> QED BY <2>1, <2>2, <2>3
<1>3. CASE n # 0
  <2>1. n \in Nat \ {0}
    BY <1>1, <1>3
  <2> HIDE DEF n
  <2>2. FlattenSeq(Append(s, e)) = FlattenSeq(s) \o Append(s, e)[n + 1]
    BY <1>1, <2>1, FlattenLonger DEF n
  <2> QED BY <1>1, <2>2
<1> QED BY <1>2, <1>3

LEMMA FlattenTyped ==
  ASSUME NEW S, NEW s \in Seq(Seq(S))
  PROVE  FlattenSeq(s) \in Seq(S)
<1> DEFINE n == Len(s)
<1>1. n \in Nat /\ \A i \in 1 .. n : s[i] \in Seq(S)
  BY ST!LenProperties, ST!ElementOfSeq
<1>2. CASE n = 0
  <2>1. s = << >>
    BY <1>2, ST!EmptySeq
  <2>2. FlattenSeq(s) = << >>
    BY <2>1 DEF FlattenSeq
  <2> QED BY <2>2, ST!EmptySeq
<1>3. CASE n # 0
  <2> HIDE DEF n
  <2>1. n \in Nat \ {0}
    BY <1>1, <1>3
  <2>2. PICK f : Flattens(s, n, f) /\ FlattenSeq(s) = f[n]
    BY <2>1, FlattenIs DEF n
  <2>3. \A i \in 1 .. n : f[i] = IF i = 1 THEN s[i] ELSE f[i - 1] \o s[i]
    BY <2>2 DEF Flattens
  <2> DEFINE T == {i \in 1 .. n : f[i] \notin Seq(S)}
  <2>4. T = {}
    <3> SUFFICES ASSUME T # {} PROVE FALSE
      OBVIOUS
    <3>1. PICK m \in T : \A i \in T : m <= i
      <4>1. T \subseteq Nat
        OBVIOUS
      <4> HIDE DEF T
      <4> QED BY <4>1, Least
    <3>2. m \in 1 .. n /\ (m # 1 => m - 1 \in 1 .. n /\ ~(m <= m - 1))
      BY <2>1
    <3>3. m # 1 => f[m - 1] \in Seq(S)
      BY <3>1, <3>2
    <3>4. s[m] \in Seq(S)
      BY <1>1, <3>2
    <3>5. f[m] \in Seq(S)
      <4>1. CASE m = 1
        BY <2>3, <3>2, <3>4, <4>1
      <4>2. CASE m # 1
        <5>1. f[m] = f[m - 1] \o s[m]
          BY <2>3, <3>2, <4>2
        <5> QED BY <3>3, <3>4, <4>2, <5>1, ST!ConcatProperties
      <4> QED BY <4>1, <4>2
    <3> QED BY <3>5
  <2>5. n \in 1 .. n
    BY <2>1
  <2> QED BY <2>2, <2>4, <2>5
<1> QED BY <1>2, <1>3
(* What the relay has read. *)

Delivered(e) == e.by = "relay" /\ e.err = "none"

Extended(f, e) == IF Delivered(e) THEN Append(f, e.value) ELSE f

Relays(l, n, f) ==
  f = [i \in 0 .. n |-> IF i = 0 THEN << >> ELSE Extended(f[i - 1], l[i])]

LEMMA RelaysExtends ==
  ASSUME NEW l, NEW k \in Nat, NEW f, Relays(l, k, f)
  PROVE  \E g : Relays(l, k + 1, g)
<1> DEFINE g == [i \in 0 .. k + 1 |-> IF i = k + 1 THEN Extended(f[k], l[k + 1]) ELSE f[i]]
<1>1. \A i \in 0 .. k : f[i] = IF i = 0 THEN << >> ELSE Extended(f[i - 1], l[i])
  BY DEF Relays
<1>2. \A i \in 0 .. k : g[i] = f[i]
  OBVIOUS
<1>3. g[k + 1] = Extended(g[k], l[k + 1])
  <2>1. k \in 0 .. k /\ k + 1 \in 0 .. k + 1
    OBVIOUS
  <2>2. g[k + 1] = Extended(f[k], l[k + 1]) /\ g[k] = f[k]
    BY <1>2, <2>1
  <2> HIDE DEF g
  <2> QED BY <2>2
<1>4. g = [i \in 0 .. k + 1 |-> g[i]]
  OBVIOUS
<1> HIDE DEF g
<1>5. ASSUME NEW i \in 0 .. k + 1
      PROVE  g[i] = IF i = 0 THEN << >> ELSE Extended(g[i - 1], l[i])
  <2>1. CASE i = k + 1
    <3>1. i # 0 /\ i - 1 = k
      BY <2>1
    <3> QED BY <2>1, <1>3, <3>1
  <2>2. CASE i = 0
    BY <2>2, <1>1, <1>2
  <2>3. CASE i \in 1 .. k
    <3>1. i \in 0 .. k /\ i - 1 \in 0 .. k /\ i # 0
      BY <2>3
    <3>2. f[i] = Extended(f[i - 1], l[i])
      BY <3>1, <1>1
    <3>3. g[i] = f[i] /\ g[i - 1] = f[i - 1]
      BY <3>1, <1>2
    <3> QED BY <3>1, <3>2, <3>3
  <2> QED BY <2>1, <2>2, <2>3
<1>6. Relays(l, k + 1, g)
  BY <1>4, <1>5 DEF Relays
<1> QED BY <1>6

LEMMA RelaysExists ==
  ASSUME NEW l, NEW n \in Nat
  PROVE  \E f : Relays(l, n, f)
<1> DEFINE T == {k \in Nat : ~ \E f : Relays(l, k, f)}
<1> SUFFICES ASSUME T # {} PROVE FALSE
  OBVIOUS
<1>1. PICK m \in T : \A i \in T : m <= i
  <2>1. T \subseteq Nat
    OBVIOUS
  <2> HIDE DEF T
  <2> QED BY <2>1, Least
<1>2. Relays(l, 0, [i \in 0 .. 0 |-> << >>])
  BY DEF Relays
<1>3. m # 0
  BY <1>2
<1>4. m - 1 \in Nat /\ m - 1 \notin T /\ (m - 1) + 1 = m
  BY <1>1, <1>3
<1>5. PICK f : Relays(l, m - 1, f)
  BY <1>4
<1>6. \E g : Relays(l, (m - 1) + 1, g)
  BY <1>4, <1>5, RelaysExtends
<1> QED BY <1>4, <1>6

LEMMA RelaysUnique ==
  ASSUME NEW s, NEW t, NEW n \in Nat, \A i \in 1 .. n : t[i] = s[i],
         NEW f, Relays(s, n, f), NEW g, Relays(t, n + 1, g)
  PROVE  \A i \in 0 .. n : g[i] = f[i]
<1> DEFINE T == {i \in 0 .. n : g[i] # f[i]}
<1> SUFFICES ASSUME T # {} PROVE FALSE
  OBVIOUS
<1>1. PICK m \in T : \A i \in T : m <= i
  <2>1. T \subseteq Nat
    OBVIOUS
  <2> HIDE DEF T
  <2> QED BY <2>1, Least
<1>2. /\ m \in 0 .. n /\ m \in 0 .. n + 1
      /\ f[m] = IF m = 0 THEN << >> ELSE Extended(f[m - 1], s[m])
      /\ g[m] = IF m = 0 THEN << >> ELSE Extended(g[m - 1], t[m])
  <2>1. m \in 0 .. n /\ m \in 0 .. n + 1
    BY <1>1
  <2> HIDE DEF T
  <2> QED BY <2>1 DEF Relays
<1>3. m # 0 => g[m - 1] = f[m - 1] /\ t[m] = s[m]
  <2>1. m # 0 => m - 1 \in 0 .. n /\ m \in 1 .. n /\ ~(m <= m - 1)
    BY <1>2
  <2> QED BY <1>1, <2>1
<1> QED BY <1>2, <1>3

LEMMA RelayedIs ==
  ASSUME NEW l, NEW n \in Nat, Len(l) = n
  PROVE  \E f : Relays(l, n, f) /\ Relayed(l) = f[n]
<1> DEFINE F == CHOOSE f : Relays(l, n, f)
<1>1. Relays(l, n, F)
  BY RelaysExists
<1>2. Relayed(l) = F[n]
  BY DEF Relayed, Relays, Extended, Delivered
<1> HIDE DEF F
<1> QED BY <1>1, <1>2

LEMMA RelayedEmpty == Relayed(<< >>) = << >>
<1>1. 0 \in Nat /\ Len(<< >>) = 0
  OBVIOUS
<1>2. PICK f : Relays(<< >>, 0, f) /\ Relayed(<< >>) = f[0]
  BY <1>1, RelayedIs
<1>3. 0 \in 0 .. 0
  OBVIOUS
<1> QED BY <1>2, <1>3 DEF Relays

LEMMA RelayedAppend ==
  ASSUME NEW S, NEW l \in Seq(S), NEW e \in S
  PROVE  Relayed(Append(l, e)) = Extended(Relayed(l), e)
<1> DEFINE n == Len(l)
           t == Append(l, e)
<1>1. /\ n \in Nat /\ n + 1 \in Nat /\ Len(t) = n + 1 /\ t[n + 1] = e
      /\ \A i \in 1 .. n : t[i] = l[i]
  BY ST!AppendProperties, ST!LenProperties
<1> HIDE DEF t
<1>2. PICK f : Relays(l, n, f) /\ Relayed(l) = f[n]
  BY <1>1, RelayedIs
<1>3. PICK g : Relays(t, n + 1, g) /\ Relayed(t) = g[n + 1]
  BY <1>1, RelayedIs
<1>4. g[n + 1] = Extended(g[n], t[n + 1])
  <2>1. n + 1 \in 0 .. n + 1 /\ n + 1 # 0 /\ (n + 1) - 1 = n
    BY <1>1
  <2> HIDE DEF n
  <2> QED BY <1>3, <2>1 DEF Relays
<1>5. g[n] = f[n]
  <2>1. n \in 0 .. n
    BY <1>1
  <2> HIDE DEF n
  <2>2. \A i \in 0 .. n : g[i] = f[i]
    BY <1>1, <1>2, <1>3, RelaysUnique
  <2> QED BY <2>1, <2>2
<1> QED BY <1>1, <1>2, <1>3, <1>4, <1>5 DEF t

(* The pieces a call takes out of the buffer. *)

LEMMA SplitAt ==
  ASSUME NEW S, NEW s \in Seq(S), NEW k \in 0 .. Len(s)
  PROVE  /\ SubSeq(s, 1, k) \in Seq(S) /\ Len(SubSeq(s, 1, k)) = k
         /\ \A i \in 1 .. k : SubSeq(s, 1, k)[i] = s[i]
         /\ Without(k, s) \in Seq(S)
         /\ SubSeq(s, 1, k) \o Without(k, s) = s
<1>1. Len(s) \in Nat /\ \A i \in 1 .. Len(s) : s[i] \in S
  BY ST!LenProperties, ST!ElementOfSeq
<1>2. k \in Int /\ 1 \in Int /\ \A i \in 1 .. k : s[i] \in S
  BY <1>1
<1>3. SubSeq(s, 1, k) \in Seq(S)
  BY <1>2, ST!SubSeqProperties
<1>4. Len(SubSeq(s, 1, k)) = IF 1 <= k THEN k - 1 + 1 ELSE 0
  BY <1>2, ST!SubSeqProperties
<1>5. \A i \in 1 .. k - 1 + 1 : SubSeq(s, 1, k)[i] = s[1 + i - 1]
  BY <1>2, ST!SubSeqProperties
<1>6. Without(k, s) \in Seq(S)
  <2>1. k + 1 \in Int /\ Len(s) \in Int /\ \A i \in k + 1 .. Len(s) : s[i] \in S
    BY <1>1
  <2> QED BY <2>1, ST!SubSeqProperties DEF Without
<1>7. SubSeq(s, 1, k) \o Without(k, s) = s
  <2>1. 1 \in 1 .. Len(s) + 1 /\ k \in 1 - 1 .. Len(s) /\ Len(s) \in k .. Len(s)
    BY <1>1
  <2>2. SubSeq(s, 1, k) \o SubSeq(s, k + 1, Len(s)) = SubSeq(s, 1, Len(s))
    BY <2>1, ST!ConcatAdjacentSubSeq
  <2> QED BY <2>2, ST!SubSeqFull DEF Without
<1>8. Len(SubSeq(s, 1, k)) = k
  BY <1>4
<1>9. \A i \in 1 .. k : SubSeq(s, 1, k)[i] = s[i]
  <2> SUFFICES ASSUME NEW i \in 1 .. k PROVE SubSeq(s, 1, k)[i] = s[i]
    OBVIOUS
  <2>1. i \in 1 .. k - 1 + 1 /\ 1 + i - 1 = i
    OBVIOUS
  <2> QED BY <1>5, <2>1
<1> QED BY <1>3, <1>6, <1>7, <1>8, <1>9

\* The first newline of a piece that has one.
LEMMA LineEndIs ==
  ASSUME NEW S, NEW s \in Seq(S), HasLine(s)
  PROVE  /\ LineEnd(s) \in 1 .. Len(s)
         /\ IsNewline(s[LineEnd(s)])
         /\ \A j \in 1 .. (LineEnd(s) - 1) : ~IsNewline(s[j])
<1> DEFINE T == {i \in 1 .. Len(s) : IsNewline(s[i])}
<1>1. Len(s) \in Nat /\ DOMAIN s = 1 .. Len(s)
  BY ST!LenProperties
<1>2. T # {} /\ T \subseteq Nat
  BY <1>1 DEF HasLine
<1>3. PICK m \in T : \A i \in T : m <= i
  <2> HIDE DEF T
  <2> QED BY <1>2, Least
<1>4. m \in DOMAIN s /\ IsNewline(s[m]) /\ \A j \in 1 .. (m - 1) : ~IsNewline(s[j])
  <2>1. m \in 1 .. Len(s) /\ IsNewline(s[m])
    OBVIOUS
  <2>2. ASSUME NEW j \in 1 .. (m - 1) PROVE ~IsNewline(s[j])
    <3>1. j \in 1 .. Len(s) /\ ~(m <= j)
      BY <1>1, <2>1
    <3> QED BY <1>3, <3>1
  <2> QED BY <1>1, <2>1, <2>2
<1>5. \E i \in DOMAIN s : IsNewline(s[i]) /\ \A j \in 1 .. (i - 1) : ~IsNewline(s[j])
  BY <1>4
<1>6. /\ LineEnd(s) \in DOMAIN s /\ IsNewline(s[LineEnd(s)])
      /\ \A j \in 1 .. (LineEnd(s) - 1) : ~IsNewline(s[j])
  BY <1>5 DEF LineEnd
<1> QED BY <1>1, <1>6

\* What a call takes is the front of the buffer.
LEMMA TakesIs ==
  ASSUME NEW S, NEW c, buf[c.h] \in Seq(S), c.n \in Nat
  PROVE  \E k \in 0 .. Len(buf[c.h]) :
           /\ Takes(c) = SubSeq(buf[c.h], 1, k)
           /\ c.op = "read" => k = IF c.n < Len(buf[c.h]) THEN c.n ELSE Len(buf[c.h])
           /\ c.op = "readLine" => k = IF HasLine(buf[c.h]) THEN LineEnd(buf[c.h]) ELSE Len(buf[c.h])
           /\ c.op \notin {"read", "readLine"} => k = 0
<1> DEFINE b == buf[c.h]
<1>1. Len(b) \in Nat
  BY ST!LenProperties
<1>2. CASE c.op = "readLine" /\ HasLine(b)
  <2>1. LineEnd(b) \in 0 .. Len(b)
    <3> HIDE DEF b
    <3>1. LineEnd(b) \in 1 .. Len(b)
      BY <1>2, LineEndIs DEF b
    <3> QED BY <1>1, <3>1
  <2> QED BY <1>2, <2>1 DEF Takes
<1>3. CASE c.op = "readLine" /\ ~HasLine(b)
  <2>1. SubSeq(b, 1, Len(b)) = b
    BY ST!SubSeqFull
  <2>2. Len(b) \in 0 .. Len(b)
    BY <1>1
  <2> QED BY <1>3, <2>1, <2>2 DEF Takes
<1>4. CASE c.op = "read"
  <2> DEFINE k == IF c.n < Len(b) THEN c.n ELSE Len(b)
  <2>1. k \in 0 .. Len(b)
    BY <1>1
  <2>2. Takes(c) = SubSeq(b, 1, k)
    BY <1>4 DEF Takes, AtMost
  <2> QED BY <1>4, <2>1, <2>2
<1>5. CASE c.op \notin {"read", "readLine"}
  <2>1. Takes(c) = << >>
    BY <1>5 DEF Takes
  <2>2. SubSeq(b, 1, 0) = << >>
    BY ST!SubSeqEmpty
  <2>3. 0 \in 0 .. Len(b)
    BY <1>1
  <2> QED BY <1>5, <2>1, <2>2, <2>3
<1> QED BY <1>2, <1>3, <1>4, <1>5

LEMMA TakesTyped ==
  ASSUME NEW S, NEW c, buf[c.h] \in Seq(S), c.n \in Nat
  PROVE  /\ Takes(c) \in Seq(S)
         /\ Without(Len(Takes(c)), buf[c.h]) \in Seq(S)
         /\ Takes(c) \o Without(Len(Takes(c)), buf[c.h]) = buf[c.h]
<1> DEFINE b == buf[c.h]
<1>1. PICK k \in 0 .. Len(b) : Takes(c) = SubSeq(b, 1, k)
  BY TakesIs
<1>2. /\ SubSeq(b, 1, k) \in Seq(S) /\ Len(SubSeq(b, 1, k)) = k
      /\ Without(k, b) \in Seq(S) /\ SubSeq(b, 1, k) \o Without(k, b) = b
  <2>1. b \in Seq(S)
    OBVIOUS
  <2> HIDE DEF b
  <2> QED BY <2>1, SplitAt
<1> HIDE DEF b
<1>3. Len(Takes(c)) = k
  BY <1>1, <1>2
<1> QED BY <1>1, <1>2, <1>3 DEF b

LEMMA TrimTyped ==
  ASSUME NEW S, NEW s \in Seq(S), NEW c
  PROVE  TrimSuffix(s, c) \in Seq(S)
<1>1. CASE EndsIn(s, c)
  <2>1. Len(s) \in Nat /\ s # << >> /\ Len(s) # 0
    BY <1>1, ST!LenProperties, ST!EmptySeq DEF EndsIn
  <2>2. Len(s) - 1 \in 0 .. Len(s)
    BY <2>1
  <2>3. SubSeq(s, 1, Len(s) - 1) \in Seq(S)
    BY <2>2, SplitAt
  <2> QED BY <1>1, <2>3 DEF TrimSuffix, Front
<1>2. CASE ~EndsIn(s, c)
  BY <1>2 DEF TrimSuffix
<1> QED BY <1>1, <1>2

(* A line and its terminator. *)

LEMMA ReverseIs ==
  ASSUME NEW S, NEW s \in Seq(S)
  PROVE  /\ Reverse(s) \in Seq(S) /\ Len(Reverse(s)) = Len(s)
         /\ \A i \in 1 .. Len(s) : Reverse(s)[i] = s[(Len(s) - i) + 1]
<1>1. Len(s) \in Nat /\ \A i \in 1 .. Len(s) : s[i] \in S
  BY ST!LenProperties, ST!ElementOfSeq
<1>2. \A i \in 1 .. Len(s) : (Len(s) - i) + 1 \in 1 .. Len(s)
  BY <1>1
<1>3. Reverse(s) \in [1 .. Len(s) -> S]
  BY <1>1, <1>2 DEF Reverse
<1>4. Reverse(s) \in Seq(S)
  BY <1>1, <1>3
<1>5. DOMAIN Reverse(s) = 1 .. Len(s) /\ DOMAIN Reverse(s) = 1 .. Len(Reverse(s))
  BY <1>3, <1>4, ST!LenProperties
<1>6. Len(Reverse(s)) = Len(s)
  <2>1. Len(Reverse(s)) \in Nat
    BY <1>4, ST!LenProperties
  <2> QED BY <1>1, <1>5, <2>1
<1> QED BY <1>4, <1>6 DEF Reverse

\* A suffix agrees with the sequence from the end.
LEMMA SuffixIs ==
  ASSUME NEW S, NEW s \in Seq(S), NEW t \in Seq(S), IsSuffix(s, t)
  PROVE  /\ Len(s) <= Len(t)
         /\ \A i \in 1 .. Len(s) : s[(Len(s) - i) + 1] = t[(Len(t) - i) + 1]
<1> DEFINE r == Reverse(s)
           q == Reverse(t)
<1>1. /\ Len(s) \in Nat /\ Len(t) \in Nat
      /\ r \in Seq(S) /\ Len(r) = Len(s) /\ \A i \in 1 .. Len(s) : r[i] = s[(Len(s) - i) + 1]
      /\ q \in Seq(S) /\ Len(q) = Len(t) /\ \A i \in 1 .. Len(t) : q[i] = t[(Len(t) - i) + 1]
  BY ReverseIs, ST!LenProperties
<1>2. Len(r) <= Len(q) /\ SubSeq(r, 1, Len(r)) = SubSeq(q, 1, Len(r))
  BY DEF IsSuffix, IsPrefix
<1> HIDE DEF r, q
<1>3. \A i \in 1 .. Len(r) : SubSeq(r, 1, Len(r))[i] = r[i]
  <2>1. Len(r) \in 0 .. Len(r)
    BY <1>1
  <2> QED BY <1>1, <2>1, SplitAt
<1>4. \A i \in 1 .. Len(r) : SubSeq(q, 1, Len(r))[i] = q[i]
  <2>1. Len(r) \in 0 .. Len(q)
    BY <1>1, <1>2
  <2> QED BY <1>1, <2>1, SplitAt
<1>5. \A i \in 1 .. Len(s) : r[i] = q[i]
  BY <1>1, <1>2, <1>3, <1>4
<1>6. ASSUME NEW i \in 1 .. Len(s) PROVE s[(Len(s) - i) + 1] = t[(Len(t) - i) + 1]
  <2>1. i \in 1 .. Len(t)
    BY <1>1, <1>2
  <2> QED BY <1>1, <1>5, <2>1
<1> QED BY <1>1, <1>2, <1>6

Byte == {"x", "\n", "\r"}
Pos == 1 .. Len(content)

LEMMA BytesTyped ==
  ASSUME content \in Seq(Byte), NEW s \in Seq(Pos)
  PROVE  /\ Bytes(s) \in Seq(Byte) /\ Len(Bytes(s)) = Len(s)
         /\ \A i \in 1 .. Len(s) : Bytes(s)[i] = content[s[i]]
<1>1. Len(s) \in Nat /\ DOMAIN s = 1 .. Len(s) /\ \A i \in 1 .. Len(s) : s[i] \in Pos
  BY ST!LenProperties, ST!ElementOfSeq
<1>2. \A p \in Pos : content[p] \in Byte
  BY ST!ElementOfSeq DEF Pos
<1>3. Bytes(s) \in [1 .. Len(s) -> Byte]
  BY <1>1, <1>2 DEF Bytes
<1>4. Bytes(s) \in Seq(Byte)
  BY <1>1, <1>3
<1>5. DOMAIN Bytes(s) = 1 .. Len(s) /\ DOMAIN Bytes(s) = 1 .. Len(Bytes(s)) /\ Len(Bytes(s)) \in Nat
  BY <1>3, <1>4, ST!LenProperties
<1>6. Len(Bytes(s)) = Len(s)
  BY <1>1, <1>5
<1> QED BY <1>1, <1>4, <1>6 DEF Bytes

\* What comes off the end of a line.
LEMMA TrimIs ==
  ASSUME content \in Seq(Byte), NEW s \in Seq(Pos), NEW c, EndsIn(s, c)
  PROVE  /\ Len(s) \in Nat \ {0} /\ content[s[Len(s)]] = c
         /\ TrimSuffix(s, c) \in Seq(Pos) /\ Len(TrimSuffix(s, c)) = Len(s) - 1
         /\ \A i \in 1 .. Len(s) - 1 : TrimSuffix(s, c)[i] = s[i]
<1>1. Len(s) \in Nat \ {0} /\ content[s[Len(s)]] = c
  BY ST!LenProperties, ST!EmptySeq DEF EndsIn, Last
<1>2. Len(s) - 1 \in 0 .. Len(s)
  BY <1>1
<1>3. TrimSuffix(s, c) = SubSeq(s, 1, Len(s) - 1)
  BY DEF TrimSuffix, Front
<1>4. /\ SubSeq(s, 1, Len(s) - 1) \in Seq(Pos) /\ Len(SubSeq(s, 1, Len(s) - 1)) = Len(s) - 1
      /\ \A i \in 1 .. Len(s) - 1 : SubSeq(s, 1, Len(s) - 1)[i] = s[i]
  BY <1>2, SplitAt
<1> QED BY <1>1, <1>3, <1>4

Trimmed(s) == TrimSuffix(TrimSuffix(s, "\n"), "\r")

\* The bytes of a line are those of a prefix of it and of a terminator.
LEMMA SplitLine ==
  ASSUME content \in Seq(Byte), NEW s \in Seq(Pos), NEW v \in Seq(Pos), NEW t \in Seq(Byte),
         Len(s) = Len(v) + Len(t),
         \A i \in 1 .. Len(v) : v[i] = s[i],
         \A i \in 1 .. Len(t) : content[s[Len(v) + i]] = t[i]
  PROVE  Bytes(s) = Bytes(v) \o t
<1>1. /\ Len(s) \in Nat /\ Len(v) \in Nat /\ Len(t) \in Nat
      /\ Bytes(s) \in Seq(Byte) /\ Len(Bytes(s)) = Len(s)
      /\ \A i \in 1 .. Len(s) : Bytes(s)[i] = content[s[i]]
      /\ Bytes(v) \in Seq(Byte) /\ Len(Bytes(v)) = Len(v)
      /\ \A i \in 1 .. Len(v) : Bytes(v)[i] = content[v[i]]
  BY BytesTyped, ST!LenProperties
<1> DEFINE w == Bytes(v) \o t
<1>2. /\ w \in Seq(Byte) /\ Len(w) = Len(v) + Len(t)
      /\ \A i \in 1 .. Len(v) + Len(t) : w[i] = IF i <= Len(v) THEN Bytes(v)[i] ELSE t[i - Len(v)]
  BY <1>1, ST!ConcatProperties
<1> HIDE DEF w
<1>3. ASSUME NEW i \in 1 .. Len(Bytes(s)) PROVE Bytes(s)[i] = w[i]
  <2>1. i \in 1 .. Len(v) + Len(t) /\ i \in 1 .. Len(s)
    BY <1>1
  <2>2. CASE i <= Len(v)
    <3>1. i \in 1 .. Len(v)
      BY <1>1, <2>1, <2>2
    <3> QED BY <1>1, <1>2, <2>1, <2>2, <3>1
  <2>3. CASE ~(i <= Len(v))
    <3>1. i - Len(v) \in 1 .. Len(t) /\ Len(v) + (i - Len(v)) = i
      BY <1>1, <2>1, <2>3
    <3>2. content[s[i]] = t[i - Len(v)]
      BY <3>1
    <3> QED BY <1>1, <1>2, <2>1, <2>3, <3>2
  <2> QED BY <2>2, <2>3
<1>4. Bytes(s) = w
  BY <1>1, <1>2, <1>3, ST!SeqEqual
<1> QED BY <1>4 DEF w

\* The terminators that end a line.
LEMMA NewlineEnds ==
  ASSUME content \in Seq(Byte), NEW s \in Seq(Pos), NEW t \in Seq(Byte), (Len(t) = 1 \/ Len(t) = 2),
         IsSuffix(t, Bytes(s))
  PROVE  /\ s # << >> /\ content[s[Len(s)]] = t[Len(t)]
         /\ Len(t) = 2 => Len(s) \in Nat \ {0, 1} /\ content[s[Len(s) - 1]] = t[1]
<1>1. /\ Len(s) \in Nat /\ Len(t) \in Nat
      /\ Bytes(s) \in Seq(Byte) /\ Len(Bytes(s)) = Len(s)
      /\ \A i \in 1 .. Len(s) : Bytes(s)[i] = content[s[i]]
  BY BytesTyped, ST!LenProperties
<1> DEFINE b == Bytes(s)
<1>2. b \in Seq(Byte) /\ IsSuffix(t, b)
  BY <1>1
<1> HIDE DEF b
<1>3. Len(t) <= Len(b) /\ \A i \in 1 .. Len(t) : t[(Len(t) - i) + 1] = b[(Len(b) - i) + 1]
  BY <1>2, SuffixIs
<1>4. Len(b) = Len(s) /\ \A i \in 1 .. Len(s) : b[i] = content[s[i]]
  BY <1>1 DEF b
<1>5. s # << >> /\ 1 <= Len(s)
  <2>1. 1 <= Len(s)
    <3>1. 1 <= Len(t) /\ Len(t) <= Len(s)
      BY <1>1, <1>3, <1>4
    <3> QED BY <1>1, <3>1
  <2>2. Len(<< >>) = 0
    OBVIOUS
  <2> QED BY <2>1, <2>2
<1>6. content[s[Len(s)]] = t[Len(t)]
  <2>1. /\ 1 \in 1 .. Len(t) /\ (Len(t) - 1) + 1 = Len(t)
        /\ (Len(b) - 1) + 1 = Len(s) /\ Len(s) \in 1 .. Len(s)
    <3>1. 1 \in 1 .. Len(t) /\ (Len(t) - 1) + 1 = Len(t)
      <4>1. Len(t) = 1 => 1 \in 1 .. Len(t) /\ (Len(t) - 1) + 1 = Len(t)
        OBVIOUS
      <4>2. Len(t) = 2 => 1 \in 1 .. Len(t) /\ (Len(t) - 1) + 1 = Len(t)
        OBVIOUS
      <4> QED BY <4>1, <4>2, Zenon
    <3>2. Len(b) = Len(s) /\ Len(s) \in Nat /\ 1 <= Len(s)
      BY <1>1, <1>4, <1>5
    <3> QED BY <3>1, <3>2
  <2>2. t[(Len(t) - 1) + 1] = b[(Len(b) - 1) + 1]
    BY <1>3, <2>1
  <2> QED BY <1>4, <2>1, <2>2
<1>7. ASSUME Len(t) = 2 PROVE Len(s) \in Nat \ {0, 1} /\ content[s[Len(s) - 1]] = t[1]
  <2>1. Len(s) \in Nat \ {0, 1}
    BY <1>1, <1>3, <1>4, <1>7
  <2>2. 2 \in 1 .. Len(t) /\ (Len(t) - 2) + 1 = 1 /\ (Len(b) - 2) + 1 = Len(s) - 1 /\ Len(s) - 1 \in 1 .. Len(s)
    BY <1>4, <1>7, <2>1
  <2>3. t[(Len(t) - 2) + 1] = b[(Len(b) - 2) + 1]
    BY <1>3, <2>2
  <2> QED BY <1>4, <2>1, <2>2, <2>3
<1> QED BY <1>5, <1>6, <1>7

LEMMA TerminatorsTyped ==
  /\ << >> \in Seq(Byte) /\ Len(<< >>) = 0
  /\ <<"\n">> \in Seq(Byte) /\ Len(<<"\n">>) = 1 /\ <<"\n">>[1] = "\n"
  /\ <<"\r">> \in Seq(Byte) /\ Len(<<"\r">>) = 1 /\ <<"\r">>[1] = "\r"
  /\ <<"\r", "\n">> \in Seq(Byte) /\ Len(<<"\r", "\n">>) = 2
  /\ <<"\r", "\n">>[1] = "\r" /\ <<"\r", "\n">>[2] = "\n"
  BY DEF Byte

LEMMA TerminatorLen ==
  ASSUME NEW t
  PROVE  /\ t \in {<< >>, <<"\n">>, <<"\r">>} => Len(t) <= 1
         /\ t \in {<< >>, <<"\n">>, <<"\r">>, <<"\r", "\n">>} => Len(t) <= 2
<1>1. t = << >> => Len(t) <= 1 /\ Len(t) <= 2
  OBVIOUS
<1>2. t = <<"\n">> => Len(t) <= 1 /\ Len(t) <= 2
  OBVIOUS
<1>3. t = <<"\r">> => Len(t) <= 1 /\ Len(t) <= 2
  OBVIOUS
<1>4. t = <<"\r", "\n">> => Len(t) <= 2
  OBVIOUS
<1> QED BY <1>1, <1>2, <1>3, <1>4, Zenon

\* Which terminators a line ends in, from its last two bytes.
LEMMA TerminatorEnds ==
  ASSUME content \in Seq(Byte), NEW s \in Seq(Pos)
  PROVE  /\ IsSuffix(<<"\n">>, Bytes(s)) => EndsIn(s, "\n")
         /\ IsSuffix(<<"\r">>, Bytes(s)) => EndsIn(s, "\r")
         /\ IsSuffix(<<"\r", "\n">>, Bytes(s)) =>
              EndsIn(s, "\n") /\ Len(s) \in Nat \ {0, 1} /\ content[s[Len(s) - 1]] = "\r"
<1>1. ASSUME IsSuffix(<<"\n">>, Bytes(s)) PROVE EndsIn(s, "\n")
  <2> DEFINE t == <<"\n">>
  <2>1. t \in Seq(Byte) /\ (Len(t) = 1 \/ Len(t) = 2) /\ IsSuffix(t, Bytes(s)) /\ t[Len(t)] = "\n"
    BY <1>1, TerminatorsTyped
  <2> HIDE DEF t
  <2>2. s # << >> /\ content[s[Len(s)]] = t[Len(t)]
    BY <2>1, NewlineEnds
  <2> QED BY <2>1, <2>2 DEF EndsIn, Last
<1>2. ASSUME IsSuffix(<<"\r">>, Bytes(s)) PROVE EndsIn(s, "\r")
  <2> DEFINE t == <<"\r">>
  <2>1. t \in Seq(Byte) /\ (Len(t) = 1 \/ Len(t) = 2) /\ IsSuffix(t, Bytes(s)) /\ t[Len(t)] = "\r"
    BY <1>2, TerminatorsTyped
  <2> HIDE DEF t
  <2>2. s # << >> /\ content[s[Len(s)]] = t[Len(t)]
    BY <2>1, NewlineEnds
  <2> QED BY <2>1, <2>2 DEF EndsIn, Last
<1>3. ASSUME IsSuffix(<<"\r", "\n">>, Bytes(s))
      PROVE  EndsIn(s, "\n") /\ Len(s) \in Nat \ {0, 1} /\ content[s[Len(s) - 1]] = "\r"
  <2> DEFINE t == <<"\r", "\n">>
  <2>1. /\ t \in Seq(Byte) /\ (Len(t) = 1 \/ Len(t) = 2) /\ IsSuffix(t, Bytes(s))
        /\ Len(t) = 2 /\ t[Len(t)] = "\n" /\ t[1] = "\r"
    BY <1>3, TerminatorsTyped
  <2> HIDE DEF t
  <2>2. /\ s # << >> /\ content[s[Len(s)]] = t[Len(t)]
        /\ Len(s) \in Nat \ {0, 1} /\ content[s[Len(s) - 1]] = t[1]
    BY <2>1, NewlineEnds
  <2> QED BY <2>1, <2>2 DEF EndsIn, Last
<1> QED BY <1>1, <1>2, <1>3

\* readLine takes off the longest terminator.
LEMMA TrimmedIsLine ==
  ASSUME content \in Seq(Byte), NEW s \in Seq(Pos)
  PROVE  IsLineOf(Trimmed(s), s)
<1> DEFINE u == TrimSuffix(s, "\n")
           v == TrimSuffix(u, "\r")
<1>1. u \in Seq(Pos) /\ v \in Seq(Pos)
  BY TrimTyped
<1>2. v = Trimmed(s)
  BY DEF Trimmed
<1>3. Len(s) \in Nat /\ Len(u) \in Nat /\ Len(v) \in Nat
  BY <1>1, ST!LenProperties
<1>4. EndsIn(s, "\n") => /\ Len(s) \in Nat \ {0} /\ content[s[Len(s)]] = "\n"
                         /\ Len(u) = Len(s) - 1 /\ \A i \in 1 .. Len(s) - 1 : u[i] = s[i]
  BY TrimIs
<1>5. ~EndsIn(s, "\n") => u = s
  BY DEF TrimSuffix
<1>6. EndsIn(u, "\r") => /\ Len(u) \in Nat \ {0} /\ content[u[Len(u)]] = "\r"
                         /\ Len(v) = Len(u) - 1 /\ \A i \in 1 .. Len(u) - 1 : v[i] = u[i]
  <2> HIDE DEF u
  <2> QED BY <1>1, TrimIs DEF v
<1>7. ~EndsIn(u, "\r") => v = u
  BY DEF TrimSuffix
<1>8. EndsIn(u, "\r") <=> u # << >> /\ content[u[Len(u)]] = "\r"
  BY DEF EndsIn, Last
<1>9. Len(u) \in Nat \ {0} => u # << >>
  BY ST!EmptySeq
<1> HIDE DEF u, v
<1>10. \A t \in Terminators : IsSuffix(t, Bytes(s)) =>
         \/ t = << >>
         \/ t = <<"\n">> /\ EndsIn(s, "\n")
         \/ t = <<"\r">> /\ EndsIn(s, "\r")
         \/ t = <<"\r", "\n">> /\ EndsIn(s, "\n") /\ Len(s) \in Nat \ {0, 1} /\ content[s[Len(s) - 1]] = "\r"
  BY TerminatorEnds DEF Terminators
<1>11. EndsIn(s, "\n") => ~EndsIn(s, "\r")
  BY DEF EndsIn
<1>12. CASE EndsIn(s, "\n") /\ EndsIn(u, "\r")
  <2> DEFINE t == <<"\r", "\n">>
  <2>1. /\ Len(s) = Len(v) + 2 /\ \A i \in 1 .. Len(v) : v[i] = s[i]
        /\ content[s[Len(v) + 1]] = "\r" /\ content[s[Len(v) + 2]] = "\n"
    <3>1. /\ Len(u) = Len(s) - 1 /\ Len(v) = Len(u) - 1 /\ Len(u) \in Nat \ {0}
          /\ \A i \in 1 .. Len(u) : u[i] = s[i]
          /\ \A i \in 1 .. Len(v) : v[i] = u[i]
          /\ content[s[Len(s)]] = "\n" /\ content[u[Len(u)]] = "\r"
      BY <1>4, <1>6, <1>12
    <3>2. Len(u) = Len(v) + 1 /\ Len(s) = Len(v) + 2 /\ Len(u) \in 1 .. Len(u) /\ \A i \in 1 .. Len(v) : i \in 1 .. Len(u)
      BY <1>3, <3>1
    <3> QED BY <3>1, <3>2
  <2>2. t \in Seq(Byte) /\ Len(t) = 2 /\ t[1] = "\r" /\ t[2] = "\n"
    BY TerminatorsTyped
  <2>3. \A i \in 1 .. Len(t) : content[s[Len(v) + i]] = t[i]
    <3>1. \A i \in 1 .. Len(t) : i = 1 \/ i = 2
      BY <2>2
    <3> HIDE DEF t
    <3> QED BY <2>1, <2>2, <3>1
  <2>4. Bytes(s) = Bytes(v) \o t
    <3>1. Len(s) = Len(v) + Len(t)
      BY <2>1, <2>2
    <3> HIDE DEF t
    <3> QED BY <1>1, <2>1, <2>2, <2>3, <3>1, SplitLine
  <2>5. \A x \in Terminators : Len(x) <= Len(t)
    <3>1. Len(t) = 2
      BY <2>2
    <3>2. \A x \in Terminators : Len(x) <= 2
      BY TerminatorLen DEF Terminators
    <3> HIDE DEF t
    <3> QED BY <3>1, <3>2
  <2>6. t \in Terminators
    BY DEF Terminators
  <2> QED BY <1>2, <2>4, <2>5, <2>6 DEF IsLineOf
<1>13. CASE EndsIn(s, "\n") /\ ~EndsIn(u, "\r")
  <2> DEFINE t == <<"\n">>
  <2>1. /\ v = u /\ Len(s) = Len(v) + 1 /\ \A i \in 1 .. Len(v) : v[i] = s[i]
        /\ content[s[Len(v) + 1]] = "\n"
    <3>1. v = u /\ Len(u) = Len(s) - 1 /\ content[s[Len(s)]] = "\n" /\ \A i \in 1 .. Len(s) - 1 : u[i] = s[i]
      BY <1>4, <1>7, <1>13
    <3>2. Len(s) = Len(v) + 1
      BY <1>3, <3>1
    <3> QED BY <3>1, <3>2
  <2>2. t \in Seq(Byte) /\ Len(t) = 1 /\ t[1] = "\n"
    BY TerminatorsTyped
  <2>3. \A i \in 1 .. Len(t) : content[s[Len(v) + i]] = t[i]
    <3>1. \A i \in 1 .. Len(t) : i = 1
      BY <2>2
    <3> HIDE DEF t
    <3> QED BY <2>1, <2>2, <3>1
  <2>4. Bytes(s) = Bytes(v) \o t
    <3>1. Len(s) = Len(v) + Len(t)
      BY <2>1, <2>2
    <3> HIDE DEF t
    <3> QED BY <1>1, <2>1, <2>2, <2>3, <3>1, SplitLine
  <2>5. ~(Len(s) \in Nat \ {0, 1} /\ content[s[Len(s) - 1]] = "\r")
    <3> SUFFICES ASSUME Len(s) \in Nat \ {0, 1}, content[s[Len(s) - 1]] = "\r" PROVE FALSE
      OBVIOUS
    <3>1. Len(u) = Len(s) - 1 /\ Len(u) \in Nat \ {0} /\ Len(u) \in 1 .. Len(s) - 1
      BY <1>4, <1>13
    <3>2. u[Len(u)] = s[Len(s) - 1]
      BY <1>4, <1>13, <3>1
    <3> QED BY <1>8, <1>9, <1>13, <3>1, <3>2
  <2>6. \A x \in Terminators : IsSuffix(x, Bytes(s)) => Len(x) <= Len(t)
    <3>1. \A x \in Terminators : IsSuffix(x, Bytes(s)) => x = << >> \/ x = <<"\n">>
      BY <1>10, <1>11, <1>13, <2>5
    <3>2. \A x \in Terminators : IsSuffix(x, Bytes(s)) => Len(x) <= 1
      BY <3>1, TerminatorLen
    <3>3. Len(t) = 1
      BY <2>2
    <3> HIDE DEF t
    <3> QED BY <3>2, <3>3
  <2>7. t \in Terminators
    BY DEF Terminators
  <2> QED BY <1>2, <2>4, <2>6, <2>7 DEF IsLineOf
<1>14. CASE ~EndsIn(s, "\n") /\ EndsIn(u, "\r")
  <2> DEFINE t == <<"\r">>
  <2>1. /\ u = s /\ Len(s) = Len(v) + 1 /\ \A i \in 1 .. Len(v) : v[i] = s[i]
        /\ content[s[Len(v) + 1]] = "\r"
    <3>1. u = s /\ Len(v) = Len(s) - 1 /\ content[s[Len(s)]] = "\r" /\ \A i \in 1 .. Len(s) - 1 : v[i] = s[i]
      BY <1>5, <1>6, <1>14
    <3>2. Len(s) = Len(v) + 1
      BY <1>3, <3>1
    <3> QED BY <3>1, <3>2
  <2>2. t \in Seq(Byte) /\ Len(t) = 1 /\ t[1] = "\r"
    BY TerminatorsTyped
  <2>3. \A i \in 1 .. Len(t) : content[s[Len(v) + i]] = t[i]
    <3>1. \A i \in 1 .. Len(t) : i = 1
      BY <2>2
    <3> HIDE DEF t
    <3> QED BY <2>1, <2>2, <3>1
  <2>4. Bytes(s) = Bytes(v) \o t
    <3>1. Len(s) = Len(v) + Len(t)
      BY <2>1, <2>2
    <3> HIDE DEF t
    <3> QED BY <1>1, <2>1, <2>2, <2>3, <3>1, SplitLine
  <2>5. \A x \in Terminators : IsSuffix(x, Bytes(s)) => Len(x) <= Len(t)
    <3>1. \A x \in Terminators : IsSuffix(x, Bytes(s)) => x = << >> \/ x = <<"\r">>
      BY <1>10, <1>14
    <3>2. \A x \in Terminators : IsSuffix(x, Bytes(s)) => Len(x) <= 1
      BY <3>1, TerminatorLen
    <3>3. Len(t) = 1
      BY <2>2
    <3> HIDE DEF t
    <3> QED BY <3>2, <3>3
  <2>6. t \in Terminators
    BY DEF Terminators
  <2> QED BY <1>2, <2>4, <2>5, <2>6 DEF IsLineOf
<1>15. CASE ~EndsIn(s, "\n") /\ ~EndsIn(u, "\r")
  <2>1. v = s /\ ~EndsIn(s, "\r")
    BY <1>5, <1>7, <1>15
  <2>2. Bytes(s) = Bytes(v) \o << >>
    <3>1. Bytes(s) \in Seq(Byte)
      BY BytesTyped
    <3> QED BY <2>1, <3>1, ST!ConcatEmptySeq
  <2>3. \A x \in Terminators : IsSuffix(x, Bytes(s)) => Len(x) <= Len(<< >>)
    <3>1. \A x \in Terminators : IsSuffix(x, Bytes(s)) => x = << >>
      BY <1>10, <1>15, <2>1
    <3> QED BY <3>1, TerminatorsTyped
  <2>4. << >> \in Terminators
    BY DEF Terminators
  <2> QED BY <1>2, <2>2, <2>3, <2>4 DEF IsLineOf
<1> QED BY <1>12, <1>13, <1>14, <1>15

(* The types of the variables, and the steps by what they do to a handle. *)

Ops == {"readLine", "read", "readAll"}
Errors == {"none", "eof", "error"}
Pieces == Seq(Pos)
Calls == [op : Ops \cup {"none"}, h : Handles, n : Nat, got : Pieces]
Entries == [by : Actors, op : Ops, n : Nat, used : Pieces, value : Pieces, err : Errors]
RelayPcs == {"off", "loop", "read", "send", "stop", "closed"}

TypeOK ==
  /\ content \in Seq(Byte) /\ taken \in 0 .. Len(content)
  /\ made \in [Handles -> BOOLEAN]
  /\ buf \in [Handles -> Pieces] /\ fetched \in [Handles -> Pieces]
  /\ pending \in [Handles -> Errors]
  /\ call \in [Actors -> Calls]
  /\ main \in {"free", "drain", "done"}
  /\ relay \in [pc : RelayPcs, handle : Handles, line : Pieces]
  /\ sent \in Seq(Pieces)
  /\ log \in [Handles -> Seq(Entries)]

EnterStep(x, op, h, n) ==
  /\ Enter(x, op, h, n) /\ main' = main
  /\ \/ x = "main" /\ main = "free" /\ Mine(h) /\ relay' = relay
     \/ /\ x = "relay" /\ op = "readLine" /\ h = relay.handle
        /\ relay.pc = "loop" /\ relay' = [relay EXCEPT !.pc = "read"]

LeaveStep(x) ==
  /\ Leave(x) /\ main' = main
  /\ \/ x = "main" /\ relay' = relay
     \/ x = "relay" /\ relay.pc = "read" /\ relay' = AfterLine(Result(call["relay"]))

QuietStep == CloseFile \/ Lines \/ Drain \/ Finish \/ Transfer \/ RelayCloses \/ UNCHANGED vars

LEMMA QuietLeaves ==
  ASSUME QuietStep
  PROVE  UNCHANGED <<content, taken, fetched, made, buf, pending, call, log>>
  BY DEF QuietStep, CloseFile, Lines, Drain, Finish, Transfer, RelayCloses, vars, source

LEMMA Steps ==
  ASSUME TypeOK, [Next]_vars
  PROVE  \/ \E x \in Actors, op \in Ops, h \in Handles, n \in Nat : EnterStep(x, op, h, n)
         \/ \E x \in Actors : LeaveStep(x) \/ Fill(x) \/ Collect(x)
         \/ QuietStep
<1>1. ASSUME Begin PROVE \E x \in Actors, op \in Ops, h \in Handles, n \in Nat : EnterStep(x, op, h, n)
  <2>1. PICK h \in Handles :
          /\ Mine(h)
          /\ \/ Enter("main", "readLine", h, 0)
             \/ \E n \in Sizes : Enter("main", "read", h, n)
             \/ Enter("main", "readAll", h, 0)
    BY <1>1 DEF Begin
  <2>2. main = "free" /\ main' = main /\ relay' = relay
    BY <1>1 DEF Begin, Free
  <2>3. PICK op \in Ops, n \in Nat : Enter("main", op, h, n)
    BY <2>1, FilesAssumption DEF FilesAssumption, Ops
  <2>4. "main" \in Actors
    BY DEF Actors
  <2>5. EnterStep("main", op, h, n)
    BY <2>1, <2>2, <2>3 DEF EnterStep
  <2> QED BY <2>4, <2>5
<1>2. ASSUME RelayCalls PROVE \E x \in Actors, op \in Ops, h \in Handles, n \in Nat : EnterStep(x, op, h, n)
  <2>1. EnterStep("relay", "readLine", relay.handle, 0)
    BY <1>2 DEF EnterStep, RelayCalls
  <2>2. "relay" \in Actors /\ "readLine" \in Ops /\ relay.handle \in Handles /\ 0 \in Nat
    BY DEF Actors, Ops, TypeOK
  <2> QED BY <2>1, <2>2
<1>3. ASSUME Return \/ RelayReturns PROVE \E x \in Actors : LeaveStep(x)
  <2>1. Return => LeaveStep("main")
    BY DEF Return, LeaveStep
  <2>2. RelayReturns => LeaveStep("relay")
    BY DEF RelayReturns, LeaveStep
  <2> QED BY <1>3, <2>1, <2>2 DEF Actors
<1> QED BY <1>1, <1>2, <1>3 DEF Next, QuietStep

LEMMA PosStays ==
  ASSUME content' = content
  PROVE  Pos' = Pos
  BY DEF Pos

LEMMA ReaderTyped ==
  ASSUME TypeOK, NEW h \in Handles, Reader(h)
  PROVE  buf' \in [Handles -> Pieces] /\ made' \in [Handles -> BOOLEAN]
<1>1. << >> \in Pieces
  BY DEF Pieces
<1> QED BY <1>1 DEF Reader, TypeOK

\* What a call returns.
LEMMA ResultTyped ==
  ASSUME TypeOK, NEW x \in Actors, call[x].op \in Ops
  PROVE  /\ Takes(call[x]) \in Pieces
         /\ Without(Len(Takes(call[x])), buf[call[x].h]) \in Pieces
         /\ Takes(call[x]) \o Without(Len(Takes(call[x])), buf[call[x].h]) = buf[call[x].h]
         /\ call[x].got \o Takes(call[x]) \in Pieces
         /\ ErrorWith(call[x]) \in Errors
         /\ Result(call[x]).value \in Pieces /\ Result(call[x]).err \in Errors
<1> DEFINE c == call[x]
           u == c.got \o Takes(c)
<1>1. c \in Calls /\ c.h \in Handles /\ c.n \in Nat /\ c.got \in Pieces /\ buf[c.h] \in Pieces
  BY DEF TypeOK, Calls
<1>2. /\ Takes(c) \in Pieces /\ Without(Len(Takes(c)), buf[c.h]) \in Pieces
      /\ Takes(c) \o Without(Len(Takes(c)), buf[c.h]) = buf[c.h]
  <2> HIDE DEF c
  <2> QED BY <1>1, TakesTyped DEF Pieces
<1>3. u \in Pieces
  <2> HIDE DEF c
  <2> QED BY <1>1, <1>2, ST!ConcatProperties DEF Pieces
<1>4. ErrorWith(c) \in Errors
  <2>1. pending[c.h] \in Errors
    BY <1>1 DEF TypeOK
  <2> QED BY <2>1 DEF ErrorWith, Errors
<1>5. TrimSuffix(TrimSuffix(u, "\n"), "\r") \in Pieces
  <2> HIDE DEF u
  <2> QED BY <1>3, TrimTyped DEF Pieces
<1>6. << >> \in Pieces
  BY DEF Pieces
<1>7. c.op = "readLine" => Result(c).value \in Pieces /\ Result(c).err \in Errors
  <2> SUFFICES ASSUME c.op = "readLine" PROVE Result(c).value \in Pieces /\ Result(c).err \in Errors
    OBVIOUS
  <2>1. Result(c) = ReadLineFile(u, ErrorWith(c))
    BY DEF Result
  <2> HIDE DEF u, c
  <2> QED BY <1>4, <1>5, <1>6, <2>1 DEF ReadLineFile, Errors
<1>8. c.op = "read" => Result(c).value \in Pieces /\ Result(c).err \in Errors
  <2> SUFFICES ASSUME c.op = "read" PROVE Result(c).value \in Pieces /\ Result(c).err \in Errors
    OBVIOUS
  <2>1. Result(c) = ReadFile(u, ErrorWith(c))
    BY DEF Result
  <2> HIDE DEF u, c
  <2> QED BY <1>3, <1>4, <2>1 DEF ReadFile
<1>9. c.op = "readAll" => Result(c).value \in Pieces /\ Result(c).err \in Errors
  <2> SUFFICES ASSUME c.op = "readAll" PROVE Result(c).value \in Pieces /\ Result(c).err \in Errors
    OBVIOUS
  <2>1. Result(c) = ReadAllFile(u, ErrorWith(c))
    BY DEF Result
  <2> HIDE DEF u, c
  <2> QED BY <1>3, <1>4, <2>1 DEF ReadAllFile, Errors
<1> QED BY <1>2, <1>3, <1>4, <1>7, <1>8, <1>9 DEF Ops

LEMMA ReadyOp ==
  ASSUME NEW c, Ready(c)
  PROVE  c.op \in Ops /\ c.op # "none"
  BY DEF Ready, Ops

LEMMA NewBytes ==
  ASSUME TypeOK, NEW x \in Actors, NEW k \in 1 .. Room(call[x]), taken + k <= Len(content)
  PROVE  k \in Nat /\ [i \in 1 .. k |-> taken + i] \in Pieces /\ taken + k \in 0 .. Len(content)
<1> DEFINE c == call[x]
<1>1. c \in Calls /\ c.h \in Handles /\ c.n \in Nat /\ buf[c.h] \in Pieces /\ taken \in Nat /\ Len(content) \in Nat
  <2>1. Len(content) \in Nat
    BY ST!LenProperties DEF TypeOK
  <2> QED BY <2>1 DEF TypeOK, Calls
<1>2. Room(c) \in Int
  <2>1. Len(buf[c.h]) \in Nat
    BY <1>1, ST!LenProperties DEF Pieces
  <2> HIDE DEF c
  <2> QED BY <1>1, <2>1, FilesAssumption DEF Room, FilesAssumption
<1>3. k \in Nat
  BY <1>2
<1>4. \A i \in 1 .. k : taken + i \in Pos
  BY <1>1, <1>3 DEF Pos
<1>5. [i \in 1 .. k |-> taken + i] \in [1 .. k -> Pos]
  BY <1>4
<1>6. [i \in 1 .. k |-> taken + i] \in Pieces
  BY <1>3, <1>5 DEF Pieces
<1> QED BY <1>1, <1>3, <1>6

\* The initial states and the steps respect the types.
LEMMA InitTypes ==
  ASSUME Init
  PROVE  TypeOK
<1>1. << >> \in Pieces
  BY DEF Pieces
<1>2. content \in Seq(Byte) /\ Len(content) \in Nat
  <2>1. content \in Seq(Byte)
    BY FilesAssumption DEF Init, FilesAssumption, Byte
  <2> QED BY <2>1, ST!LenProperties
<1>3. NoCall.h \in Handles /\ NoCall \in Calls
  BY <1>1, FilesAssumption DEF NoCall, FilesAssumption, Calls
<1>4. taken \in 0 .. Len(content)
  BY <1>2 DEF Init
<1>5. log \in [Handles -> Seq(Entries)]
  <2>1. << >> \in Seq(Entries)
    OBVIOUS
  <2> QED BY <2>1 DEF Init
<1>6. sent \in Seq(Pieces)
  BY DEF Init
<1>7. relay \in [pc : RelayPcs, handle : Handles, line : Pieces]
  BY <1>1, <1>3 DEF Init, RelayPcs
<1> QED BY <1>1, <1>2, <1>3, <1>4, <1>5, <1>6, <1>7 DEF Init, TypeOK, Errors

LEMMA EnterTypes ==
  ASSUME TypeOK, NEW x \in Actors, NEW op \in Ops, NEW h \in Handles, NEW n \in Nat, EnterStep(x, op, h, n)
  PROVE  TypeOK'
<1>1. Reader(h) /\ UNCHANGED <<content, taken, fetched, pending, sent, log>> /\ main' = main
  BY DEF EnterStep, Enter, source
<1>2. Pieces' = Pieces
  BY <1>1, PosStays DEF Pieces
<1>3. Calls' = Calls /\ Entries' = Entries
  BY <1>2 DEF Calls, Entries
<1>4. buf' \in [Handles -> Pieces] /\ made' \in [Handles -> BOOLEAN]
  BY <1>1, ReaderTyped
<1>5. call' \in [Actors -> Calls]
  <2>1. [op |-> op, h |-> h, n |-> n, got |-> << >>] \in Calls
    BY DEF Calls, Pieces
  <2>2. call' = [call EXCEPT ![x] = [op |-> op, h |-> h, n |-> n, got |-> << >>]]
    BY DEF EnterStep, Enter
  <2> QED BY <2>1, <2>2 DEF TypeOK
<1>6. relay' \in [pc : RelayPcs, handle : Handles, line : Pieces]
  BY DEF EnterStep, TypeOK, RelayPcs
<1> QED BY <1>1, <1>2, <1>3, <1>4, <1>5, <1>6 DEF TypeOK

LEMMA LeaveTypes ==
  ASSUME TypeOK, NEW x \in Actors, LeaveStep(x)
  PROVE  TypeOK'
<1> DEFINE c == call[x]
           k == Len(Takes(c))
           e == [by |-> x, op |-> c.op, n |-> c.n, used |-> c.got \o Takes(c),
                 value |-> Result(c).value, err |-> Result(c).err]
<1>1. /\ Ready(c)
      /\ buf' = [buf EXCEPT ![c.h] = Without(k, buf[c.h])]
      /\ pending' = IF ErrorWith(c) = "none" THEN pending ELSE [pending EXCEPT ![c.h] = "none"]
      /\ call' = [call EXCEPT ![x] = NoCall]
      /\ log' = [log EXCEPT ![c.h] = Append(log[c.h], e)]
      /\ UNCHANGED <<content, taken, fetched, made, sent, main>>
  BY DEF LeaveStep, Leave, source
<1>2. c.op \in Ops /\ c \in Calls /\ c.h \in Handles /\ c.n \in Nat
  <2>1. Ready(c)
    BY <1>1
  <2>2. c \in Calls
    BY DEF TypeOK
  <2> HIDE DEF c
  <2> QED BY <2>1, <2>2, ReadyOp DEF Calls
<1>3. /\ Without(k, buf[c.h]) \in Pieces
      /\ c.got \o Takes(c) \in Pieces /\ Result(c).value \in Pieces /\ Result(c).err \in Errors
  BY <1>2, ResultTyped
<1>4. Pieces' = Pieces
  BY <1>1, PosStays DEF Pieces
<1>5. Calls' = Calls /\ Entries' = Entries
  BY <1>4 DEF Calls, Entries
<1> HIDE DEF c, k
<1>6. e \in Entries
  BY <1>2, <1>3 DEF Entries
<1> HIDE DEF e
<1>7. Append(log[c.h], e) \in Seq(Entries)
  <2>1. log[c.h] \in Seq(Entries)
    BY <1>2 DEF TypeOK
  <2> QED BY <1>6, <2>1, ST!AppendProperties
<1>8. log' \in [Handles -> Seq(Entries)]
  BY <1>1, <1>7 DEF TypeOK
<1>9. call' \in [Actors -> Calls]
  <2>1. NoCall \in Calls
    BY FilesAssumption DEF NoCall, FilesAssumption, Calls, Pieces
  <2> QED BY <1>1, <2>1 DEF TypeOK
<1>10. buf' \in [Handles -> Pieces] /\ pending' \in [Handles -> Errors]
  BY <1>1, <1>3 DEF TypeOK, Errors
<1>11. relay' \in [pc : RelayPcs, handle : Handles, line : Pieces]
  <2>1. CASE relay' = relay
    BY <2>1 DEF TypeOK
  <2>2. CASE x = "relay" /\ relay' = AfterLine(Result(call["relay"]))
    <3>1. Result(call["relay"]).value \in Pieces
      BY <1>3, <2>2 DEF c
    <3> QED BY <2>2, <3>1 DEF AfterLine, TypeOK, RelayPcs
  <2> QED BY <2>1, <2>2 DEF LeaveStep
<1> QED BY <1>1, <1>4, <1>5, <1>8, <1>9, <1>10, <1>11 DEF TypeOK

LEMMA FillTypes ==
  ASSUME TypeOK, NEW x \in Actors, Fill(x)
  PROVE  TypeOK'
<1> DEFINE c == call[x]
<1>1. UNCHANGED <<content, made, call, main, relay, sent, log>>
  BY DEF Fill
<1>2. Pieces' = Pieces
  BY <1>1, PosStays DEF Pieces
<1>3. Calls' = Calls /\ Entries' = Entries
  BY <1>2 DEF Calls, Entries
<1>4. c.h \in Handles
  BY DEF TypeOK, Calls
<1>5. CASE \E k \in 1 .. Room(c) :
             /\ taken + k <= Len(content)
             /\ buf' = [buf EXCEPT ![c.h] = buf[c.h] \o [i \in 1 .. k |-> taken + i]]
             /\ fetched' = [fetched EXCEPT ![c.h] = fetched[c.h] \o [i \in 1 .. k |-> taken + i]]
             /\ taken' = taken + k /\ pending' = pending
  <2>1. PICK k \in 1 .. Room(c) :
             /\ taken + k <= Len(content)
             /\ buf' = [buf EXCEPT ![c.h] = buf[c.h] \o [i \in 1 .. k |-> taken + i]]
             /\ fetched' = [fetched EXCEPT ![c.h] = fetched[c.h] \o [i \in 1 .. k |-> taken + i]]
             /\ taken' = taken + k /\ pending' = pending
    BY <1>5
  <2> DEFINE new == [i \in 1 .. k |-> taken + i]
  <2>2. new \in Pieces /\ taken + k \in 0 .. Len(content)
    BY <2>1, NewBytes
  <2>3. buf[c.h] \in Pieces /\ fetched[c.h] \in Pieces
    BY <1>4 DEF TypeOK
  <2> HIDE DEF new, c
  <2>4. buf[c.h] \o new \in Pieces /\ fetched[c.h] \o new \in Pieces
    BY <2>2, <2>3, ST!ConcatProperties DEF Pieces
  <2>5. buf' \in [Handles -> Pieces] /\ fetched' \in [Handles -> Pieces]
    BY <2>1, <2>4 DEF TypeOK, new
  <2> QED BY <1>1, <1>2, <1>3, <2>1, <2>2, <2>5 DEF TypeOK
<1>6. CASE \E e \in Errors : pending' = [pending EXCEPT ![c.h] = e] /\ UNCHANGED <<buf, fetched, taken>>
  <2>1. pending' \in [Handles -> Errors]
    BY <1>6 DEF TypeOK
  <2> QED BY <1>1, <1>2, <1>3, <1>6, <2>1 DEF TypeOK
<1> QED BY <1>5, <1>6 DEF Fill, Errors

LEMMA CollectTypes ==
  ASSUME TypeOK, NEW x \in Actors, Collect(x)
  PROVE  TypeOK'
<1> DEFINE c == call[x]
<1>1. /\ UNCHANGED <<content, taken, fetched, made, pending, main, relay, sent, log>>
      /\ call' = [call EXCEPT ![x].got = c.got \o buf[c.h]]
      /\ buf' = [buf EXCEPT ![c.h] = << >>]
  BY DEF Collect, source
<1>2. Pieces' = Pieces
  BY <1>1, PosStays DEF Pieces
<1>3. Calls' = Calls /\ Entries' = Entries
  BY <1>2 DEF Calls, Entries
<1>4. c \in Calls /\ c.h \in Handles /\ c.got \in Pieces /\ buf[c.h] \in Pieces
  BY DEF TypeOK, Calls
<1> HIDE DEF c
<1>5. c.got \o buf[c.h] \in Pieces
  BY <1>4, ST!ConcatProperties DEF Pieces
<1>6. call' \in [Actors -> Calls]
  BY <1>1, <1>5 DEF TypeOK, Calls
<1>7. buf' \in [Handles -> Pieces]
  <2>1. << >> \in Pieces
    BY DEF Pieces
  <2> QED BY <1>1, <2>1 DEF TypeOK
<1> QED BY <1>1, <1>2, <1>3, <1>6, <1>7 DEF TypeOK

LEMMA QuietTypes ==
  ASSUME TypeOK, QuietStep
  PROVE  TypeOK'
<1>1. UNCHANGED <<content, taken, fetched, made, buf, pending, call, log>>
  BY QuietLeaves
<1>2. Pieces' = Pieces
  BY <1>1, PosStays DEF Pieces
<1>3. Calls' = Calls /\ Entries' = Entries
  BY <1>2 DEF Calls, Entries
<1>4. main' \in {"free", "drain", "done"}
  BY DEF QuietStep, CloseFile, Lines, Drain, Finish, Transfer, RelayCloses, vars, TypeOK
<1>5. relay' \in [pc : RelayPcs, handle : Handles, line : Pieces]
  BY DEF QuietStep, CloseFile, Lines, Drain, Finish, Transfer, RelayCloses, vars, TypeOK, RelayPcs
<1>6. sent' \in Seq(Pieces)
  <2>1. Append(sent, relay.line) \in Seq(Pieces)
    <3>1. sent \in Seq(Pieces) /\ relay.line \in Pieces
      BY DEF TypeOK
    <3> QED BY <3>1, ST!AppendProperties
  <2>2. sent' = sent \/ sent' = Append(sent, relay.line)
    BY DEF QuietStep, CloseFile, Lines, Drain, Finish, Transfer, RelayCloses, vars
  <2>3. sent \in Seq(Pieces)
    BY DEF TypeOK
  <2> QED BY <2>1, <2>2, <2>3
<1> QED BY <1>1, <1>2, <1>3, <1>4, <1>5, <1>6 DEF TypeOK

LEMMA TypesStep ==
  ASSUME TypeOK, [Next]_vars
  PROVE  TypeOK'
  BY Steps, EnterTypes, LeaveTypes, FillTypes, CollectTypes, QuietTypes

(* Who reads through which handle. *)

ActorsOK ==
  /\ \A x \in Actors : call[x].op # "none" => made[call[x].h]
  /\ (call["relay"].op # "none") <=> (relay.pc = "read")
  /\ relay.pc = "read" => call["relay"].op = "readLine" /\ call["relay"].h = relay.handle
  /\ call["main"].op # "none" => main = "free" /\ Mine(call["main"].h)

\* A handle whose reader is not made has read nothing; a reader that has seen
\* the end of the file saw it after its last byte.
BufferOK ==
  \A h \in Handles : /\ ~made[h] => buf[h] = << >>
                     /\ pending[h] = "eof" => taken = Len(content)

\* What readLine has collected is no line yet; read collects nothing.
CallOK ==
  \A x \in Actors : /\ call[x].op = "readLine" => ~HasLine(call[x].got)
                    /\ call[x].op = "read" => call[x].got = << >>

LEMMA NoneUses == NoCall.op = "none" /\ "none" \notin Ops
  BY DEF NoCall, Ops

LEMMA ActorsAre == \A x \in Actors : x = "main" \/ x = "relay"
  BY DEF Actors

LEMMA EnterActors ==
  ASSUME TypeOK, ActorsOK,
         NEW x \in Actors, NEW op \in Ops, NEW h \in Handles, NEW n \in Nat, EnterStep(x, op, h, n)
  PROVE  ActorsOK'
<1>1. /\ call[x].op = "none" /\ made' = [made EXCEPT ![h] = TRUE]
      /\ call' = [call EXCEPT ![x] = [op |-> op, h |-> h, n |-> n, got |-> << >>]]
  BY DEF EnterStep, Enter, Reader
<1>2. "main" \in Actors /\ "relay" \in Actors /\ op # "none"
  BY DEF Actors, Ops
<1>3. call'[x].op = op /\ call'[x].h = h /\ \A y \in Actors : y # x => call'[y] = call[y]
  BY <1>1 DEF TypeOK
<1>4. made'[h] = TRUE /\ \A g \in Handles : made[g] => made'[g]
  BY <1>1 DEF TypeOK
<1>5. \A y \in Actors : call[y].h \in Handles
  BY DEF TypeOK, Calls
<1>6. \A y \in Actors : call'[y].op # "none" => made'[call'[y].h]
  BY <1>3, <1>4, <1>5 DEF ActorsOK
<1>7. CASE x = "main" /\ main = "free" /\ Mine(h) /\ relay' = relay /\ main' = main
  <2>1. call'["relay"] = call["relay"] /\ call'["main"].h = h
    BY <1>2, <1>3, <1>7
  <2>2. Mine(h)'
    BY <1>7 DEF Mine
  <2> QED BY <1>6, <1>7, <2>1, <2>2 DEF ActorsOK, Mine
<1>8. CASE /\ x = "relay" /\ op = "readLine" /\ h = relay.handle /\ main' = main
           /\ relay.pc = "loop" /\ relay' = [relay EXCEPT !.pc = "read"]
  <2>1. call'["main"] = call["main"] /\ call'["relay"].op = "readLine" /\ call'["relay"].h = h
    BY <1>2, <1>3, <1>8
  <2>2. relay'.pc = "read" /\ relay'.handle = relay.handle
    BY <1>8 DEF TypeOK
  <2> QED BY <1>2, <1>6, <1>8, <2>1, <2>2 DEF ActorsOK, Mine
<1> QED BY <1>7, <1>8 DEF EnterStep

LEMMA LeaveActors ==
  ASSUME TypeOK, ActorsOK, NEW x \in Actors, LeaveStep(x)
  PROVE  ActorsOK'
<1>1. Ready(call[x]) /\ call' = [call EXCEPT ![x] = NoCall] /\ made' = made /\ main' = main
  BY DEF LeaveStep, Leave
<1>2. "main" \in Actors /\ "relay" \in Actors /\ call[x].op # "none"
  BY <1>1, ReadyOp DEF Actors
<1>3. call'[x] = NoCall /\ \A y \in Actors : y # x => call'[y] = call[y]
  BY <1>1 DEF TypeOK
<1>4. \A y \in Actors : call'[y].op # "none" => made'[call'[y].h]
  BY <1>1, <1>3, NoneUses DEF ActorsOK
<1>5. CASE x = "main" /\ relay' = relay
  <2>1. call'["relay"] = call["relay"] /\ call'["main"].op = "none"
    BY <1>2, <1>3, <1>5, NoneUses
  <2> QED BY <1>1, <1>4, <1>5, <2>1 DEF ActorsOK
<1>6. CASE x = "relay" /\ relay.pc = "read" /\ relay' = AfterLine(Result(call["relay"]))
  <2>1. call'["main"] = call["main"] /\ call'["relay"].op = "none"
    BY <1>2, <1>3, <1>6, NoneUses
  <2>2. relay'.pc \in {"stop", "send"} /\ relay'.handle = relay.handle
    BY <1>6 DEF AfterLine, TypeOK
  <2>3. call["main"].op # "none" => relay.handle # call["main"].h
    BY <1>6 DEF ActorsOK, Mine
  <2> QED BY <1>1, <1>4, <2>1, <2>2, <2>3 DEF ActorsOK, Mine
<1> QED BY <1>5, <1>6 DEF LeaveStep

LEMMA QuietActors ==
  ASSUME TypeOK, ActorsOK, QuietStep
  PROVE  ActorsOK'
<1>1. call' = call /\ made' = made
  BY QuietLeaves
<1>2. CASE relay' = relay /\ main' = main
  BY <1>1, <1>2 DEF ActorsOK, Mine
<1>3. CASE Lines
  <2>1. call["main"].op = "none" /\ relay.pc = "off" /\ relay'.pc = "loop"
    BY <1>3 DEF Lines, Free, TypeOK
  <2> QED BY <1>1, <2>1 DEF ActorsOK, Mine
<1>4. CASE Drain \/ Finish
  <2>1. call["main"].op = "none" /\ relay' = relay
    BY <1>4 DEF Drain, Finish, ActorsOK
  <2> QED BY <1>1, <2>1 DEF ActorsOK, Mine
<1>5. CASE Transfer \/ RelayCloses
  <2>1. /\ relay.pc \in {"send", "stop"} /\ relay'.pc \in {"loop", "closed"} /\ main' = main
        /\ relay'.handle = relay.handle
    BY <1>5 DEF Transfer, RelayCloses, TypeOK
  <2> QED BY <1>1, <2>1 DEF ActorsOK, Mine
<1> QED BY <1>2, <1>3, <1>4, <1>5 DEF QuietStep, CloseFile, vars

\* Filling and collecting leave the calls as they are.
LEMMA ReadActors ==
  ASSUME TypeOK, ActorsOK, NEW x \in Actors, Fill(x) \/ Collect(x)
  PROVE  ActorsOK'
<1>1. UNCHANGED <<made, main, relay>>
  BY DEF Fill, Collect
<1>2. \A y \in Actors : call'[y].op = call[y].op /\ call'[y].h = call[y].h
  <2>1. CASE Fill(x)
    BY <2>1 DEF Fill
  <2>2. CASE Collect(x)
    <3> DEFINE w == call[x].got \o buf[call[x].h]
    <3>1. call' = [call EXCEPT ![x].got = w]
      BY <2>2 DEF Collect
    <3> HIDE DEF w
    <3> QED BY <3>1 DEF TypeOK, Calls
  <2> QED BY <2>1, <2>2
<1>3. "main" \in Actors /\ "relay" \in Actors
  BY DEF Actors
<1> QED BY <1>1, <1>2, <1>3 DEF ActorsOK, Mine

LEMMA InitActors ==
  ASSUME Init
  PROVE  ActorsOK /\ BufferOK /\ CallOK
<1>1. \A x \in Actors : call[x] = NoCall
  BY DEF Init
<1>2. \A x \in Actors : call[x].op = "none"
  BY <1>1, NoneUses
<1>3. "main" \in Actors /\ "relay" \in Actors
  BY DEF Actors
<1>4. relay.pc = "off"
  BY DEF Init
<1>5. ActorsOK
  BY <1>2, <1>3, <1>4 DEF ActorsOK
<1>6. BufferOK
  BY DEF Init, BufferOK
<1>7. CallOK
  BY <1>2 DEF CallOK
<1> QED BY <1>5, <1>6, <1>7

LEMMA ActorsStep ==
  ASSUME TypeOK, ActorsOK, [Next]_vars
  PROVE  ActorsOK'
  BY Steps, EnterActors, LeaveActors, ReadActors, QuietActors

\* A reader is made once: entering a call changes no buffer.
LEMMA ReaderKeeps ==
  ASSUME TypeOK, BufferOK, NEW h \in Handles, Reader(h)
  PROVE  buf' = buf
<1>1. CASE made[h]
  BY <1>1 DEF Reader
<1>2. CASE ~made[h]
  <2>1. buf[h] = << >> /\ buf' = [buf EXCEPT ![h] = << >>]
    BY <1>2 DEF Reader, BufferOK
  <2> QED BY <2>1 DEF TypeOK
<1> QED BY <1>1, <1>2

LEMMA BufferStep ==
  ASSUME TypeOK, ActorsOK, BufferOK, [Next]_vars
  PROVE  BufferOK'
<1>0. Len(content) \in Nat /\ taken \in Nat /\ taken <= Len(content)
  BY ST!LenProperties DEF TypeOK
<1>1. ASSUME NEW x \in Actors, NEW op \in Ops, NEW h \in Handles, NEW n \in Nat, EnterStep(x, op, h, n)
      PROVE  BufferOK'
  <2>1. Reader(h) /\ UNCHANGED <<pending, taken, content>>
    BY <1>1 DEF EnterStep, Enter, source
  <2>2. buf' = buf
    BY <2>1, ReaderKeeps
  <2>3. \A g \in Handles : made[g] => made'[g]
    BY <2>1 DEF Reader, TypeOK
  <2> QED BY <2>1, <2>2, <2>3 DEF BufferOK
<1>2. ASSUME NEW x \in Actors, LeaveStep(x)
      PROVE  BufferOK'
  <2> DEFINE h == call[x].h
  <2>1. /\ Ready(call[x]) /\ UNCHANGED <<made, taken, content>>
        /\ buf' = [buf EXCEPT ![h] = Without(Len(Takes(call[x])), buf[h])]
        /\ pending' = IF ErrorWith(call[x]) = "none" THEN pending ELSE [pending EXCEPT ![h] = "none"]
    BY <1>2 DEF LeaveStep, Leave, source
  <2>2. h \in Handles /\ made[h]
    BY <2>1, ReadyOp DEF TypeOK, Calls, ActorsOK
  <2> HIDE DEF h
  <2>3. \A g \in Handles : ~made'[g] => buf'[g] = << >>
    BY <2>1, <2>2 DEF BufferOK, TypeOK
  <2>4. \A g \in Handles : pending'[g] = "eof" => pending[g] = "eof"
    BY <2>1 DEF TypeOK
  <2> QED BY <2>1, <2>3, <2>4 DEF BufferOK
<1>3. ASSUME NEW x \in Actors, Fill(x)
      PROVE  BufferOK'
  <2> DEFINE h == call[x].h
  <2>1. Wants(call[x]) /\ UNCHANGED <<made, content>>
    BY <1>3 DEF Fill
  <2>2. h \in Handles /\ made[h]
    <3>1. call[x].op # "none"
      BY <2>1 DEF Wants
    <3> QED BY <3>1 DEF TypeOK, Calls, ActorsOK
  <2>3. \A g \in Handles : ~made'[g] => buf'[g] = << >>
    <3>1. \A g \in Handles : g # h => buf'[g] = buf[g]
      BY <1>3 DEF Fill, TypeOK
    <3> HIDE DEF h
    <3> QED BY <2>1, <2>2, <3>1 DEF BufferOK
  <2>4. CASE \E k \in 1 .. Room(call[x]) : taken + k <= Len(content) /\ taken' = taken + k /\ pending' = pending
    <3>1. PICK k \in 1 .. Room(call[x]) : taken + k <= Len(content) /\ taken' = taken + k /\ pending' = pending
      BY <2>4
    <3>2. k \in Nat /\ 1 <= k
      <4>1. k \in Nat
        BY <3>1, NewBytes
      <4> QED BY <4>1
    <3>3. taken # Len(content)
      BY <1>0, <3>1, <3>2
    <3>4. \A g \in Handles : pending'[g] # "eof"
      BY <3>1, <3>3 DEF BufferOK
    <3> QED BY <2>3, <3>4 DEF BufferOK
  <2>5. CASE taken = Len(content) /\ taken' = taken
    BY <2>1, <2>3, <2>5 DEF BufferOK
  <2>6. CASE pending' = [pending EXCEPT ![h] = "error"] /\ taken' = taken
    <3>1. \A g \in Handles : pending'[g] = "eof" => pending[g] = "eof"
      BY <2>6 DEF TypeOK
    <3> QED BY <2>1, <2>3, <2>6, <3>1 DEF BufferOK
  <2> QED BY <1>3, <2>4, <2>5, <2>6 DEF Fill
<1>4. ASSUME NEW x \in Actors, Collect(x)
      PROVE  BufferOK'
  BY <1>4 DEF Collect, source, BufferOK, TypeOK
<1>5. ASSUME QuietStep
      PROVE  BufferOK'
  BY <1>5, QuietLeaves DEF BufferOK
<1> QED BY Steps, <1>1, <1>2, <1>3, <1>4, <1>5

\* Two pieces without a line make no line.
LEMMA NoLineConcat ==
  ASSUME NEW S, NEW s \in Seq(S), NEW t \in Seq(S), ~HasLine(s), ~HasLine(t)
  PROVE  ~HasLine(s \o t)
<1>1. /\ DOMAIN s = 1 .. Len(s) /\ DOMAIN t = 1 .. Len(t) /\ DOMAIN (s \o t) = 1 .. Len(s \o t)
      /\ Len(s \o t) = Len(s) + Len(t) /\ Len(s) \in Nat /\ Len(t) \in Nat
      /\ \A i \in 1 .. Len(s) + Len(t) : (s \o t)[i] = IF i <= Len(s) THEN s[i] ELSE t[i - Len(s)]
  BY ST!ConcatProperties, ST!LenProperties
<1>2. ASSUME NEW i \in 1 .. Len(s) + Len(t) PROVE ~IsNewline((s \o t)[i])
  <2>1. CASE i <= Len(s)
    <3>1. i \in 1 .. Len(s)
      BY <1>1, <2>1
    <3>2. (s \o t)[i] = s[i]
      BY <1>1, <2>1
    <3> QED BY <1>1, <3>1, <3>2 DEF HasLine
  <2>2. CASE ~(i <= Len(s))
    <3>1. i - Len(s) \in 1 .. Len(t)
      BY <1>1, <2>2
    <3>2. (s \o t)[i] = t[i - Len(s)]
      BY <1>1, <2>2
    <3> QED BY <1>1, <3>1, <3>2 DEF HasLine
  <2> QED BY <2>1, <2>2
<1> QED BY <1>1, <1>2 DEF HasLine

LEMMA CallStep ==
  ASSUME TypeOK, CallOK, [Next]_vars
  PROVE  CallOK'
<1>0. ASSUME content' = content, NEW s, ~HasLine(s) PROVE ~HasLine(s)'
  BY <1>0 DEF HasLine, IsNewline
<1>1. ASSUME NEW x \in Actors, NEW op \in Ops, NEW h \in Handles, NEW n \in Nat, EnterStep(x, op, h, n)
      PROVE  CallOK'
  <2>1. content' = content /\ call' = [call EXCEPT ![x] = [op |-> op, h |-> h, n |-> n, got |-> << >>]]
    BY <1>1 DEF EnterStep, Enter, source
  <2>2. call'[x].got = << >> /\ \A y \in Actors : y # x => call'[y] = call[y]
    BY <2>1 DEF TypeOK
  <2>3. (\A s : s = << >> => ~HasLine(s))'
    BY DEF HasLine
  <2> QED BY <2>1, <2>2, <2>3 DEF CallOK, HasLine, IsNewline
<1>2. ASSUME NEW x \in Actors, LeaveStep(x)
      PROVE  CallOK'
  <2>1. content' = content /\ call' = [call EXCEPT ![x] = NoCall]
    BY <1>2 DEF LeaveStep, Leave, source
  <2>2. call'[x].op = "none" /\ \A y \in Actors : y # x => call'[y] = call[y]
    BY <2>1, NoneUses DEF TypeOK
  <2> QED BY <2>1, <2>2 DEF CallOK, HasLine, IsNewline
<1>3. ASSUME NEW x \in Actors, Collect(x)
      PROVE  CallOK'
  <2> DEFINE c == call[x]
             w == c.got \o buf[c.h]
  <2>1. /\ content' = content /\ call' = [call EXCEPT ![x].got = w]
        /\ c.op = "readLine" => ~HasLine(buf[c.h])
        /\ c.op # "read"
    BY <1>3 DEF Collect, source
  <2>2. c \in Calls /\ c.got \in Pieces /\ buf[c.h] \in Pieces
    BY DEF TypeOK, Calls
  <2>3. c.op = "readLine" => ~HasLine(w)
    <3>1. c.op = "readLine" => ~HasLine(c.got)
      BY DEF CallOK
    <3> HIDE DEF c
    <3> QED BY <2>1, <2>2, <3>1, NoLineConcat DEF Pieces
  <2> HIDE DEF w
  <2>4. call'[x].op = c.op /\ call'[x].got = w /\ \A y \in Actors : y # x => call'[y] = call[y]
    BY <2>1, <2>2 DEF TypeOK, Calls
  <2> HIDE DEF c
  <2> QED BY <2>1, <2>3, <2>4 DEF CallOK, HasLine, IsNewline
<1>4. ASSUME UNCHANGED <<content, call>>
      PROVE  CallOK'
  BY <1>4 DEF CallOK, HasLine, IsNewline
<1>5. ASSUME NEW x \in Actors, Fill(x)
      PROVE  CallOK'
  BY <1>4, <1>5 DEF Fill
<1>6. ASSUME QuietStep
      PROVE  CallOK'
  BY <1>4, <1>6, QuietLeaves
<1> QED BY Steps, <1>1, <1>2, <1>3, <1>5, <1>6

(* What a handle got is used, collected or still in the buffer. *)

Used(l) == [i \in DOMAIN l |-> l[i].used]

LEMMA UsedAppend ==
  ASSUME NEW l \in Seq(Entries), NEW e \in Entries
  PROVE  /\ Used(l) \in Seq(Pieces) /\ e.used \in Pieces
         /\ Used(Append(l, e)) = Append(Used(l), e.used)
<1> DEFINE n == Len(l)
           m == Append(l, e)
<1>1. n \in Nat /\ DOMAIN l = 1 .. n /\ \A i \in 1 .. n : l[i] \in Entries
  BY ST!LenProperties, ST!ElementOfSeq
<1>2. /\ m \in Seq(Entries) /\ Len(m) = n + 1 /\ m[n + 1] = e
      /\ \A i \in 1 .. n : m[i] = l[i]
  BY ST!AppendProperties
<1>3. DOMAIN m = 1 .. n + 1
  BY <1>2, ST!LenProperties
<1>4. \A x \in Entries : x.used \in Pieces
  BY DEF Entries
<1>5. Used(l) \in [1 .. n -> Pieces]
  BY <1>1, <1>4 DEF Used
<1>6. Used(l) \in Seq(Pieces) /\ Len(Used(l)) = n
  <2>1. Used(l) \in Seq(Pieces)
    BY <1>1, <1>5
  <2>2. DOMAIN Used(l) = 1 .. n /\ DOMAIN Used(l) = 1 .. Len(Used(l)) /\ Len(Used(l)) \in Nat
    BY <1>5, <2>1, ST!LenProperties
  <2> HIDE DEF n
  <2>3. Len(Used(l)) = n
    BY <1>1, <2>2
  <2> QED BY <2>1, <2>3
<1> HIDE DEF m, n
<1>7. Used(m) \in [1 .. n + 1 -> Pieces]
  <2>1. \A i \in 1 .. n + 1 : m[i] \in Entries
    BY <1>2, ST!ElementOfSeq
  <2> QED BY <1>3, <1>4, <2>1 DEF Used
<1>8. Used(m) \in Seq(Pieces) /\ Len(Used(m)) = n + 1
  <2>1. Used(m) \in Seq(Pieces)
    BY <1>1, <1>7
  <2>2. DOMAIN Used(m) = 1 .. n + 1 /\ DOMAIN Used(m) = 1 .. Len(Used(m)) /\ Len(Used(m)) \in Nat
    BY <1>7, <2>1, ST!LenProperties
  <2>3. Len(Used(m)) = n + 1
    BY <1>1, <2>2
  <2> QED BY <2>1, <2>3
<1> DEFINE w == Append(Used(l), e.used)
<1>9. e.used \in Pieces
  BY <1>4
<1>10. /\ w \in Seq(Pieces) /\ Len(w) = n + 1 /\ w[n + 1] = e.used
       /\ \A i \in 1 .. n : w[i] = Used(l)[i]
  BY <1>6, <1>9, ST!AppendProperties
<1>11. ASSUME NEW i \in 1 .. Len(Used(m)) PROVE Used(m)[i] = w[i]
  <2>1. i \in 1 .. n + 1
    BY <1>8
  <2>2. Used(m)[i] = m[i].used
    BY <1>3, <2>1 DEF Used
  <2>3. CASE i = n + 1
    BY <1>2, <1>10, <2>2, <2>3
  <2>4. CASE i # n + 1
    <3>1. i \in 1 .. n
      BY <1>1, <2>1, <2>4
    <3>2. Used(l)[i] = l[i].used
      BY <1>1, <3>1 DEF Used
    <3> QED BY <1>2, <1>10, <2>2, <3>1, <3>2
  <2> QED BY <2>3, <2>4
<1>12. Used(m) = w
  BY <1>8, <1>10, <1>11, ST!SeqEqual
<1> QED BY <1>6, <1>9, <1>12 DEF m

Uses(x, h) == call[x].op # "none" /\ call[x].h = h

CollectedOK ==
  \A h \in Handles :
    /\ \A x \in Actors : Uses(x, h) => Collected(h) = call[x].got
    /\ (\A x \in Actors : ~Uses(x, h)) => Collected(h) = << >>

\* One goroutine at a time reads through a handle.
LEMMA OneReader ==
  ASSUME ActorsOK, NEW h, NEW x \in Actors, NEW y \in Actors, Uses(x, h), Uses(y, h)
  PROVE  x = y
  BY ActorsAre DEF ActorsOK, Uses, Mine

LEMMA CollectedIs == ActorsOK => CollectedOK
<1> SUFFICES ASSUME ActorsOK, NEW h \in Handles
             PROVE  /\ \A x \in Actors : Uses(x, h) => Collected(h) = call[x].got
                    /\ (\A x \in Actors : ~Uses(x, h)) => Collected(h) = << >>
  BY DEF CollectedOK
<1> DEFINE cs == {x \in Actors : call[x].op # "none" /\ call[x].h = h}
<1>1. Collected(h) = IF cs = {} THEN << >> ELSE call[CHOOSE x \in cs : TRUE].got
  BY DEF Collected
<1>2. ASSUME NEW x \in Actors, Uses(x, h) PROVE Collected(h) = call[x].got
  <2>1. x \in cs /\ \A y \in cs : y = x
    BY <1>2, OneReader DEF Uses
  <2> HIDE DEF cs
  <2>2. (CHOOSE y \in cs : TRUE) = x
    BY <2>1
  <2> QED BY <1>1, <2>1, <2>2
<1>3. ASSUME \A x \in Actors : ~Uses(x, h) PROVE Collected(h) = << >>
  <2>1. cs = {}
    BY <1>3 DEF Uses
  <2> QED BY <1>1, <2>1
<1> QED BY <1>2, <1>3

LEMMA CollectedTyped ==
  ASSUME TypeOK, CollectedOK, NEW h \in Handles
  PROVE  Collected(h) \in Pieces
<1>1. \A x \in Actors : call[x].got \in Pieces
  BY DEF TypeOK, Calls
<1>2. << >> \in Pieces
  BY DEF Pieces
<1> QED BY <1>1, <1>2 DEF CollectedOK

\* A handle nobody's call changes for.
LEMMA CollectedSame ==
  ASSUME CollectedOK, CollectedOK', NEW g \in Handles,
         \A y \in Actors : Uses(y, g)' <=> Uses(y, g),
         \A y \in Actors : Uses(y, g) => call'[y].got = call[y].got
  PROVE  Collected(g)' = Collected(g)
<1>1. CASE \A y \in Actors : ~Uses(y, g)
  BY <1>1 DEF CollectedOK
<1>2. CASE \E y \in Actors : Uses(y, g)
  <2>1. PICK y \in Actors : Uses(y, g)
    BY <1>2
  <2>2. Uses(y, g)' /\ call'[y].got = call[y].got
    BY <2>1
  <2> QED BY <2>1, <2>2 DEF CollectedOK
<1> QED BY <1>1, <1>2

Whole(l, g, b) == FlattenSeq(Used(l)) \o g \o b

LEMMA NothingLostIs ==
  NothingLost <=> \A h \in Handles : Whole(log[h], Collected(h), buf[h]) = fetched[h]
  BY DEF NothingLost, Whole, Used

LEMMA UsedTyped ==
  ASSUME NEW l \in Seq(Entries)
  PROVE  Used(l) \in Seq(Pieces)
<1> DEFINE n == Len(l)
<1>1. n \in Nat /\ DOMAIN l = 1 .. n /\ \A i \in 1 .. n : l[i] \in Entries
  BY ST!LenProperties, ST!ElementOfSeq
<1>2. \A x \in Entries : x.used \in Pieces
  BY DEF Entries
<1>3. Used(l) \in [1 .. n -> Pieces]
  BY <1>1, <1>2 DEF Used
<1> QED BY <1>1, <1>3

LEMMA PiecesConcat ==
  ASSUME NEW s \in Pieces, NEW t \in Pieces
  PROVE  s \o t \in Pieces /\ s \o << >> = s /\ << >> \o s = s
  BY ST!ConcatProperties, ST!ConcatEmptySeq DEF Pieces

LEMMA PiecesAssoc ==
  ASSUME NEW s \in Pieces, NEW t \in Pieces, NEW u \in Pieces
  PROVE  (s \o t) \o u = s \o (t \o u)
  BY ST!ConcatAssociative DEF Pieces

LEMMA FlatPiece ==
  ASSUME NEW l \in Seq(Entries)
  PROVE  FlattenSeq(Used(l)) \in Pieces
<1>1. Used(l) \in Seq(Seq(Pos))
  BY UsedTyped DEF Pieces
<1> QED BY <1>1, FlattenTyped DEF Pieces

\* A return moves what it used from the call and the buffer to the log.
LEMMA WholeLeave ==
  ASSUME NEW l \in Seq(Entries), NEW e \in Entries,
         NEW g \in Pieces, NEW t \in Pieces, NEW w \in Pieces, e.used = g \o t
  PROVE  Whole(Append(l, e), << >>, w) = Whole(l, g, t \o w)
<1> DEFINE f == FlattenSeq(Used(l))
<1>1. f \in Pieces /\ g \o t \in Pieces /\ t \o w \in Pieces
  BY FlatPiece, PiecesConcat
<1>2. FlattenSeq(Used(Append(l, e))) = f \o (g \o t)
  <2>1. Used(l) \in Seq(Seq(Pos)) /\ e.used \in Seq(Pos) /\ Used(Append(l, e)) = Append(Used(l), e.used)
    BY UsedAppend DEF Pieces
  <2> QED BY <2>1, FlattenAppend
<1> HIDE DEF f
<1>3. f \o (g \o t) = (f \o g) \o t
  BY <1>1, PiecesAssoc
<1>4. f \o g \in Pieces
  BY <1>1, PiecesConcat
<1>5. ((f \o g) \o t) \o w = (f \o g) \o (t \o w)
  BY <1>4, PiecesAssoc
<1>6. ((f \o g) \o t) \o << >> = (f \o g) \o t
  <2>1. (f \o g) \o t \in Pieces
    BY <1>4, PiecesConcat
  <2> QED BY <2>1, PiecesConcat
<1>7. Whole(Append(l, e), << >>, w) = ((f \o (g \o t)) \o << >>) \o w
  BY <1>2 DEF Whole
<1>8. Whole(l, g, t \o w) = (f \o g) \o (t \o w)
  BY DEF Whole, f
<1> QED BY <1>3, <1>5, <1>6, <1>7, <1>8

LEMMA WholeFill ==
  ASSUME NEW l \in Seq(Entries), NEW g \in Pieces, NEW b \in Pieces, NEW n \in Pieces
  PROVE  Whole(l, g, b \o n) = Whole(l, g, b) \o n
<1> DEFINE f == FlattenSeq(Used(l)) \o g
<1>1. f \in Pieces
  BY FlatPiece, PiecesConcat
<1> HIDE DEF f
<1>2. (f \o b) \o n = f \o (b \o n)
  BY <1>1, ST!ConcatAssociative DEF Pieces
<1> QED BY <1>2 DEF Whole, f

LEMMA WholeCollect ==
  ASSUME NEW l \in Seq(Entries), NEW g \in Pieces, NEW b \in Pieces
  PROVE  Whole(l, g \o b, << >>) = Whole(l, g, b)
<1> DEFINE f == FlattenSeq(Used(l))
<1>1. f \in Pieces /\ g \o b \in Pieces
  BY FlatPiece, PiecesConcat
<1> HIDE DEF f
<1>2. f \o (g \o b) = (f \o g) \o b /\ f \o (g \o b) \in Pieces
  BY <1>1, PiecesConcat, ST!ConcatAssociative DEF Pieces
<1>3. (f \o (g \o b)) \o << >> = f \o (g \o b)
  BY <1>2, PiecesConcat
<1> QED BY <1>2, <1>3 DEF Whole, f

Exclusive == \A h \in Handles : \A x, y \in Actors : Uses(x, h) /\ Uses(y, h) => x = y

LEMMA ExclusiveIs == ActorsOK => Exclusive
  BY OneReader DEF Exclusive

LostNothing(h) == Whole(log[h], Collected(h), buf[h]) = fetched[h]

LEMMA EnterLoses ==
  ASSUME TypeOK, BufferOK, CollectedOK, CollectedOK', Exclusive', NEW g \in Handles, LostNothing(g),
         NEW x \in Actors, NEW op \in Ops, NEW h \in Handles, NEW n \in Nat, EnterStep(x, op, h, n)
  PROVE  LostNothing(g)'
<1>1. /\ Reader(h) /\ fetched' = fetched /\ log' = log /\ call[x].op = "none"
      /\ call' = [call EXCEPT ![x] = [op |-> op, h |-> h, n |-> n, got |-> << >>]]
  BY DEF EnterStep, Enter, source
<1>2. buf' = buf
  BY <1>1, ReaderKeeps
<1>3. call'[x].op = op /\ call'[x].h = h /\ call'[x].got = << >> /\ \A y \in Actors : y # x => call'[y] = call[y]
  BY <1>1 DEF TypeOK
<1>4. op # "none"
  BY DEF Ops
<1>5. Uses(x, h)' /\ ~Uses(x, h) /\ ~Uses(x, g) /\ \A y \in Actors : y # x => (Uses(y, g)' <=> Uses(y, g))
  BY <1>1, <1>3, <1>4 DEF Uses
<1>6. Collected(g)' = Collected(g)
  <2>1. CASE g = h
    <3>1. Collected(g)' = << >>
      BY <1>3, <1>5, <2>1 DEF CollectedOK
    <3>2. \A y \in Actors : ~Uses(y, g)
      BY <1>5, <2>1 DEF Exclusive
    <3> QED BY <3>1, <3>2 DEF CollectedOK
  <2>2. CASE g # h
    <3>1. ~Uses(x, g)'
      BY <1>3, <2>2 DEF Uses
    <3> QED BY <1>3, <1>5, <3>1, CollectedSame
  <2> QED BY <2>1, <2>2
<1> QED BY <1>1, <1>2, <1>6 DEF LostNothing

LEMMA LeaveLoses ==
  ASSUME TypeOK, CollectedOK, CollectedOK', Exclusive, NEW g \in Handles, LostNothing(g),
         NEW x \in Actors, LeaveStep(x)
  PROVE  LostNothing(g)'
<1> DEFINE c == call[x]
           t == Takes(c)
           w == Without(Len(t), buf[c.h])
           e == [by |-> x, op |-> c.op, n |-> c.n, used |-> c.got \o t,
                 value |-> Result(c).value, err |-> Result(c).err]
<1>1. /\ Ready(c) /\ buf' = [buf EXCEPT ![c.h] = w] /\ call' = [call EXCEPT ![x] = NoCall]
      /\ log' = [log EXCEPT ![c.h] = Append(log[c.h], e)] /\ fetched' = fetched
  BY DEF LeaveStep, Leave, source
<1>2. c.op \in Ops /\ c.op # "none" /\ c \in Calls /\ c.h \in Handles /\ c.n \in Nat /\ c.got \in Pieces
  <2>1. Ready(c)
    BY <1>1
  <2>2. c \in Calls
    BY DEF TypeOK
  <2> HIDE DEF c
  <2> QED BY <2>1, <2>2, ReadyOp DEF Calls
<1>3. /\ t \in Pieces /\ w \in Pieces /\ t \o w = buf[c.h]
      /\ c.got \o t \in Pieces /\ Result(c).value \in Pieces /\ Result(c).err \in Errors
  BY <1>2, ResultTyped
<1>4. Uses(x, c.h)
  BY <1>2 DEF Uses
<1>5. call'[x].op = "none" /\ \A y \in Actors : y # x => call'[y] = call[y]
  BY <1>1, NoneUses DEF TypeOK
<1>6. ~Uses(x, g)' /\ \A y \in Actors : y # x => (Uses(y, g)' <=> Uses(y, g))
  BY <1>5 DEF Uses
<1>7. CASE g = c.h
  <2>1. Collected(g) = c.got
    BY <1>2, <1>4, <1>7 DEF CollectedOK
  <2>2. Collected(g)' = << >>
    <3>1. \A y \in Actors : ~Uses(y, g)'
      BY <1>2, <1>4, <1>6, <1>7 DEF Exclusive
    <3> QED BY <3>1 DEF CollectedOK
  <2>3. Whole(log[g], c.got, buf[g]) = fetched[g]
    BY <2>1 DEF LostNothing
  <2> HIDE DEF c, t, w
  <2>4. e \in Entries /\ e.used = c.got \o t
    BY <1>2, <1>3 DEF Entries
  <2> HIDE DEF e
  <2>5. log[g] \in Seq(Entries)
    BY DEF TypeOK
  <2>6. Whole(Append(log[g], e), << >>, w) = Whole(log[g], c.got, t \o w)
    <3> DEFINE l == log[g]
               got == c.got
    <3>1. /\ l \in Seq(Entries) /\ got \in Pieces /\ e \in Entries /\ t \in Pieces /\ w \in Pieces
          /\ e.used = got \o t
      BY <1>2, <1>3, <2>4, <2>5
    <3> HIDE DEF l, got
    <3>2. Whole(Append(l, e), << >>, w) = Whole(l, got, t \o w)
      BY <3>1, WholeLeave
    <3> QED BY <3>2 DEF l, got
  <2>7. log'[g] = Append(log[g], e) /\ buf'[g] = w
    BY <1>1, <1>2, <1>7 DEF TypeOK
  <2> QED BY <1>1, <1>3, <1>7, <2>2, <2>3, <2>6, <2>7 DEF LostNothing
<1>8. CASE g # c.h
  <2>1. ~Uses(x, g)
    BY <1>8 DEF Uses
  <2>2. Collected(g)' = Collected(g)
    <3>1. \A y \in Actors : Uses(y, g)' <=> Uses(y, g)
      BY <1>6, <2>1
    <3>2. \A y \in Actors : Uses(y, g) => call'[y].got = call[y].got
      BY <1>5, <2>1
    <3> QED BY <3>1, <3>2, CollectedSame
  <2> HIDE DEF c, t, w, e
  <2>3. log'[g] = log[g] /\ buf'[g] = buf[g]
    BY <1>1, <1>8 DEF TypeOK
  <2> QED BY <1>1, <2>2, <2>3 DEF LostNothing
<1> QED BY <1>7, <1>8

LEMMA FillLoses ==
  ASSUME TypeOK, CollectedOK, CollectedOK', NEW g \in Handles, LostNothing(g),
         NEW x \in Actors, Fill(x)
  PROVE  LostNothing(g)'
<1> DEFINE h == call[x].h
<1>1. call' = call /\ log' = log /\ h \in Handles
  BY DEF Fill, TypeOK, Calls
<1>2. Collected(g)' = Collected(g)
  <2>1. \A y \in Actors : Uses(y, g)' <=> Uses(y, g)
    BY <1>1 DEF Uses
  <2> QED BY <1>1, <2>1, CollectedSame
<1>3. CASE UNCHANGED <<buf, fetched>>
  BY <1>1, <1>2, <1>3 DEF LostNothing
<1>4. CASE \E k \in 1 .. Room(call[x]) :
             /\ taken + k <= Len(content)
             /\ buf' = [buf EXCEPT ![h] = buf[h] \o [i \in 1 .. k |-> taken + i]]
             /\ fetched' = [fetched EXCEPT ![h] = fetched[h] \o [i \in 1 .. k |-> taken + i]]
  <2>1. PICK k \in 1 .. Room(call[x]) :
             /\ taken + k <= Len(content)
             /\ buf' = [buf EXCEPT ![h] = buf[h] \o [i \in 1 .. k |-> taken + i]]
             /\ fetched' = [fetched EXCEPT ![h] = fetched[h] \o [i \in 1 .. k |-> taken + i]]
    BY <1>4
  <2> DEFINE new == [i \in 1 .. k |-> taken + i]
  <2>2. new \in Pieces
    BY <2>1, NewBytes
  <2>3. buf' = [buf EXCEPT ![h] = buf[h] \o new] /\ fetched' = [fetched EXCEPT ![h] = fetched[h] \o new]
    BY <2>1
  <2> HIDE DEF new, h
  <2>4. CASE g = h
    <3>1. buf'[g] = buf[g] \o new /\ fetched'[g] = fetched[g] \o new
      BY <1>1, <2>3, <2>4 DEF TypeOK
    <3>2. log[g] \in Seq(Entries) /\ Collected(g) \in Pieces /\ buf[g] \in Pieces
      BY CollectedTyped DEF TypeOK
    <3>3. Whole(log[g], Collected(g), buf[g] \o new) = Whole(log[g], Collected(g), buf[g]) \o new
      BY <2>2, <3>2, WholeFill
    <3> QED BY <1>1, <1>2, <3>1, <3>3 DEF LostNothing
  <2>5. CASE g # h
    <3>1. buf'[g] = buf[g] /\ fetched'[g] = fetched[g]
      BY <2>3, <2>5 DEF TypeOK
    <3> QED BY <1>1, <1>2, <3>1 DEF LostNothing
  <2> QED BY <2>4, <2>5
<1> QED BY <1>3, <1>4 DEF Fill

LEMMA CollectLoses ==
  ASSUME TypeOK, CollectedOK, CollectedOK', NEW g \in Handles, LostNothing(g),
         NEW x \in Actors, Collect(x)
  PROVE  LostNothing(g)'
<1> DEFINE c == call[x]
           w == c.got \o buf[c.h]
<1>1. /\ c.op # "none" /\ call' = [call EXCEPT ![x].got = w]
      /\ buf' = [buf EXCEPT ![c.h] = << >>] /\ log' = log /\ fetched' = fetched
  BY DEF Collect, source
<1>2. c \in Calls /\ c.h \in Handles /\ c.got \in Pieces /\ buf[c.h] \in Pieces
  BY DEF TypeOK, Calls
<1> HIDE DEF w
<1>3. /\ call'[x].op = c.op /\ call'[x].h = c.h /\ call'[x].got = w
      /\ \A y \in Actors : y # x => call'[y] = call[y]
  BY <1>1 DEF TypeOK, Calls
<1>4. \A y \in Actors : Uses(y, g)' <=> Uses(y, g)
  BY <1>3 DEF Uses
<1>5. CASE g = c.h
  <2>1. Uses(x, g) /\ Uses(x, g)'
    BY <1>1, <1>4, <1>5 DEF Uses
  <2>2. Collected(g) = c.got /\ Collected(g)' = w
    BY <1>3, <2>1 DEF CollectedOK
  <2> HIDE DEF c
  <2>3. log[g] \in Seq(Entries)
    BY DEF TypeOK
  <2>4. Whole(log[g], c.got \o buf[g], << >>) = Whole(log[g], c.got, buf[g])
    BY <1>2, <1>5, <2>3, WholeCollect
  <2>5. buf'[g] = << >> /\ w = c.got \o buf[g]
    BY <1>1, <1>5 DEF TypeOK, w
  <2> QED BY <1>1, <2>2, <2>4, <2>5 DEF LostNothing
<1>6. CASE g # c.h
  <2>1. ~Uses(x, g)
    BY <1>6 DEF Uses
  <2>2. Collected(g)' = Collected(g)
    <3>1. \A y \in Actors : Uses(y, g) => call'[y].got = call[y].got
      BY <1>3, <2>1
    <3> QED BY <1>4, <3>1, CollectedSame
  <2>3. buf'[g] = buf[g]
    BY <1>1, <1>6 DEF TypeOK
  <2> QED BY <1>1, <2>2, <2>3 DEF LostNothing
<1> QED BY <1>5, <1>6

LEMMA LosesStep ==
  ASSUME TypeOK, ActorsOK, ActorsOK', BufferOK, [Next]_vars, NEW g \in Handles, LostNothing(g)
  PROVE  LostNothing(g)'
<1>1. CollectedOK /\ Exclusive
  BY CollectedIs, ExclusiveIs
<1>2. CollectedOK'
  <2>1. (ActorsOK => CollectedOK)'
    BY CollectedIs, PTL
  <2> QED BY <2>1
<1>3. Exclusive'
  <2>1. (ActorsOK => Exclusive)'
    BY ExclusiveIs, PTL
  <2> QED BY <2>1
<1>4. ASSUME QuietStep PROVE LostNothing(g)'
  <2>1. UNCHANGED <<fetched, buf, call, log>>
    BY <1>4, QuietLeaves
  <2>2. Collected(g)' = Collected(g)
    <3>1. \A y \in Actors : Uses(y, g)' <=> Uses(y, g)
      BY <2>1 DEF Uses
    <3> QED BY <1>1, <1>2, <2>1, <3>1, CollectedSame
  <2> QED BY <2>1, <2>2 DEF LostNothing
<1> QED BY <1>1, <1>2, <1>3, <1>4, Steps, EnterLoses, LeaveLoses, FillLoses, CollectLoses

(* What the calls return. *)

Before(s) == \A j \in DOMAIN s : j < Len(s) => ~IsNewline(s[j])

AtEnd == taken = Len(content)

EntryOK(e) ==
  CASE e.op = "readLine" /\ e.err = "none" ->
         /\ Before(e.used) /\ IsLineOf(e.value, e.used)
         /\ EndsIn(e.used, "\n") \/ (AtEnd /\ e.used # << >>)
    [] e.op = "readLine" /\ e.err = "eof" -> AtEnd /\ e.used = << >>
    [] e.op = "readLine" /\ e.err = "error" -> ~HasLine(e.used)
    [] e.op = "read" -> /\ e.value = e.used /\ Len(e.used) <= e.n
                        /\ (e.used = << >> /\ e.err = "none") => e.n = 0
    [] OTHER -> e.value = e.used /\ (e.err = "none" => AtEnd)

Returns(h) == \A e \in ToSet(log[h]) : EntryOK(e)

LEMMA CallsReturnIs ==
  CallsReturnWhatIsNext <=> \A h \in Handles : Returns(h)
<1>1. CallsReturnWhatIsNext <=> \A h \in Handles : \A i \in DOMAIN log[h] : EntryOK(log[h][i])
  BY DEF CallsReturnWhatIsNext, EntryOK, Before, AtEnd
<1>2. \A h \in Handles : Returns(h) <=> \A i \in DOMAIN log[h] : EntryOK(log[h][i])
  BY DEF Returns, ToSet
<1> QED BY <1>1, <1>2

LEMMA AppendSet ==
  ASSUME NEW S, NEW l \in Seq(S), NEW e \in S
  PROVE  ToSet(Append(l, e)) = ToSet(l) \cup {e}
<1> DEFINE n == Len(l)
           m == Append(l, e)
<1>1. /\ n \in Nat /\ DOMAIN l = 1 .. n
      /\ m \in Seq(S) /\ Len(m) = n + 1 /\ m[n + 1] = e /\ \A i \in 1 .. n : m[i] = l[i]
  BY ST!AppendProperties, ST!LenProperties
<1>2. DOMAIN m = 1 .. n + 1
  BY <1>1, ST!LenProperties
<1> HIDE DEF m, n
<1>3. \A i : i \in 1 .. n + 1 <=> i \in 1 .. n \/ i = n + 1
  BY <1>1
<1> QED BY <1>1, <1>2, <1>3 DEF ToSet, m

\* The file does not change, and its end stays its end.
LEMMA EndStays ==
  ASSUME TypeOK, [Next]_vars
  PROVE  content' = content /\ (AtEnd => AtEnd')
<1>0. Len(content) \in Nat /\ taken \in Nat
  BY ST!LenProperties DEF TypeOK
<1>1. ASSUME NEW x \in Actors, Fill(x) PROVE content' = content /\ (AtEnd => AtEnd')
  <2>1. content' = content
    BY <1>1 DEF Fill
  <2>2. CASE \E k \in 1 .. Room(call[x]) : taken + k <= Len(content)
    <3>1. PICK k \in 1 .. Room(call[x]) : taken + k <= Len(content)
      BY <2>2
    <3>2. k \in Nat
      BY <3>1, NewBytes
    <3>3. ~AtEnd
      BY <1>0, <3>1, <3>2 DEF AtEnd
    <3> QED BY <2>1, <3>3
  <2>3. CASE taken' = taken
    BY <2>1, <2>3 DEF AtEnd
  <2> QED BY <1>1, <2>2, <2>3 DEF Fill
<1>2. ASSUME UNCHANGED <<content, taken>> PROVE content' = content /\ (AtEnd => AtEnd')
  BY <1>2 DEF AtEnd
<1>3. ASSUME NEW x \in Actors, NEW op \in Ops, NEW h \in Handles, NEW n \in Nat, EnterStep(x, op, h, n)
      PROVE  UNCHANGED <<content, taken>>
  BY <1>3 DEF EnterStep, Enter, source
<1>4. ASSUME NEW x \in Actors, LeaveStep(x) \/ Collect(x) PROVE UNCHANGED <<content, taken>>
  BY <1>4 DEF LeaveStep, Leave, Collect, source
<1>5. QuietStep => UNCHANGED <<content, taken>>
  BY QuietLeaves
<1> QED BY Steps, <1>1, <1>2, <1>3, <1>4, <1>5

LEMMA EntryKeeps ==
  ASSUME content' = content, AtEnd => AtEnd', NEW e, EntryOK(e)
  PROVE  EntryOK(e)'
<1>1. Before(e.used) <=> Before(e.used)'
  BY DEF Before, IsNewline
<1>2. HasLine(e.used) <=> HasLine(e.used)'
  BY DEF HasLine, IsNewline
<1>3. EndsIn(e.used, "\n") <=> EndsIn(e.used, "\n")'
  BY DEF EndsIn
<1>4. IsLineOf(e.value, e.used) <=> IsLineOf(e.value, e.used)'
  BY DEF IsLineOf, Bytes
<1> QED BY <1>1, <1>2, <1>3, <1>4 DEF EntryOK

\* A line of the buffer completes what readLine has collected.
LEMMA LineUsed ==
  ASSUME NEW S, NEW g \in Seq(S), NEW b \in Seq(S), ~HasLine(g), HasLine(b)
  PROVE  LET u == g \o SubSeq(b, 1, LineEnd(b))
         IN u \in Seq(S) /\ Before(u) /\ EndsIn(u, "\n")
<1> DEFINE m == LineEnd(b)
           t == SubSeq(b, 1, m)
           u == g \o t
<1>1. m \in 1 .. Len(b) /\ IsNewline(b[m]) /\ \A j \in 1 .. (m - 1) : ~IsNewline(b[j])
  BY LineEndIs
<1>2. Len(b) \in Nat /\ Len(g) \in Nat /\ DOMAIN g = 1 .. Len(g)
  BY ST!LenProperties
<1> HIDE DEF m
<1>3. t \in Seq(S) /\ Len(t) = m /\ \A i \in 1 .. m : t[i] = b[i]
  <2>1. m \in 0 .. Len(b)
    BY <1>1, <1>2
  <2> QED BY <2>1, SplitAt
<1> HIDE DEF t
<1>4. /\ u \in Seq(S) /\ Len(u) = Len(g) + Len(t)
      /\ \A i \in 1 .. Len(g) + Len(t) : u[i] = IF i <= Len(g) THEN g[i] ELSE t[i - Len(g)]
  BY <1>3, ST!ConcatProperties
<1>5. DOMAIN u = 1 .. Len(u)
  BY <1>4, ST!LenProperties
<1> HIDE DEF u
<1>6. ASSUME NEW j \in DOMAIN u, j < Len(u) PROVE ~IsNewline(u[j])
  <2>1. j \in 1 .. Len(g) + Len(t) /\ j < Len(g) + m /\ m \in Nat
    BY <1>1, <1>2, <1>3, <1>4, <1>5, <1>6
  <2>2. CASE j <= Len(g)
    <3>1. j \in 1 .. Len(g) /\ u[j] = g[j]
      BY <1>2, <1>4, <2>1, <2>2
    <3> QED BY <1>2, <3>1 DEF HasLine
  <2>3. CASE ~(j <= Len(g))
    <3>1. j - Len(g) \in 1 .. (m - 1) /\ j - Len(g) \in 1 .. m /\ u[j] = t[j - Len(g)]
      BY <1>2, <1>4, <2>1, <2>3
    <3> QED BY <1>1, <1>3, <3>1
  <2> QED BY <2>2, <2>3
<1>7. EndsIn(u, "\n")
  <2>1. Len(u) = Len(g) + m /\ m \in Nat /\ m >= 1 /\ Len(u) \in 1 .. Len(g) + Len(t)
    BY <1>1, <1>2, <1>3, <1>4
  <2>2. u # << >>
    <3>1. Len(<< >>) = 0
      OBVIOUS
    <3> QED BY <1>2, <2>1, <3>1
  <2>3. u[Len(u)] = t[m]
    <3>1. ~(Len(u) <= Len(g)) /\ Len(u) - Len(g) = m
      BY <1>2, <2>1
    <3> QED BY <1>4, <2>1, <3>1
  <2>4. IsNewline(u[Len(u)])
    <3>1. m \in 1 .. m
      BY <2>1
    <3> QED BY <1>1, <1>3, <2>3, <3>1
  <2> QED BY <2>2, <2>4 DEF EndsIn, IsNewline, Last
<1>8. Before(u)
  BY <1>6 DEF Before
<1> QED BY <1>4, <1>7, <1>8 DEF u, t, m

LEMMA NoLineBefore ==
  ASSUME NEW s, ~HasLine(s)
  PROVE  Before(s)
  BY DEF Before, HasLine

LEMMA LineEntry ==
  ASSUME TypeOK, BufferOK, CallOK, NEW x \in Actors, Ready(call[x]), call[x].op = "readLine",
         NEW e, e.op = "readLine", e.used = call[x].got \o Takes(call[x]),
         e.value = Result(call[x]).value, e.err = Result(call[x]).err
  PROVE  EntryOK(e)
<1> DEFINE c == call[x]
           b == buf[c.h]
           u == c.got \o Takes(c)
<1>1. /\ content \in Seq(Byte) /\ c.h \in Handles /\ c.got \in Pieces /\ b \in Pieces
      /\ ~HasLine(c.got) /\ pending[c.h] \in Errors
  BY DEF TypeOK, Calls, CallOK
<1>2. u \in Pieces
  BY ResultTyped DEF Ops
<1>3. Result(c) = ReadLineFile(u, ErrorWith(c))
  BY DEF Result
<1>4. ErrorWith(c) = IF HasLine(b) THEN "none" ELSE pending[c.h]
  BY DEF ErrorWith
<1>5. Takes(c) = IF HasLine(b) THEN SubSeq(b, 1, LineEnd(b)) ELSE b
  BY DEF Takes
<1>6. HasLine(b) \/ pending[c.h] # "none"
  BY DEF Ready
<1>7. e.op = "readLine" /\ e.used = u /\ e.value = Result(c).value /\ e.err = Result(c).err
  OBVIOUS
<1>8. pending[c.h] = "eof" => AtEnd
  BY <1>1 DEF BufferOK, AtEnd
<1> HIDE DEF c, b
<1>9. IsLineOf(Trimmed(u), u)
  <2> HIDE DEF u
  <2> QED BY <1>1, <1>2, TrimmedIsLine DEF Pieces
<1>10. CASE HasLine(b)
  <2>1. Before(u) /\ EndsIn(u, "\n")
    BY <1>1, <1>5, <1>10, LineUsed DEF Pieces
  <2> HIDE DEF u
  <2>2. e.value = Trimmed(u) /\ e.err = "none"
    BY <1>3, <1>4, <1>7, <1>10 DEF ReadLineFile, Trimmed
  <2> QED BY <1>7, <1>9, <2>1, <2>2 DEF EntryOK
<1>11. CASE ~HasLine(b)
  <2>1. ~HasLine(u)
    BY <1>1, <1>5, <1>11, NoLineConcat DEF Pieces
  <2>2. Before(u)
    BY <2>1, NoLineBefore
  <2> HIDE DEF u
  <2>3. CASE pending[c.h] = "error"
    <3>1. e.err = "error"
      BY <1>3, <1>4, <1>7, <1>11, <2>3 DEF ReadLineFile
    <3> QED BY <1>7, <2>1, <3>1 DEF EntryOK
  <2>4. CASE pending[c.h] = "eof" /\ u = << >>
    <3>1. e.err = "eof"
      BY <1>3, <1>4, <1>7, <1>11, <2>4 DEF ReadLineFile
    <3> QED BY <1>7, <1>8, <2>4, <3>1 DEF EntryOK
  <2>5. CASE pending[c.h] = "eof" /\ u # << >>
    <3>1. e.value = Trimmed(u) /\ e.err = "none"
      BY <1>3, <1>4, <1>7, <1>11, <2>5 DEF ReadLineFile, Trimmed
    <3> QED BY <1>7, <1>8, <1>9, <2>2, <2>5, <3>1 DEF EntryOK
  <2> QED BY <1>1, <1>6, <1>11, <2>3, <2>4, <2>5 DEF Errors
<1> QED BY <1>10, <1>11

LEMMA ReadEntry ==
  ASSUME TypeOK, CallOK, NEW x \in Actors, Ready(call[x]), call[x].op = "read",
         NEW e, e.op = "read", e.n = call[x].n, e.used = call[x].got \o Takes(call[x]),
         e.value = Result(call[x]).value, e.err = Result(call[x]).err
  PROVE  EntryOK(e)
<1> DEFINE c == call[x]
           b == buf[c.h]
           u == c.got \o Takes(c)
<1>1. c.h \in Handles /\ c.n \in Nat /\ c.got = << >> /\ b \in Pieces
  BY DEF TypeOK, Calls, CallOK
<1>2. Takes(c) \in Pieces
  BY ResultTyped DEF Ops
<1>3. u = Takes(c)
  <2>1. c.got = << >>
    BY <1>1
  <2> HIDE DEF c
  <2> QED BY <1>2, <2>1, PiecesConcat
<1>4. /\ e.op = "read" /\ e.n = c.n /\ e.used = u /\ e.value = u /\ e.err = ErrorWith(c)
  BY DEF Result, ReadFile
<1>5. ErrorWith(c) = IF b # << >> THEN "none" ELSE pending[c.h]
  BY DEF ErrorWith
<1>6. c.n = 0 \/ b # << >> \/ pending[c.h] # "none"
  BY DEF Ready
<1>7. c.op = "read"
  OBVIOUS
<1> HIDE DEF c, u
<1>8. PICK k \in 0 .. Len(b) : Takes(c) = SubSeq(b, 1, k) /\ k = IF c.n < Len(b) THEN c.n ELSE Len(b)
  BY <1>1, <1>7, TakesIs DEF Pieces
<1>9. Len(b) \in Nat /\ (b # << >> => Len(b) # 0)
  BY <1>1, ST!LenProperties, ST!EmptySeq DEF Pieces
<1>10. Len(u) = k
  <2> HIDE DEF b
  <2> QED BY <1>1, <1>3, <1>8, SplitAt DEF Pieces
<1>11. k <= c.n
  BY <1>1, <1>8, <1>9
<1>12. u = << >> => k = 0
  <2>1. Len(<< >>) = 0
    OBVIOUS
  <2> QED BY <1>10, <2>1
<1>13. k = 0 => c.n = 0 \/ b = << >>
  BY <1>1, <1>8, <1>9
<1>14. (u = << >> /\ e.err = "none") => c.n = 0
  BY <1>4, <1>5, <1>6, <1>12, <1>13
<1>15. Len(e.used) <= e.n
  BY <1>4, <1>10, <1>11
<1> QED BY <1>4, <1>14, <1>15 DEF EntryOK

LEMMA AllEntry ==
  ASSUME TypeOK, BufferOK, NEW x \in Actors, Ready(call[x]), call[x].op = "readAll",
         NEW e, e.op = "readAll", e.used = call[x].got \o Takes(call[x]),
         e.value = Result(call[x]).value, e.err = Result(call[x]).err
  PROVE  EntryOK(e)
<1> DEFINE c == call[x]
<1>1. c.h \in Handles /\ pending[c.h] \in Errors
  BY DEF TypeOK, Calls
<1>2. pending[c.h] # "none"
  BY DEF Ready
<1>3. /\ e.value = e.used /\ e.err = IF ErrorWith(c) = "eof" THEN "none" ELSE ErrorWith(c)
      /\ ErrorWith(c) = pending[c.h]
  BY DEF Result, ReadAllFile, ErrorWith
<1>4. e.err = "none" => AtEnd
  BY <1>1, <1>2, <1>3 DEF BufferOK, AtEnd
<1> QED BY <1>3, <1>4 DEF EntryOK

LEMMA ReturnsStep ==
  ASSUME TypeOK, BufferOK, CallOK, [Next]_vars, NEW g \in Handles, Returns(g)
  PROVE  Returns(g)'
<1>1. content' = content /\ (AtEnd => AtEnd')
  BY EndStays
<1>2. ASSUME NEW e, EntryOK(e) PROVE EntryOK(e)'
  BY <1>1, <1>2, EntryKeeps
<1>3. ASSUME log'[g] = log[g] PROVE Returns(g)'
  BY <1>2, <1>3 DEF Returns
<1>4. ASSUME NEW x \in Actors, LeaveStep(x) PROVE Returns(g)'
  <2> DEFINE c == call[x]
             e == [by |-> x, op |-> c.op, n |-> c.n, used |-> c.got \o Takes(c),
                   value |-> Result(c).value, err |-> Result(c).err]
  <2>1. Ready(c) /\ log' = [log EXCEPT ![c.h] = Append(log[c.h], e)]
    BY <1>4 DEF LeaveStep, Leave
  <2>2. c.op \in Ops /\ c \in Calls
    <3>1. Ready(c)
      BY <2>1
    <3> HIDE DEF c
    <3> QED BY <3>1, ReadyOp DEF c, TypeOK
  <2>3. EntryOK(e)
    <3>1. /\ e.op = c.op /\ e.n = c.n /\ e.used = c.got \o Takes(c)
          /\ e.value = Result(c).value /\ e.err = Result(c).err
      OBVIOUS
    <3> HIDE DEF e
    <3>2. CASE c.op = "readLine"
      BY <2>1, <3>1, <3>2, LineEntry
    <3>3. CASE c.op = "read"
      BY <2>1, <3>1, <3>3, ReadEntry
    <3>4. CASE c.op = "readAll"
      BY <2>1, <3>1, <3>4, AllEntry
    <3> QED BY <2>2, <3>2, <3>3, <3>4 DEF Ops
  <2>4. e \in Entries
    <3>1. c.got \o Takes(c) \in Pieces /\ Result(c).value \in Pieces /\ Result(c).err \in Errors
      BY <2>2, ResultTyped
    <3>2. c.n \in Nat
      BY <2>2 DEF Calls
    <3> HIDE DEF c
    <3> QED BY <2>2, <3>1, <3>2 DEF Entries
  <2> HIDE DEF e, c
  <2>5. CASE g = c.h
    <3>1. log[g] \in Seq(Entries) /\ log'[g] = Append(log[g], e)
      BY <2>1, <2>5 DEF TypeOK
    <3>2. ToSet(log'[g]) = ToSet(log[g]) \cup {e}
      BY <2>4, <3>1, AppendSet
    <3> QED BY <1>2, <2>3, <3>2 DEF Returns
  <2>6. CASE g # c.h
    BY <1>3, <2>1, <2>6 DEF TypeOK
  <2> QED BY <2>5, <2>6
<1>5. ASSUME NEW x \in Actors, NEW op \in Ops, NEW h \in Handles, NEW n \in Nat, EnterStep(x, op, h, n)
      PROVE  log' = log
  BY <1>5 DEF EnterStep, Enter
<1>6. ASSUME NEW x \in Actors, Fill(x) \/ Collect(x) PROVE log' = log
  BY <1>6 DEF Fill, Collect
<1>7. QuietStep => log' = log
  BY QuietLeaves
<1> QED BY Steps, <1>3, <1>4, <1>5, <1>6, <1>7

(* The stream of lines. *)

RelayOK ==
  /\ relay.pc = "off" => sent = << >> /\ \A h \in Handles : Relayed(log[h]) = << >>
  /\ relay.pc # "off" =>
       Relayed(log[relay.handle]) = IF relay.pc = "send" THEN Append(sent, relay.line) ELSE sent
  /\ \A h \in Handles : \A e \in ToSet(log[h]) : e.by = "relay" => e.op = "readLine"

LEMMA LeaveRelay ==
  ASSUME TypeOK, ActorsOK, RelayOK, NEW x \in Actors, LeaveStep(x)
  PROVE  RelayOK'
<1> DEFINE c == call[x]
           e == [by |-> x, op |-> c.op, n |-> c.n, used |-> c.got \o Takes(c),
                 value |-> Result(c).value, err |-> Result(c).err]
<1>1. Ready(c) /\ log' = [log EXCEPT ![c.h] = Append(log[c.h], e)] /\ sent' = sent
  BY DEF LeaveStep, Leave
<1>2. c.op \in Ops /\ c \in Calls /\ c.h \in Handles
  <2>1. Ready(c) /\ c \in Calls
    BY <1>1 DEF TypeOK
  <2> HIDE DEF c
  <2> QED BY <2>1, ReadyOp DEF Calls
<1>3. e \in Entries
  <2>1. c.got \o Takes(c) \in Pieces /\ Result(c).value \in Pieces /\ Result(c).err \in Errors
    BY <1>2, ResultTyped
  <2>2. c.n \in Nat
    BY <1>2 DEF Calls
  <2> HIDE DEF c
  <2> QED BY <1>2, <2>1, <2>2 DEF Entries
<1>4. e.by = x /\ e.op = c.op /\ e.value = Result(c).value /\ e.err = Result(c).err
  OBVIOUS
<1>5. x = "relay" => relay.pc = "read" /\ c.op = "readLine" /\ c.h = relay.handle
  BY DEF LeaveStep, ActorsOK
<1> HIDE DEF e
<1>6. relay.handle \in Handles /\ \A h \in Handles : log[h] \in Seq(Entries)
  BY DEF TypeOK
<1>7. /\ log'[c.h] = Append(log[c.h], e) /\ log[c.h] \in Seq(Entries)
      /\ \A h \in Handles : h # c.h => log'[h] = log[h]
  BY <1>1, <1>2, <1>6 DEF TypeOK
<1>8. ToSet(log'[c.h]) = ToSet(log[c.h]) \cup {e}
  BY <1>3, <1>7, AppendSet
<1>9. Relayed(log'[c.h]) = Extended(Relayed(log[c.h]), e)
  BY <1>3, <1>7, RelayedAppend
<1>10. \A h \in Handles : \A y \in ToSet(log'[h]) : y.by = "relay" => y.op = "readLine"
  BY <1>4, <1>5, <1>7, <1>8 DEF RelayOK
<1>11. CASE x = "main" /\ relay' = relay
  <2>1. \A h \in Handles : Relayed(log'[h]) = Relayed(log[h])
    <3>1. Relayed(log'[c.h]) = Relayed(log[c.h])
      BY <1>4, <1>9, <1>11 DEF Extended, Delivered
    <3> QED BY <1>7, <3>1
  <2> QED BY <1>1, <1>6, <1>10, <1>11, <2>1 DEF RelayOK
<1>12. CASE x = "relay" /\ relay' = AfterLine(Result(c))
  <2>1. relay.pc = "read" /\ c.h = relay.handle /\ Relayed(log[c.h]) = sent
    BY <1>5, <1>12 DEF RelayOK
  <2>2. CASE e.err = "none"
    <3>1. relay' = [relay EXCEPT !.pc = "send", !.line = e.value]
      BY <1>4, <1>12, <2>2 DEF AfterLine
    <3>2. relay'.pc = "send" /\ relay'.line = e.value /\ relay'.handle = c.h
      BY <2>1, <3>1 DEF TypeOK
    <3>3. Relayed(log'[c.h]) = Append(sent, e.value)
      BY <1>4, <1>9, <1>12, <2>1, <2>2 DEF Extended, Delivered
    <3> QED BY <1>1, <1>10, <3>2, <3>3 DEF RelayOK
  <2>3. CASE e.err # "none"
    <3>1. relay' = [relay EXCEPT !.pc = "stop"]
      BY <1>4, <1>12, <2>3 DEF AfterLine
    <3>2. relay'.pc = "stop" /\ relay'.handle = c.h
      BY <2>1, <3>1 DEF TypeOK
    <3>3. Relayed(log'[c.h]) = sent
      BY <1>4, <1>9, <1>12, <2>1, <2>3 DEF Extended, Delivered
    <3> QED BY <1>1, <1>10, <3>2, <3>3 DEF RelayOK
  <2> QED BY <2>2, <2>3
<1> QED BY <1>11, <1>12 DEF LeaveStep

LEMMA RelayStep ==
  ASSUME TypeOK, ActorsOK, RelayOK, [Next]_vars
  PROVE  RelayOK'
<1>1. ASSUME log' = log, sent' = sent,
             relay' = relay \/ (relay.pc = "loop" /\ relay' = [relay EXCEPT !.pc = "read"])
      PROVE  RelayOK'
  <2>1. CASE relay' = relay
    BY <1>1, <2>1 DEF RelayOK
  <2>2. CASE relay.pc = "loop" /\ relay' = [relay EXCEPT !.pc = "read"]
    <3>1. relay'.pc = "read" /\ relay'.handle = relay.handle
      BY <2>2 DEF TypeOK
    <3> QED BY <1>1, <2>2, <3>1 DEF RelayOK
  <2> QED BY <1>1, <2>1, <2>2
<1>2. ASSUME NEW x \in Actors, NEW op \in Ops, NEW h \in Handles, NEW n \in Nat, EnterStep(x, op, h, n)
      PROVE  RelayOK'
  <2>1. /\ log' = log /\ sent' = sent
        /\ relay' = relay \/ (relay.pc = "loop" /\ relay' = [relay EXCEPT !.pc = "read"])
    BY <1>2 DEF EnterStep, Enter
  <2> QED BY <1>1, <2>1
<1>3. ASSUME NEW x \in Actors, Fill(x) \/ Collect(x)
      PROVE  RelayOK'
  <2>1. log' = log /\ sent' = sent /\ relay' = relay
    BY <1>3 DEF Fill, Collect
  <2> QED BY <1>1, <2>1
<1>4. ASSUME QuietStep
      PROVE  RelayOK'
  <2>1. log' = log
    BY <1>4, QuietLeaves
  <2>2. CASE CloseFile \/ Drain \/ Finish \/ UNCHANGED vars
    <3>1. sent' = sent /\ relay' = relay
      BY <2>2 DEF CloseFile, Drain, Finish, vars
    <3> QED BY <1>1, <2>1, <3>1
  <2>3. CASE Lines
    <3>1. PICK h \in Handles : relay.pc = "off" /\ relay' = [relay EXCEPT !.pc = "loop", !.handle = h] /\ sent' = sent
      BY <2>3 DEF Lines
    <3>2. relay'.pc = "loop" /\ relay'.handle = h
      BY <3>1 DEF TypeOK
    <3> QED BY <2>1, <3>1, <3>2 DEF RelayOK
  <2>4. CASE Transfer
    <3>1. /\ relay.pc = "send" /\ sent' = Append(sent, relay.line)
          /\ relay'.pc = "loop" /\ relay'.handle = relay.handle
      BY <2>4 DEF Transfer, TypeOK
    <3> QED BY <2>1, <3>1 DEF RelayOK
  <2>5. CASE RelayCloses
    <3>1. /\ relay.pc = "stop" /\ sent' = sent
          /\ relay'.pc = "closed" /\ relay'.handle = relay.handle
      BY <2>5 DEF RelayCloses, TypeOK
    <3> QED BY <2>1, <3>1 DEF RelayOK
  <2> QED BY <1>4, <2>2, <2>3, <2>4, <2>5 DEF QuietStep
<1> QED BY Steps, <1>2, <1>3, <1>4, LeaveRelay

LEMMA StreamFollows ==
  ASSUME TypeOK, NothingLost, CallsReturnWhatIsNext, RelayOK
  PROVE  StreamIsTheLines
<1> SUFFICES ASSUME relay.pc # "off"
             PROVE  LET l == log[relay.handle]
                    IN /\ Relayed(l) = IF relay.pc = "send" THEN Append(sent, relay.line) ELSE sent
                       /\ (\E e \in ToSet(l) : e.by = "relay" /\ e.err = "eof") =>
                            taken = Len(content) /\ NothingLost
  BY DEF StreamIsTheLines
<1> DEFINE h == relay.handle
<1>1. h \in Handles
  BY DEF TypeOK
<1>2. ASSUME NEW e \in ToSet(log[h]), e.by = "relay", e.err = "eof"
      PROVE  taken = Len(content)
  <2>1. e.op = "readLine"
    BY <1>1, <1>2 DEF RelayOK
  <2>2. EntryOK(e)
    BY <1>1, <1>2, CallsReturnIs DEF Returns
  <2> QED BY <1>2, <2>1, <2>2 DEF EntryOK, AtEnd
<1> QED BY <1>2 DEF RelayOK

(* The inductive invariant. *)

Inv ==
  /\ TypeOK /\ ActorsOK /\ BufferOK /\ CallOK
  /\ NothingLost /\ CallsReturnWhatIsNext /\ RelayOK

LEMMA InitLog ==
  ASSUME Init, ActorsOK
  PROVE  NothingLost /\ CallsReturnWhatIsNext /\ RelayOK
<1>1. \A h \in Handles : log[h] = << >> /\ buf[h] = << >> /\ fetched[h] = << >>
  BY DEF Init
<1>2. \A h \in Handles : Collected(h) = << >>
  <2>1. \A x \in Actors : call[x].op = "none"
    BY NoneUses DEF Init
  <2> QED BY <2>1, CollectedIs DEF CollectedOK, Uses
<1>3. Whole(<< >>, << >>, << >>) = << >>
  <2>1. Used(<< >>) = << >>
    BY DEF Used
  <2>2. FlattenSeq(<< >>) = << >>
    BY DEF FlattenSeq
  <2>3. << >> \in Pieces
    BY DEF Pieces
  <2>4. << >> \o << >> = << >>
    BY <2>3, PiecesConcat
  <2> QED BY <2>1, <2>2, <2>4 DEF Whole
<1>4. NothingLost
  BY <1>1, <1>2, <1>3, NothingLostIs
<1>5. ToSet(<< >>) = {}
  BY DEF ToSet
<1>6. CallsReturnWhatIsNext
  BY <1>1, <1>5, CallsReturnIs DEF Returns
<1>7. relay.pc = "off" /\ sent = << >>
  BY DEF Init
<1>8. RelayOK
  BY <1>1, <1>5, <1>7, RelayedEmpty DEF RelayOK
<1> QED BY <1>4, <1>6, <1>8

KeepsAll == \A h \in Handles : LostNothing(h)

LEMMA KeepsAllIs == KeepsAll <=> NothingLost
  BY NothingLostIs DEF LostNothing, KeepsAll

LEMMA LostStep ==
  ASSUME TypeOK, ActorsOK, BufferOK, NothingLost, [Next]_vars
  PROVE  NothingLost'
<1>1. KeepsAll
  BY KeepsAllIs
<1>2. ActorsOK'
  BY ActorsStep
<1>3. KeepsAll'
  BY <1>1, <1>2, LosesStep DEF KeepsAll
<1>4. (KeepsAll <=> NothingLost)'
  BY KeepsAllIs, PTL
<1> QED BY <1>3, <1>4

LEMMA ReturnStep ==
  ASSUME TypeOK, BufferOK, CallOK, CallsReturnWhatIsNext, [Next]_vars
  PROVE  CallsReturnWhatIsNext'
<1>1. \A h \in Handles : Returns(h)'
  BY CallsReturnIs, ReturnsStep
<1>2. (CallsReturnWhatIsNext <=> \A h \in Handles : Returns(h))'
  BY CallsReturnIs, PTL
<1> QED BY <1>1, <1>2

LEMMA InvInit ==
  ASSUME Init
  PROVE  Inv
  BY InitTypes, InitActors, InitLog DEF Inv

LEMMA InvStep ==
  ASSUME Inv, [Next]_vars
  PROVE  Inv'
<1>1. TypeOK' /\ ActorsOK'
  BY TypesStep, ActorsStep DEF Inv
<1>2. BufferOK' /\ CallOK'
  BY BufferStep, CallStep DEF Inv
<1>3. NothingLost' /\ CallsReturnWhatIsNext'
  BY LostStep, ReturnStep DEF Inv
<1>4. RelayOK'
  BY RelayStep DEF Inv
<1> QED BY <1>1, <1>2, <1>3, <1>4 DEF Inv

LEMMA InvHolds == Spec => []Inv
<1>1. Init => Inv
  BY InvInit
<1>2. Inv /\ [Next]_vars => Inv'
  BY InvStep
<1> QED BY <1>1, <1>2, PTL DEF Spec

\* What the system gave to a handle is used by its calls, collected by the
\* call it is in, or in its buffer, in order (NothingLost, reader and the
\* three reading built-ins).
THEOREM EveryByteIsUsed == Spec => []NothingLost
<1>1. Inv => NothingLost
  BY DEF Inv
<1> QED BY <1>1, InvHolds, PTL

\* Every result is the next piece of the file that the built-in promises
\* (CallsReturnWhatIsNext, ReadLineFile, ReadFile and ReadAllFile).
THEOREM ResultsAreNext == Spec => []CallsReturnWhatIsNext
<1>1. Inv => CallsReturnWhatIsNext
  BY DEF Inv
<1> QED BY <1>1, InvHolds, PTL

\* The stream of lines has delivered the lines its goroutine read, each once
\* and in order, and all of them when the end of the file ends it
\* (StreamIsTheLines, genLinesValue).
THEOREM LinesArriveInOrder == Spec => []StreamIsTheLines
<1>1. Inv => StreamIsTheLines
  BY StreamFollows DEF Inv
<1> QED BY <1>1, InvHolds, PTL
=============================================================================
