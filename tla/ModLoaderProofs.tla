-------------------------- MODULE ModLoaderProofs --------------------------
(***************************************************************************)
(* Proofs about the package loader, for every source tree, and about the   *)
(* packages it hands on to the checker and the generator, for every order, *)
(* import table and set of declarations.                                   *)
(***************************************************************************)
EXTENDS ModLoader, Packages, Integers, FiniteSetTheorems, FunctionTheorems, WellFoundedInduction, TLAPS

ST == INSTANCE SequenceTheorems

(***************************************************************************)
(* The inductive invariant.  The safety properties speak of the packages   *)
(* already in order; they are kept because the activations still on the    *)
(* stack have resolved, one by one, the imports before the current one.    *)
(***************************************************************************)

\* The first n - 1 import declarations of k are loaded and bound.
Resolved(k, n) ==
  \A j \in 1 .. n - 1 :
    /\ Decls(k)[j].target \in Loaded
    /\ aliasOwner[Decls(k)[j].alias] = Decls(k)[j].target
    /\ imports[k][Decls(k)[j].alias] = Decls(k)[j].target

CallOK ==
  /\ outcome = "ok" <=> pc = "done"
  /\ pc \in {"import", "bind"} => stack # << >>
  /\ pc = "load" /\ stack = << >> => arg = Root /\ byKey = {} /\ order = << >>
  /\ pc = "bind" => arg \in Loaded
  /\ pc \in {"load", "bind"} /\ stack # << >> =>
       Top.next <= Len(Decls(Top.key)) /\ Decl.target = arg

\* visiting is the set of packages on the stack, each there once; byKey adds
\* the finished ones.
StackOK ==
  /\ visiting = {stack[i].key : i \in 1 .. Len(stack)}
  /\ \A i, j \in 1 .. Len(stack) : stack[i].key = stack[j].key => i = j
  /\ stack # << >> => stack[1].key = Root
  /\ \A i \in 1 .. Len(stack) :
       /\ stack[i].next <= Len(Decls(stack[i].key)) + 1
       /\ Resolved(stack[i].key, stack[i].next)
  /\ pc # "failed" => byKey = visiting \cup Loaded /\ visiting \cap Loaded = {}

\* The stack is a path of the import graph: each activation was called for
\* the declaration its caller is resolving.
PathOK ==
  \A i \in 1 .. Len(stack) - 1 :
    /\ stack[i].next <= Len(Decls(stack[i].key))
    /\ Decls(stack[i].key)[stack[i].next].target = stack[i + 1].key

PrefixOK ==
  /\ packagePrefix[Root] = None
  /\ \A k \in Path : packagePrefix[k] # None => aliasOwner[packagePrefix[k]] = k
  /\ pc # "failed" =>
       \A k \in Loaded \ {Root} :
         packagePrefix[k] # None \/ (pc = "bind" /\ arg = k)

OrderOK == TopologicalOrder /\ LoadedOnce /\ AliasesAgree

IInv ==
  /\ program \in Programs
  /\ TypeOK
  /\ CallOK
  /\ StackOK
  /\ PathOK
  /\ PrefixOK
  /\ OrderOK

-----------------------------------------------------------------------------
LEMMA PrefixOfSeq ==
  ASSUME NEW S, NEW s \in Seq(S), NEW n \in Nat, n <= Len(s)
  PROVE  /\ SubSeq(s, 1, n) \in Seq(S)
         /\ Len(SubSeq(s, 1, n)) = n
         /\ \A i \in 1 .. n : SubSeq(s, 1, n)[i] = s[i]
OBVIOUS

LEMMA FrontOfSeq ==
  ASSUME NEW S, NEW s \in Seq(S), s # << >>
  PROVE  /\ Front(s) \in Seq(S)
         /\ Len(s) \in Nat \ {0}
         /\ Len(Front(s)) = Len(s) - 1
         /\ \A i \in 1 .. Len(s) - 1 : Front(s)[i] = s[i]
<1>1. Len(s) \in Nat \ {0}
  BY ST!EmptySeq
<1> DEFINE n == Len(s) - 1
<1>2. n \in Nat /\ n <= Len(s)
  BY <1>1
<1>3. Front(s) = SubSeq(s, 1, n)
  BY DEF Front
<1> HIDE DEF n
<1>4. /\ Front(s) \in Seq(S)
      /\ Len(Front(s)) = n
      /\ \A i \in 1 .. n : Front(s)[i] = s[i]
  BY <1>2, <1>3, PrefixOfSeq
<1> QED
  BY <1>1, <1>4 DEF n

\* A package appended to order is added to the loaded ones.
LEMMA ToSetAppend ==
  ASSUME NEW S, NEW s \in Seq(S), NEW e \in S
  PROVE  ToSet(Append(s, e)) = ToSet(s) \cup {e}
<1>1. /\ Append(s, e) \in Seq(S)
      /\ Len(Append(s, e)) = Len(s) + 1
      /\ DOMAIN Append(s, e) = 1 .. Len(s) + 1
      /\ \A i \in 1 .. Len(s) : Append(s, e)[i] = s[i]
      /\ Append(s, e)[Len(s) + 1] = e
      /\ Len(s) \in Nat /\ DOMAIN s = 1 .. Len(s)
  OBVIOUS
<1> QED
  BY <1>1 DEF ToSet

LEMMA DeclsTyped ==
  ASSUME program \in Programs, NEW k \in Path
  PROVE  Decls(k) \in Seq(Import)
BY LoaderAssumption DEF Decls

LEMMA FrameTyped ==
  ASSUME stack \in Seq(Frame), NEW i \in 1 .. Len(stack)
  PROVE  /\ stack[i] \in Frame
         /\ stack[i].key \in Path
         /\ stack[i].next \in Nat \ {0}
<1>1. stack[i] \in Frame
  OBVIOUS
<1> QED
  BY <1>1 DEF Frame

\* While a package is open, Top is the last activation.
LEMMA TopTyped ==
  ASSUME stack \in Seq(Frame), stack # << >>
  PROVE  /\ Len(stack) \in Nat \ {0}
         /\ Len(stack) \in 1 .. Len(stack)
         /\ Top = stack[Len(stack)]
         /\ Top \in Frame /\ Top.key \in Path /\ Top.next \in Nat \ {0}
<1>1. Len(stack) \in Nat \ {0}
  BY ST!EmptySeq
<1> QED
  BY <1>1, FrameTyped DEF Top

-----------------------------------------------------------------------------
THEOREM InitIInv == Init => IInv
<1> SUFFICES ASSUME Init PROVE IInv
  OBVIOUS
<1> USE DEF Init
<1>1. TypeOK
  BY LoaderAssumption DEF TypeOK
<1>2. Loaded = {}
  BY DEF Loaded, ToSet
<1>3. CallOK /\ StackOK /\ PrefixOK
  BY <1>2, LoaderAssumption DEF CallOK, StackOK, PrefixOK
<1>5. PathOK
  BY DEF PathOK
<1>4. OrderOK
  BY <1>2 DEF OrderOK, TopologicalOrder, LoadedOnce, AliasesAgree
<1> QED
  BY <1>1, <1>3, <1>4, <1>5 DEF IInv

\* Every error return leaves the stack empty and the finished packages alone.
LEMMA FailStep ==
  ASSUME IInv, NEW why \in Failure, Fail(why)
  PROVE  IInv'
<1> USE DEF IInv, Fail, tables
<1>1. TypeOK'
  BY DEF TypeOK
<1>2. Loaded' = Loaded
  BY DEF Loaded
<1>3. CallOK'
  BY DEF CallOK, Failure
<1>4. StackOK' /\ PathOK'
  BY DEF StackOK, PathOK
<1>5. PrefixOK'
  BY DEF PrefixOK
<1>6. OrderOK'
  BY <1>2 DEF OrderOK, TopologicalOrder, LoadedOnce, AliasesAgree, Decls
<1> QED
  BY <1>1, <1>3, <1>4, <1>5, <1>6

LEMMA CacheHitStep ==
  ASSUME IInv, CacheHit
  PROVE  IInv'
<1> USE DEF IInv, CacheHit, tables
<1>1. TypeOK'
  BY DEF TypeOK
<1>2. Loaded' = Loaded
  BY DEF Loaded
<1>3. arg \in Loaded /\ stack # << >>
  BY DEF StackOK, CallOK
<1>4. CallOK'
  BY <1>2, <1>3 DEF CallOK, Top, Decl, Decls
<1>5. StackOK' /\ PathOK'
  BY <1>2 DEF StackOK, PathOK, Resolved, Decls
<1>6. PrefixOK'
  BY <1>2, <1>3 DEF PrefixOK
<1>7. OrderOK'
  BY <1>2 DEF OrderOK, TopologicalOrder, LoadedOnce, AliasesAgree, Decls
<1> QED
  BY <1>1, <1>4, <1>5, <1>6, <1>7

LEMMA CallImportStep ==
  ASSUME IInv, CallImport
  PROVE  IInv'
<1> USE DEF IInv, CallImport, tables
<1>0. /\ stack # << >> /\ Len(stack) \in Nat \ {0}
      /\ Top.key \in Path /\ Top.next \in Nat \ {0}
  BY TopTyped DEF CallOK, TypeOK
<1>1. Decl \in Import
  BY <1>0, DeclsTyped, ST!ElementOfSeq DEF Decl
<1>2. TypeOK'
  BY <1>1 DEF TypeOK, Import
<1>3. Loaded' = Loaded
  BY DEF Loaded
<1>4. CallOK'
  BY <1>0, <1>3 DEF CallOK, Top, Decl, Decls
<1>5. StackOK' /\ PathOK'
  BY <1>3 DEF StackOK, PathOK, Resolved, Decls
<1>6. PrefixOK'
  BY <1>3 DEF PrefixOK
<1>7. OrderOK'
  BY <1>3 DEF OrderOK, TopologicalOrder, LoadedOnce, AliasesAgree, Decls
<1> QED
  BY <1>2, <1>4, <1>5, <1>6, <1>7

LEMMA BeginStep ==
  ASSUME IInv, Begin
  PROVE  IInv'
<1> USE DEF IInv, Begin, tables
<1> DEFINE f == [key |-> arg, next |-> 1]
<1>1. /\ stack' = Append(stack, f) /\ stack' \in Seq(Frame)
      /\ Len(stack) \in Nat /\ Len(stack') = Len(stack) + 1
      /\ \A i \in 1 .. Len(stack) : stack'[i] = stack[i]
      /\ stack'[Len(stack')] = f
  <2>1. f \in Frame /\ stack' = Append(stack, f) /\ stack \in Seq(Frame)
    BY DEF Frame, TypeOK
  <2> HIDE DEF f
  <2> QED
    BY <2>1, ST!AppendProperties, ST!LenProperties
<1>2. TypeOK'
  BY <1>1 DEF TypeOK
<1>3. Loaded' = Loaded /\ arg \in Path /\ arg \notin visiting /\ arg \notin byKey
  BY DEF Loaded, TypeOK, Fresh
<1>4. Len(Decls(arg)) \in Nat
  BY <1>3, DeclsTyped, ST!LenProperties
<1>5. CallOK'
  BY <1>1, <1>3 DEF CallOK
<1>6. StackOK'
  <2>1. visiting' = {stack'[i].key : i \in 1 .. Len(stack')}
    BY <1>1 DEF StackOK
  <2>2. \A i, j \in 1 .. Len(stack') : stack'[i].key = stack'[j].key => i = j
    BY <1>1, <1>3 DEF StackOK
  <2>3. stack'[1].key = Root
    BY <1>1 DEF StackOK, CallOK, TypeOK
  <2>4. ASSUME NEW i \in 1 .. Len(stack')
        PROVE  /\ stack'[i].next <= Len(Decls(stack[i].key)') + 1
               /\ Resolved(stack[i].key, stack[i].next)'
    <3>1. CASE i = Len(stack')
      BY <3>1, <1>1, <1>3, <1>4 DEF Resolved, Decls
    <3>2. CASE i \in 1 .. Len(stack)
      <4>1. stack[i].next <= Len(Decls(stack[i].key)) + 1 /\ Resolved(stack[i].key, stack[i].next)
        BY <3>2 DEF StackOK
      <4> QED
        BY <4>1, <3>2, <1>1, <1>3 DEF Resolved, Decls
    <3> QED
      BY <3>1, <3>2, <1>1
  <2>5. byKey' = visiting' \cup Loaded' /\ visiting' \cap Loaded' = {}
    BY <1>3 DEF StackOK
  <2> QED
    BY <2>1, <2>2, <2>3, <2>4, <2>5 DEF StackOK
<1>9. PathOK'
  <2> SUFFICES ASSUME NEW i \in 1 .. Len(stack)
               PROVE  /\ stack'[i].next <= Len(Decls(stack'[i].key))
                      /\ Decls(stack'[i].key)[stack'[i].next].target = stack'[i + 1].key
    BY <1>1 DEF PathOK, Decls
  <2>1. CASE i < Len(stack)
    BY <2>1, <1>1 DEF PathOK
  <2>2. CASE i = Len(stack)
    BY <2>2, <1>1 DEF CallOK, Top, Decl
  <2> QED
    BY <2>1, <2>2, <1>1
<1>7. PrefixOK'
  BY <1>3 DEF PrefixOK
<1>8. OrderOK'
  BY <1>3 DEF OrderOK, TopologicalOrder, LoadedOnce, AliasesAgree, Decls
<1> QED
  BY <1>2, <1>5, <1>6, <1>7, <1>8, <1>9

LEMMA BindImportStep ==
  ASSUME IInv, BindImport
  PROVE  IInv'
<1> USE DEF IInv
<1> DEFINE n == Len(stack)
           a == Decl.alias
           k == Top.key
<1>1. /\ stack # << >> /\ stack \in Seq(Frame)
      /\ n \in Nat \ {0} /\ Top = stack[n]
      /\ k \in Path /\ Top.next \in Nat \ {0} /\ n \in 1 .. n
  <2>1. stack # << >> /\ stack \in Seq(Frame)
    BY DEF CallOK, TypeOK, BindImport
  <2> QED
    BY <2>1, TopTyped
<1>2. /\ Decls(k) \in Seq(Import) /\ Len(Decls(k)) \in Nat
      /\ Top.next <= Len(Decls(k)) /\ Decl.target = arg /\ arg \in Loaded
      /\ Decl = Decls(k)[Top.next]
      /\ Decl \in Import /\ a \in Alias /\ arg \in Path
  <2>1. Decls(k) \in Seq(Import) /\ Len(Decls(k)) \in Nat
    BY <1>1, DeclsTyped, ST!LenProperties
  <2>2. Top.next <= Len(Decls(k)) /\ Decl.target = arg /\ arg \in Loaded
    BY <1>1 DEF CallOK, BindImport
  <2>3. Decl = Decls(k)[Top.next] /\ Decl \in Import
    BY <1>1, <2>1, <2>2, ST!ElementOfSeq DEF Decl
  <2> QED
    BY <2>1, <2>2, <2>3 DEF Import, TypeOK
<1>3. /\ stack' \in Seq(Frame) /\ Len(stack') = n
      /\ \A i \in 1 .. n : stack'[i].key = stack[i].key
      /\ \A i \in 1 .. n - 1 : stack'[i] = stack[i]
      /\ stack'[n].next = stack[n].next + 1
  <2>1. stack' = [stack EXCEPT ![n] = [stack[n] EXCEPT !.next = @ + 1]]
    BY DEF BindImport
  <2>2. /\ [stack[n] EXCEPT !.next = @ + 1] \in Frame
        /\ [stack[n] EXCEPT !.next = @ + 1].key = stack[n].key
        /\ [stack[n] EXCEPT !.next = @ + 1].next = stack[n].next + 1
    BY <1>1, FrameTyped DEF Frame
  <2> DEFINE f == [stack[n] EXCEPT !.next = @ + 1]
  <2> HIDE DEF f
  <2>3. /\ stack' = [stack EXCEPT ![n] = f] /\ f \in Frame
        /\ f.key = stack[n].key /\ f.next = stack[n].next + 1
    BY <2>1, <2>2 DEF f
  <2>4. /\ stack' \in Seq(Frame) /\ Len(stack') = n
        /\ \A i \in 1 .. n : stack'[i] = IF i = n THEN f ELSE stack[i]
    BY <2>3, <1>1
  <2>5. stack'[n] = f /\ \A i \in 1 .. n - 1 : stack'[i] = stack[i]
    BY <2>4, <1>1
  <2>6. ASSUME NEW i \in 1 .. n PROVE stack'[i].key = stack[i].key
    BY <2>3, <2>4
  <2> QED
    BY <2>3, <2>4, <2>5, <2>6
<1>4. TypeOK'
  BY <1>2, <1>3 DEF TypeOK, BindImport
<1>5. /\ Loaded' = Loaded
      /\ program' = program /\ order' = order /\ byKey' = byKey /\ visiting' = visiting
      /\ \A m : Decls(m)' = Decls(m)
  BY DEF Loaded, BindImport, Decls
<1>6. aliasOwner[a] \in {None, arg} /\ aliasOwner'[a] = arg
      /\ \A b \in Alias : b # a => aliasOwner'[b] = aliasOwner[b]
  BY <1>2 DEF BindImport, AliasTaken, TypeOK
\* Whatever was bound stays bound to the same package.
<1>7. \A b \in Alias, p \in Path : aliasOwner[b] = p => aliasOwner'[b] = p
  BY <1>6, LoaderAssumption
<1>8. /\ imports'[k][a] = arg
      /\ \A m \in Path, b \in Alias : m # k \/ b # a => imports'[m][b] = imports[m][b]
  BY <1>1, <1>2 DEF BindImport, TypeOK
<1>9. \A m \in Path, b \in Alias, p \in Path :
        aliasOwner[b] = p /\ imports[m][b] = p => imports'[m][b] = p
  BY <1>6, <1>8, LoaderAssumption
<1>10. CallOK'
  BY <1>1, <1>3 DEF CallOK, BindImport
<1>11. StackOK'
  <2>1. visiting' = {stack'[i].key : i \in 1 .. Len(stack')}
    <3>1. visiting = {stack[i].key : i \in 1 .. n}
      BY DEF StackOK
    <3>2. {stack[i].key : i \in 1 .. n} = {stack'[i].key : i \in 1 .. n}
      BY <1>3
    <3> QED
      BY <3>1, <3>2, <1>3, <1>5
  <2>2. \A i, j \in 1 .. Len(stack') : stack'[i].key = stack'[j].key => i = j
    BY <1>3 DEF StackOK
  <2>3. stack'[1].key = Root
    BY <1>1, <1>3 DEF StackOK
  <2>4. ASSUME NEW i \in 1 .. Len(stack')
        PROVE  /\ stack'[i].next <= Len(Decls(stack[i].key)') + 1
               /\ Resolved(stack[i].key, stack[i].next)'
    <3>1. stack[i].next <= Len(Decls(stack[i].key)) + 1 /\ Resolved(stack[i].key, stack[i].next)
      BY <1>3 DEF StackOK
    <3>2. /\ stack[i].key \in Path /\ stack[i].next \in Nat \ {0}
          /\ Decls(stack[i].key) \in Seq(Import)
      BY <1>1, <1>3, DeclsTyped, FrameTyped
    <3>3. \A j \in 1 .. stack[i].next - 1 : Decls(stack[i].key)[j] \in Import
      BY <3>1, <3>2, ST!ElementOfSeq, ST!LenProperties
    <3>4. \A j \in 1 .. stack[i].next - 1 :
            /\ Decls(stack[i].key)[j].target \in Loaded'
            /\ aliasOwner'[Decls(stack[i].key)[j].alias] = Decls(stack[i].key)[j].target
            /\ imports'[stack[i].key][Decls(stack[i].key)[j].alias] =
                 Decls(stack[i].key)[j].target
      <4> SUFFICES ASSUME NEW j \in 1 .. stack[i].next - 1
                   PROVE  LET d == Decls(stack[i].key)[j]
                          IN  /\ d.target \in Loaded'
                              /\ aliasOwner'[d.alias] = d.target
                              /\ imports'[stack[i].key][d.alias] = d.target
        OBVIOUS
      <4> DEFINE d == Decls(stack[i].key)[j]
      <4>1. d.alias \in Alias /\ d.target \in Path
        BY <3>3 DEF Import
      <4>2. /\ d.target \in Loaded /\ aliasOwner[d.alias] = d.target
            /\ imports[stack[i].key][d.alias] = d.target
        BY <3>1 DEF Resolved
      <4> HIDE DEF d
      <4>3. /\ d.target \in Loaded' /\ aliasOwner'[d.alias] = d.target
            /\ imports'[stack[i].key][d.alias] = d.target
        BY <4>1, <4>2, <3>2, <1>5, <1>7, <1>9
      <4> QED
        BY <4>3 DEF d
    <3>5. CASE i < n
      BY <3>5, <1>1, <1>3, <1>5, <3>1, <3>4 DEF Resolved
    <3>6. CASE i = n
      <4>1. stack'[i].key = k /\ stack'[i].next = Top.next + 1
        BY <3>6, <1>1, <1>3
      <4>2. \A j \in 1 .. Top.next :
              /\ Decls(k)[j].target \in Loaded'
              /\ aliasOwner'[Decls(k)[j].alias] = Decls(k)[j].target
              /\ imports'[k][Decls(k)[j].alias] = Decls(k)[j].target
        BY <3>4, <3>6, <1>1, <1>2, <1>5, <1>6, <1>8
      <4> QED
        BY <4>1, <4>2, <1>1, <1>2, <1>5 DEF Resolved
    <3> QED
      BY <3>5, <3>6, <1>1, <1>3
  <2>5. byKey' = visiting' \cup Loaded' /\ visiting' \cap Loaded' = {}
    BY <1>5 DEF StackOK, BindImport
  <2> QED
    BY <2>1, <2>2, <2>3, <2>4, <2>5 DEF StackOK
<1>12. PrefixOK'
  <2>1. arg # Root
    <3>1. Root \in visiting
      BY <1>1 DEF StackOK
    <3> QED
      BY <3>1, <1>2 DEF StackOK, BindImport
  <2>2. packagePrefix'[Root] = None
    BY <2>1 DEF PrefixOK, BindImport, TypeOK
  <2>3. ASSUME NEW m \in Path, packagePrefix'[m] # None
        PROVE  aliasOwner'[packagePrefix'[m]] = m
    <3>1. CASE packagePrefix'[m] = packagePrefix[m]
      BY <3>1, <2>3, <1>7 DEF PrefixOK, TypeOK
    <3>2. CASE m = arg /\ packagePrefix'[m] = a
      BY <3>2, <1>6
    <3> QED
      BY <3>1, <3>2 DEF BindImport, TypeOK
  <2>4. \A m \in Loaded' \ {Root} : packagePrefix'[m] # None
    <3>1. packagePrefix'[arg] # None
      BY <1>2, LoaderAssumption DEF BindImport, TypeOK
    <3>2. \A m \in Path : m # arg => packagePrefix'[m] = packagePrefix[m]
      BY DEF BindImport, TypeOK
    <3>3. Loaded \subseteq Path
      BY ST!ElementOfSeq, ST!LenProperties DEF Loaded, ToSet, TypeOK
    <3> QED
      BY <3>1, <3>2, <3>3, <1>5 DEF PrefixOK, BindImport
  <2> QED
    BY <2>2, <2>3, <2>4 DEF PrefixOK
<1>13. OrderOK'
  <2>1. TopologicalOrder' /\ LoadedOnce'
    BY <1>5 DEF OrderOK, TopologicalOrder, LoadedOnce
  <2>2. AliasesAgree'
    <3> SUFFICES ASSUME NEW m \in Loaded, NEW d \in ToSet(Decls(m))
                 PROVE  aliasOwner'[d.alias] = d.target /\ imports'[m][d.alias] = d.target
      BY <1>5 DEF AliasesAgree
    <3>1. m \in Path
      BY ST!ElementOfSeq, ST!LenProperties DEF Loaded, ToSet, TypeOK
    <3>2. d \in Import
      BY <3>1, DeclsTyped, ST!ElementOfSeq, ST!LenProperties DEF ToSet
    <3>3. aliasOwner[d.alias] = d.target /\ imports[m][d.alias] = d.target
      BY DEF OrderOK, AliasesAgree
    <3> QED
      BY <3>1, <3>2, <3>3, <1>7, <1>9 DEF Import
  <2> QED
    BY <2>1, <2>2 DEF OrderOK
<1>14. PathOK'
  <2> SUFFICES ASSUME NEW i \in 1 .. n - 1
               PROVE  /\ stack'[i].next <= Len(Decls(stack'[i].key))
                      /\ Decls(stack'[i].key)[stack'[i].next].target = stack'[i + 1].key
    BY <1>3, <1>5 DEF PathOK
  <2>1. i + 1 \in 1 .. n /\ stack'[i] = stack[i] /\ stack'[i + 1].key = stack[i + 1].key
    BY <1>1, <1>3
  <2> QED
    BY <2>1 DEF PathOK
<1>15. program' \in Programs
  BY <1>5
<1> QED
  BY <1>4, <1>10, <1>11, <1>12, <1>13, <1>14, <1>15

LEMMA FinishStep ==
  ASSUME IInv, Finish
  PROVE  IInv'
<1> USE DEF IInv
<1> DEFINE n == Len(stack)
           k == Top.key
<1>1. /\ stack # << >> /\ stack \in Seq(Frame)
      /\ n \in Nat \ {0} /\ Top = stack[n] /\ n \in 1 .. n
      /\ k \in Path /\ Top.next \in Nat \ {0}
  <2>1. stack # << >> /\ stack \in Seq(Frame)
    BY DEF CallOK, TypeOK, Finish
  <2> QED
    BY <2>1, TopTyped
<1>2. /\ stack' \in Seq(Frame) /\ Len(stack') = n - 1
      /\ \A i \in 1 .. n - 1 : stack'[i] = stack[i]
  BY <1>1, FrontOfSeq DEF Finish
<1>3. order' = Append(order, k) /\ order' \in Seq(Path) /\ Loaded' = Loaded \cup {k}
  BY <1>1, ToSetAppend, ST!AppendProperties DEF Finish, TypeOK, Loaded
<1>4. /\ order \in Seq(Path) /\ Len(order) \in Nat /\ DOMAIN order = 1 .. Len(order)
      /\ Len(order') = Len(order) + 1 /\ DOMAIN order' = 1 .. Len(order')
      /\ \A i \in 1 .. Len(order) : order'[i] = order[i]
      /\ order'[Len(order')] = k
  BY <1>1, <1>3, ST!AppendProperties, ST!LenProperties DEF TypeOK
<1>5. /\ Decls(k) \in Seq(Import) /\ Len(Decls(k)) \in Nat
      /\ Top.next > Len(Decls(k)) /\ Resolved(k, Top.next)
  BY <1>1, DeclsTyped, ST!LenProperties DEF Finish, StackOK
<1>6. \A d \in ToSet(Decls(k)) :
        d.target \in Loaded /\ aliasOwner[d.alias] = d.target /\ imports[k][d.alias] = d.target
  <2> SUFFICES ASSUME NEW j \in 1 .. Len(Decls(k))
               PROVE  /\ Decls(k)[j].target \in Loaded
                      /\ aliasOwner[Decls(k)[j].alias] = Decls(k)[j].target
                      /\ imports[k][Decls(k)[j].alias] = Decls(k)[j].target
    BY <1>5, ST!LenProperties DEF ToSet
  <2>1. j \in 1 .. Top.next - 1
    BY <1>1, <1>5
  <2> QED
    BY <2>1, <1>5 DEF Resolved
<1>7. /\ program' = program /\ aliasOwner' = aliasOwner /\ imports' = imports
      /\ byKey' = byKey /\ visiting' = visiting \ {k} /\ arg' = k
      /\ pc' \in {"done", "bind"} /\ (pc' = "done" <=> n = 1)
      /\ \A m : Decls(m)' = Decls(m)
  BY DEF Finish, Decls
<1>0. /\ visiting = {stack[i].key : i \in 1 .. n}
      /\ \A i, j \in 1 .. n : stack[i].key = stack[j].key => i = j
      /\ stack[1].key = Root
      /\ byKey = visiting \cup Loaded /\ visiting \cap Loaded = {}
      /\ 1 \in 1 .. n /\ k = stack[n].key
  BY <1>1 DEF StackOK, Finish
<1>8. k \in visiting /\ k \notin Loaded
  BY <1>0, <1>1
\* The root is the bottom of the stack, so only the last Finish is the root's.
<1>9. n = 1 <=> k = Root
  BY <1>0, <1>1
<1>10. packagePrefix' = packagePrefix
  BY <1>1, <1>9 DEF PrefixOK, Finish, TypeOK
<1>11. TypeOK'
  BY <1>1, <1>2, <1>3, <1>7, <1>10 DEF TypeOK, Finish
<1>12. CallOK'
  <2>1. pc' = "bind" => stack' # << >> /\ arg' \in Loaded'
    BY <1>1, <1>2, <1>3, <1>7
  <2>2. outcome' = "ok" <=> pc' = "done"
    BY <1>1 DEF Finish, CallOK
  <2>3. ASSUME stack' # << >>, pc' = "bind"
        PROVE  (Top.next <= Len(Decls(Top.key)) /\ Decl.target = arg)'
    <3>0. n # 1
      BY <2>3, <1>7
    <3> HIDE DEF n, k
    <3>1. n - 1 \in 1 .. n - 1 /\ n \in 1 .. n /\ n = (n - 1) + 1
      BY <3>0, <1>1
    <3> USE DEF n, k
    <3>2. stack'[n - 1] = stack[n - 1] /\ Top' = stack'[n - 1]
      BY <3>1, <1>2 DEF Top
    <3>3. /\ stack[n - 1].next <= Len(Decls(stack[n - 1].key))
          /\ Decls(stack[n - 1].key)[stack[n - 1].next].target = k
      BY <3>1, <1>1 DEF PathOK
    <3> QED
      BY <3>2, <3>3, <1>7 DEF Decl
  <2> QED
    BY <2>1, <2>2, <2>3, <1>7 DEF CallOK
<1>13. StackOK'
  <2>1. visiting' = {stack'[i].key : i \in 1 .. Len(stack')}
    <3>2. \A i \in 1 .. n : stack[i].key = k <=> i = n
      BY <1>0, <1>1
    <3>3. \A i \in 1 .. n : i = n \/ i \in 1 .. n - 1
      BY <1>1
    <3>4. \A i \in 1 .. n - 1 : i \in 1 .. n /\ i # n
      BY <1>1
    <3>5. visiting' = {stack[i].key : i \in 1 .. n - 1}
      BY <1>0, <3>2, <3>3, <3>4, <1>7
    <3> QED
      BY <3>5, <1>2
  <2>2. \A i, j \in 1 .. Len(stack') : stack'[i].key = stack'[j].key => i = j
    BY <1>0, <1>1, <1>2
  <2>3. stack' # << >> => stack'[1].key = Root
    <3>1. stack' # << >> => Len(stack') # 0
      BY <1>2, ST!EmptySeq
    <3> QED
      BY <3>1, <1>0, <1>1, <1>2
  <2>4. ASSUME NEW i \in 1 .. Len(stack')
        PROVE  /\ stack'[i].next <= Len(Decls(stack[i].key)') + 1
               /\ Resolved(stack[i].key, stack[i].next)'
    <3>1. i \in 1 .. n - 1 /\ i \in 1 .. n /\ stack'[i] = stack[i]
      BY <1>1, <1>2
    <3>2. stack[i].next <= Len(Decls(stack[i].key)) + 1 /\ Resolved(stack[i].key, stack[i].next)
      BY <3>1 DEF StackOK
    <3> QED
      BY <3>1, <3>2, <1>3, <1>7 DEF Resolved
  <2>5. byKey' = visiting' \cup Loaded' /\ visiting' \cap Loaded' = {}
    BY <1>0, <1>3, <1>7, <1>8
  <2> QED
    BY <2>1, <2>2, <2>3, <2>4, <2>5, <1>7 DEF StackOK
<1>14. PrefixOK'
  BY <1>3, <1>7, <1>9, <1>10 DEF PrefixOK, Finish
<1>15. TopologicalOrder'
  <2> SUFFICES ASSUME NEW i \in 1 .. Len(order'), NEW d \in ToSet(Decls(order'[i]))
               PROVE  \E j \in 1 .. i - 1 : order'[j] = d.target
    BY <1>4, <1>7 DEF TopologicalOrder
  <2>1. CASE i \in 1 .. Len(order)
    BY <2>1, <1>4 DEF OrderOK, TopologicalOrder
  <2>2. CASE i = Len(order')
    <3>1. d.target \in Loaded
      BY <2>2, <1>4, <1>6
    <3>2. PICK j \in 1 .. Len(order) : order[j] = d.target
      BY <3>1, <1>4 DEF Loaded, ToSet
    <3> QED
      BY <3>2, <2>2, <1>4
  <2> QED
    BY <2>1, <2>2, <1>4
<1>16. LoadedOnce'
  <2>1. \A i \in 1 .. Len(order) : order[i] # k
    BY <1>8, <1>4 DEF Loaded, ToSet
  <2>2. \A i, j \in 1 .. Len(order) : order[i] = order[j] => i = j
    BY <1>4 DEF OrderOK, LoadedOnce
  <2> QED
    BY <2>1, <2>2, <1>4 DEF LoadedOnce
<1>17. AliasesAgree'
  BY <1>3, <1>6, <1>7 DEF OrderOK, AliasesAgree
<1>18. PathOK'
  <2> SUFFICES ASSUME NEW i \in 1 .. (n - 1) - 1
               PROVE  /\ stack'[i].next <= Len(Decls(stack'[i].key))
                      /\ Decls(stack'[i].key)[stack'[i].next].target = stack'[i + 1].key
    BY <1>2, <1>7 DEF PathOK
  <2> HIDE DEF n, k
  <2>0. i \in 1 .. n - 1 /\ i + 1 \in 1 .. n - 1
    BY <1>1
  <2>1. /\ i \in 1 .. n - 1 /\ i + 1 \in 1 .. n - 1
        /\ stack'[i] = stack[i] /\ stack'[i + 1] = stack[i + 1]
    BY <2>0, <1>2
  <2> USE DEF n, k
  <2> QED
    BY <2>1 DEF PathOK
<1> QED
  BY <1>7, <1>11, <1>12, <1>13, <1>14, <1>15, <1>16, <1>17, <1>18 DEF OrderOK

-----------------------------------------------------------------------------
THEOREM StutterStep == IInv /\ UNCHANGED vars => IInv'
<1> SUFFICES ASSUME IInv, UNCHANGED vars PROVE IInv'
  OBVIOUS
<1> USE DEF IInv, vars, tables
<1>1. Loaded' = Loaded /\ \A k : Decls(k)' = Decls(k)
  BY DEF Loaded, Decls
<1>2. TypeOK' /\ CallOK'
  BY <1>1 DEF TypeOK, CallOK, Top, Decl
<1>3. StackOK' /\ PathOK' /\ PrefixOK'
  BY <1>1 DEF StackOK, PathOK, PrefixOK, Resolved
<1>4. OrderOK'
  BY <1>1 DEF OrderOK, TopologicalOrder, LoadedOnce, AliasesAgree
<1> QED
  BY <1>2, <1>3, <1>4

THEOREM NextIInv == IInv /\ [Next]_vars => IInv'
<1> SUFFICES ASSUME IInv, [Next]_vars PROVE IInv'
  OBVIOUS
<1>1. CASE IOError \/ NotFound \/ NotAPackage \/ Cycle \/ NoSources \/ ParseError \/ AliasClash
  BY <1>1, FailStep DEF IOError, NotFound, NotAPackage, Cycle, NoSources,
       ParseError, AliasClash, Failure
<1>2. CASE CacheHit
  BY <1>2, CacheHitStep
<1>3. CASE Begin
  BY <1>3, BeginStep
<1>4. CASE CallImport
  BY <1>4, CallImportStep
<1>5. CASE BindImport
  BY <1>5, BindImportStep
<1>6. CASE Finish
  BY <1>6, FinishStep
<1>7. CASE UNCHANGED vars
  BY <1>7, StutterStep
<1> QED
  BY <1>1, <1>2, <1>3, <1>4, <1>5, <1>6, <1>7 DEF Next

THEOREM Invariance == Spec => []IInv
  BY InitIInv, NextIInv, PTL DEF Spec

\* Every variable of the loader keeps its type.
THEOREM TypeCorrect == Spec => []TypeOK
<1>1. IInv => TypeOK
  BY DEF IInv
<1> QED
  BY <1>1, Invariance, PTL

\* For every source tree, however large: when Load hands the packages to
\* CheckPackage, each one comes after everything it imports, ...
THEOREM OrderIsTopological == Spec => []TopologicalOrder
<1>1. IInv => TopologicalOrder
  BY DEF IInv, OrderOK
<1> QED
  BY <1>1, Invariance, PTL

\* ... none comes twice, ...
THEOREM NoPackageTwice == Spec => []LoadedOnce
<1>1. IInv => LoadedOnce
  BY DEF IInv, OrderOK
<1> QED
  BY <1>1, Invariance, PTL

\* ... and an alias means the same package in every file of the program.
THEOREM OneMeaningPerAlias == Spec => []AliasesAgree
<1>1. IInv => AliasesAgree
  BY DEF IInv, OrderOK
<1> QED
  BY <1>1, Invariance, PTL

\* The rename prefixes of an accepted program are all different: prefixes
\* are aliases, and an alias belongs to one package.
THEOREM PrefixesAreDistinct == Spec => []PrefixesDistinct
<1>1. IInv => PrefixesDistinct
  <2> SUFFICES ASSUME IInv, outcome = "ok"
               PROVE  /\ packagePrefix[Root] = None
                      /\ \A k \in Loaded \ {Root} :
                           /\ packagePrefix[k] # None
                           /\ \A m \in Loaded \ {k} : packagePrefix[m] # packagePrefix[k]
    BY DEF PrefixesDistinct
  <2>1. pc = "done"
    BY DEF IInv, CallOK
  <2>2. packagePrefix[Root] = None
    BY DEF IInv, PrefixOK
  <2>3. \A k \in Loaded \ {Root} : packagePrefix[k] # None
    BY <2>1 DEF IInv, PrefixOK
  <2>4. \A k \in Loaded : k \in Path
    BY ST!ElementOfSeq, ST!LenProperties DEF IInv, TypeOK, Loaded, ToSet
  <2> QED
    BY <2>2, <2>3, <2>4 DEF IInv, PrefixOK
<1> QED
  BY <1>1, Invariance, PTL

\* What an alias or a prefix was once bound to is never rebound: the step
\* that could do it, BindImport, is stopped by the alias check.
THEOREM BindingsStay == Spec => BindingsAreStable
<1> DEFINE Stable ==
      /\ \A a \in Alias : aliasOwner[a] # None => aliasOwner'[a] = aliasOwner[a]
      /\ \A k \in Path : packagePrefix[k] # None => packagePrefix'[k] = packagePrefix[k]
<1>1. IInv /\ [Next]_vars => [Stable]_vars
  <2> SUFFICES ASSUME IInv, Next PROVE Stable
    OBVIOUS
  <2>1. CASE BindImport
    BY <2>1 DEF BindImport, AliasTaken, IInv, TypeOK
  <2>2. CASE Finish
    <3>1. stack # << >> /\ stack[1].key = Root
      BY <2>2 DEF IInv, CallOK, StackOK, Finish
    <3>2. Len(stack) = 1 => Top.key = Root
      BY <3>1 DEF Top
    <3> QED
      BY <2>2, <3>2 DEF Finish, IInv, PrefixOK, TypeOK
  <2>3. CASE ~BindImport /\ ~Finish
    BY <2>3 DEF Next, IOError, NotFound, NotAPackage, Cycle, NoSources, ParseError,
         AliasClash, Fail, CacheHit, Begin, CallImport, tables
  <2> QED
    BY <2>1, <2>2, <2>3
<1> QED
  BY <1>1, Invariance, PTL DEF Spec, BindingsAreStable

-----------------------------------------------------------------------------
(***************************************************************************)
(* The loader implements PackageDag, for every source tree: it delivers    *)
(* each package after its imports, accepts exactly the legal programs and  *)
(* rejects a program only for a reason that is in it.                      *)
(***************************************************************************)

\* What is reached from a package by its imports.
Below(k) == Dag!Closure(Dag!Targets(k))

\* The loader looks only at packages the program needs, and remembers of each
\* alias a declaration that gave it.
ReachOK ==
  /\ outcome = "loading" <=> pc \in {"load", "import", "bind"}
  /\ pc = "done" => Root \in Loaded
  /\ arg \in Dag!Needed
  /\ byKey \subseteq Dag!Needed \cap Usable

OwnersOK ==
  \A a \in Alias : aliasOwner[a] # None =>
    \E k \in byKey : \E d \in ToSet(Decls(k)) : d.alias = a /\ d.target = aliasOwner[a]

\* Every package on the stack reaches those above it, and the one that is
\* about to be loaded.
StackReaches ==
  /\ \A i, j \in 1 .. Len(stack) : i < j => stack[j].key \in Below(stack[i].key)
  /\ pc = "load" => \A i \in 1 .. Len(stack) : arg \in Below(stack[i].key)

RInv == ReachOK /\ OwnersOK /\ StackReaches

-----------------------------------------------------------------------------
(* The closure of a set of packages under imports.                         *)

LEMMA TargetsAre ==
  ASSUME program \in Programs, NEW k \in Path
  PROVE  /\ Dag!Targets(k) = {d.target : d \in ToSet(Decls(k))}
         /\ Dag!Targets(k) \subseteq Path
<1>1. Dag!Targets(k) = {d.target : d \in ToSet(Decls(k))}
  BY DEF Dag!Targets
<1>2. Decls(k) \in Seq(Import)
  BY DeclsTyped
<1>3. ToSet(Decls(k)) \subseteq Import
  BY <1>2 DEF ToSet
<1> QED BY <1>1, <1>3 DEF Import

LEMMA ClosureHas ==
  ASSUME NEW S, S \subseteq Path
  PROVE  S \subseteq Dag!Closure(S) /\ Dag!Closure(S) \subseteq Path
BY DEF Dag!Closure

LEMMA ClosureStep ==
  ASSUME program \in Programs, NEW S, NEW k \in Dag!Closure(S), k \in Usable
  PROVE  Dag!Targets(k) \subseteq Dag!Closure(S)
<1>1. k \in Path /\ Dag!Targets(k) \subseteq Path
  BY TargetsAre DEF Dag!Closure
<1> QED BY <1>1 DEF Dag!Closure

LEMMA ClosureLeast ==
  ASSUME NEW S, NEW T \in SUBSET Path, S \subseteq T,
         \A m \in T \cap Usable : Dag!Targets(m) \subseteq T
  PROVE  Dag!Closure(S) \subseteq T
BY DEF Dag!Closure

LEMMA RootNeeded == Root \in Dag!Needed /\ Dag!Needed \subseteq Path
BY ClosureHas, LoaderAssumption DEF Dag!Needed

LEMMA ImportNeeded ==
  ASSUME program \in Programs, NEW k \in Dag!Needed \cap Usable
  PROVE  Dag!Targets(k) \subseteq Dag!Needed
BY ClosureStep DEF Dag!Needed

\* The program on disk does not change, so neither does what it needs.
LEMMA SameProgram ==
  ASSUME program' = program
  PROVE  /\ \A k : Decls(k)' = Decls(k)
         /\ \A k : Dag!Targets(k)' = Dag!Targets(k)
         /\ \A k : Below(k)' = Below(k)
         /\ Dag!Needed' = Dag!Needed
BY DEF Decls, Dag!Targets, Below, Dag!Closure, Dag!Needed

\* The import that a package is resolving is one of its imports.
LEMMA CurrentImport ==
  ASSUME IInv, RInv, stack # << >>, Top.next <= Len(Decls(Top.key))
  PROVE  /\ Decl \in ToSet(Decls(Top.key)) /\ Decl \in Import
         /\ Decl.target \in Dag!Targets(Top.key)
         /\ Top.key \in byKey \/ pc = "failed"
<1>1. /\ Len(stack) \in 1 .. Len(stack) /\ Top = stack[Len(stack)]
      /\ Top.key \in Path /\ Top.next \in Nat \ {0}
  BY TopTyped DEF IInv, TypeOK
<1>2. Decls(Top.key) \in Seq(Import)
  BY <1>1, DeclsTyped DEF IInv
<1>3. Top.next \in DOMAIN Decls(Top.key)
  BY <1>1, <1>2
<1>4. Decl \in ToSet(Decls(Top.key)) /\ Decl \in Import
  BY <1>2, <1>3 DEF Decl, ToSet
<1>5. Decl.target \in Dag!Targets(Top.key)
  BY <1>1, <1>4, TargetsAre DEF IInv
<1>6. Top.key \in visiting
  BY <1>1 DEF IInv, StackOK
<1> QED BY <1>4, <1>5, <1>6 DEF IInv, StackOK

-----------------------------------------------------------------------------
(* RInv is inductive, given IInv.                                          *)

LEMMA InitRInv == Init => RInv
<1> SUFFICES ASSUME Init PROVE RInv
  OBVIOUS
<1> QED BY RootNeeded DEF Init, RInv, ReachOK, OwnersOK, StackReaches

LEMMA FailRInv ==
  ASSUME IInv, RInv, NEW why \in Failure, Fail(why)
  PROVE  RInv'
<1>1. program' = program /\ Loaded' = Loaded
  BY DEF Fail, Loaded
<1>2. ReachOK'
  BY <1>1, SameProgram DEF Fail, RInv, ReachOK, Usable, Loadable, Failure
<1>3. OwnersOK'
  BY <1>1, SameProgram DEF Fail, RInv, OwnersOK, tables
<1>4. StackReaches'
  BY DEF Fail, StackReaches
<1> QED BY <1>2, <1>3, <1>4 DEF RInv

LEMMA BeginRInv ==
  ASSUME IInv, RInv, Begin
  PROVE  RInv'
<1> DEFINE f == [key |-> arg, next |-> 1]
           n == Len(stack)
<1>1. program' = program /\ Loaded' = Loaded /\ aliasOwner' = aliasOwner
  BY DEF Begin, Loaded, tables
<1>2. /\ stack \in Seq(Frame) /\ n \in Nat /\ arg \in Path
      /\ stack' = Append(stack, f)
  BY DEF Begin, IInv, TypeOK
<1>3. /\ Len(stack') = n + 1 /\ stack'[n + 1].key = arg
      /\ \A i \in 1 .. n : stack'[i] = stack[i]
  BY <1>2
<1>4. arg \in Usable
  <2>1. Kind[arg] = "file" => arg = Root
    BY DEF Begin, Fresh, Opens, IsRoot, IInv, CallOK
  <2> QED BY <1>2, <2>1 DEF Begin, Fresh, Opens, Usable
<1>5. ReachOK'
  <2>1. byKey' = byKey \cup {arg} /\ arg' = arg /\ outcome' = outcome /\ pc' = "import" /\ pc = "load"
    BY DEF Begin
  <2>2. byKey' \subseteq Dag!Needed \cap Usable
    BY <1>4, <2>1 DEF RInv, ReachOK
  <2> QED BY <1>1, <2>1, <2>2, SameProgram DEF RInv, ReachOK, Usable, Loadable
<1>6. OwnersOK'
  BY <1>1, SameProgram DEF Begin, RInv, OwnersOK
<1>7. StackReaches'
  <2>1. SUFFICES ASSUME NEW i \in 1 .. n + 1, NEW j \in 1 .. n + 1, i < j
                 PROVE  stack'[j].key \in Below(stack'[i].key)
    BY <1>1, <1>3, SameProgram DEF Begin, StackReaches
  <2>2. i \in 1 .. n
    BY <1>2, <2>1
  <2>3. CASE j = n + 1
    BY <1>3, <2>2, <2>3 DEF Begin, RInv, StackReaches
  <2>4. CASE j # n + 1
    <3>1. j \in 1 .. n
      BY <1>2, <2>4
    <3> QED BY <1>3, <2>1, <2>2, <3>1 DEF RInv, StackReaches
  <2> QED BY <2>3, <2>4
<1> QED BY <1>5, <1>6, <1>7 DEF RInv

LEMMA CallImportRInv ==
  ASSUME IInv, RInv, CallImport
  PROVE  RInv'
<1> DEFINE n == Len(stack)
           k == Top.key
<1>1. /\ program' = program /\ Loaded' = Loaded /\ aliasOwner' = aliasOwner /\ stack' = stack
      /\ byKey' = byKey /\ outcome' = outcome /\ arg' = Decl.target /\ pc' = "load"
      /\ pc = "import" /\ stack # << >>
  BY DEF CallImport, Loaded, tables, IInv, CallOK
<1>2. /\ n \in Nat \ {0} /\ n \in 1 .. n /\ Top = stack[n]
  BY <1>1, TopTyped DEF IInv, TypeOK
<1>3. k \in byKey /\ Decl.target \in Dag!Targets(k)
  BY <1>1, CurrentImport DEF CallImport
<1>4. k \in Dag!Needed \cap Usable
  BY <1>3 DEF RInv, ReachOK
<1>5. program \in Programs
  BY DEF IInv
<1>6. ReachOK'
  <2>1. Decl.target \in Dag!Needed
    BY <1>3, <1>4, <1>5, ImportNeeded
  <2> QED BY <1>1, <2>1, SameProgram DEF RInv, ReachOK, Usable, Loadable
<1>7. OwnersOK'
  BY <1>1, SameProgram DEF RInv, OwnersOK
<1>8. ASSUME NEW i \in 1 .. n PROVE Decl.target \in Below(stack[i].key)
  <2>1. CASE i = n
    <3>1. Dag!Targets(k) \subseteq Path
      BY <1>4, <1>5, TargetsAre DEF Usable
    <3> QED BY <1>2, <1>3, <2>1, <3>1, ClosureHas DEF Below
  <2>2. CASE i # n
    <3>1. k \in Below(stack[i].key)
      BY <1>2, <2>2 DEF RInv, StackReaches
    <3> QED BY <1>3, <1>4, <1>5, <3>1, ClosureStep DEF Below
  <2> QED BY <2>1, <2>2
<1>9. StackReaches'
  BY <1>1, <1>8, SameProgram DEF RInv, StackReaches
<1> QED BY <1>6, <1>7, <1>9 DEF RInv

LEMMA BindImportRInv ==
  ASSUME IInv, RInv, BindImport
  PROVE  RInv'
<1> DEFINE n == Len(stack)
           a == Decl.alias
           k == Top.key
<1>1. /\ program' = program /\ Loaded' = Loaded /\ byKey' = byKey /\ outcome' = outcome
      /\ arg' = arg /\ pc' = "import" /\ pc = "bind" /\ stack # << >>
      /\ aliasOwner' = [aliasOwner EXCEPT ![a] = arg]
      /\ stack' = [stack EXCEPT ![n].next = @ + 1]
  BY DEF BindImport, Loaded, IInv, CallOK
<1>2. /\ stack \in Seq(Frame) /\ n \in Nat \ {0} /\ aliasOwner \in [Alias -> Path \cup {None}]
  BY <1>1, TopTyped DEF IInv, TypeOK
<1>3. Top.next <= Len(Decls(Top.key)) /\ Decl.target = arg
  BY <1>1 DEF IInv, CallOK
<1>4. k \in byKey /\ Decl \in ToSet(Decls(k))
  BY <1>1, <1>3, CurrentImport
<1>5. ReachOK'
  BY <1>1, SameProgram DEF RInv, ReachOK, Usable, Loadable
<1>6. OwnersOK'
  <2>1. SUFFICES ASSUME NEW b \in Alias, aliasOwner'[b] # None
                 PROVE  \E m \in byKey : \E d \in ToSet(Decls(m)) :
                          d.alias = b /\ d.target = aliasOwner'[b]
    BY <1>1, SameProgram DEF OwnersOK
  <2>2. CASE b = a
    BY <1>1, <1>2, <1>3, <1>4, <2>2
  <2>3. CASE b # a
    BY <1>1, <1>2, <2>1, <2>3 DEF RInv, OwnersOK
  <2> QED BY <2>2, <2>3
<1>7. Len(stack') = n /\ \A i \in 1 .. n : stack'[i].key = stack[i].key
  <2>1. DOMAIN stack' = DOMAIN stack /\ Len(stack') = n
    BY <1>1, <1>2
  <2>2. SUFFICES ASSUME NEW i \in 1 .. n PROVE stack'[i].key = stack[i].key
    BY <2>1
  <2>3. stack[i] \in Frame
    BY <1>2
  <2> QED BY <1>1, <1>2, <2>3 DEF Frame
<1>8. StackReaches'
  BY <1>1, <1>7, SameProgram DEF RInv, StackReaches
<1> QED BY <1>5, <1>6, <1>8 DEF RInv

LEMMA FinishRInv ==
  ASSUME IInv, RInv, Finish
  PROVE  RInv'
<1> DEFINE n == Len(stack)
           k == Top.key
<1>1. /\ program' = program /\ byKey' = byKey /\ aliasOwner' = aliasOwner /\ arg' = k
      /\ order' = Append(order, k) /\ stack' = Front(stack) /\ pc = "import" /\ stack # << >>
  BY DEF Finish, IInv, CallOK
<1>2. /\ stack \in Seq(Frame) /\ n \in Nat \ {0} /\ n \in 1 .. n /\ Top = stack[n]
      /\ k \in Path /\ order \in Seq(Path)
  BY <1>1, TopTyped DEF IInv, TypeOK
<1>3. Len(stack') = n - 1 /\ \A i \in 1 .. n - 1 : stack'[i] = stack[i]
  BY <1>1, <1>2, FrontOfSeq
<1>4. k \in byKey
  BY <1>1, <1>2 DEF IInv, StackOK
<1>5. Loaded' = Loaded \cup {k}
  BY <1>1, <1>2, ToSetAppend DEF Loaded
<1>6. ReachOK'
  <2>1. n = 1 => k = Root
    BY <1>1, <1>2 DEF IInv, StackOK
  <2>2. CASE n = 1
    BY <1>1, <1>4, <1>5, <2>1, <2>2, SameProgram DEF Finish, RInv, ReachOK, Usable, Loadable
  <2>3. CASE n # 1
    BY <1>1, <1>4, <1>5, <2>3, SameProgram DEF Finish, RInv, ReachOK, Usable, Loadable
  <2> QED BY <2>2, <2>3
<1>7. OwnersOK'
  BY <1>1, SameProgram DEF RInv, OwnersOK
<1>8. StackReaches'
  <2>1. pc' # "load"
    BY DEF Finish
  <2>2. SUFFICES ASSUME NEW i \in 1 .. n - 1, NEW j \in 1 .. n - 1, i < j
                 PROVE  stack'[j].key \in Below(stack'[i].key)
    BY <1>1, <1>3, <2>1, SameProgram DEF StackReaches
  <2>3. i \in 1 .. n /\ j \in 1 .. n
    BY <1>2
  <2> QED BY <1>3, <2>2, <2>3 DEF RInv, StackReaches
<1> QED BY <1>6, <1>7, <1>8 DEF RInv

LEMMA NextRInv == IInv /\ RInv /\ [Next]_vars => RInv'
<1> SUFFICES ASSUME IInv, RInv, [Next]_vars PROVE RInv'
  OBVIOUS
<1>1. CASE IOError \/ NotFound \/ NotAPackage \/ Cycle \/ NoSources \/ ParseError \/ AliasClash
  <2>1. \E why \in Failure : Fail(why)
    BY <1>1 DEF IOError, NotFound, NotAPackage, Cycle, NoSources, ParseError, AliasClash, Failure
  <2> QED BY <2>1, FailRInv
<1>2. CASE CacheHit \/ UNCHANGED vars
  <2>1. /\ program' = program /\ Loaded' = Loaded /\ byKey' = byKey /\ arg' = arg /\ stack' = stack
        /\ aliasOwner' = aliasOwner /\ outcome' = outcome
        /\ (pc = "load" /\ pc' = "bind") \/ pc' = pc
    BY <1>2 DEF CacheHit, vars, tables, Loaded
  <2>2. ReachOK'
    BY <2>1, SameProgram DEF RInv, ReachOK, Usable, Loadable
  <2>3. OwnersOK' /\ StackReaches'
    BY <2>1, SameProgram DEF RInv, OwnersOK, StackReaches
  <2> QED BY <2>2, <2>3 DEF RInv
<1>3. CASE Begin
  BY <1>3, BeginRInv
<1>4. CASE CallImport
  BY <1>4, CallImportRInv
<1>5. CASE BindImport
  BY <1>5, BindImportRInv
<1>6. CASE Finish
  BY <1>6, FinishRInv
<1> QED BY <1>1, <1>2, <1>3, <1>4, <1>5, <1>6 DEF Next

-----------------------------------------------------------------------------
(* Why a program is rejected.                                              *)

LEMMA UnusableRejects == RInv /\ arg \notin Usable => ~Dag!Legal
BY DEF RInv, ReachOK, Dag!Legal

LEMMA CycleRejects ==
  ASSUME IInv, RInv, pc = "load", NEW i \in 1 .. Len(stack), stack[i].key = arg
  PROVE  ~Dag!Legal
<1>1. arg \in byKey
  BY DEF IInv, StackOK
<1>2. arg \in Dag!Closure(Dag!Targets(arg)) /\ arg \in Dag!Needed \cap Usable
  BY <1>1 DEF RInv, ReachOK, StackReaches, Below
<1>3. Dag!Cyclic
  BY <1>2 DEF Dag!Cyclic
<1> QED BY <1>3 DEF Dag!Legal

\* Two packages give an alias to different targets.
Conflicting ==
  \E k, m \in Dag!Needed \cap Usable : \E d \in ToSet(Decls(k)), e \in ToSet(Decls(m)) :
    d.alias = e.alias /\ d.target # e.target

LEMMA ConflictIs == Dag!AliasConflict <=> Conflicting
<1>1. \A k \in Dag!Needed \cap Usable : k \in Path
  BY DEF Usable
<1>2. ASSUME Conflicting PROVE Dag!AliasConflict
  BY <1>1, <1>2 DEF Dag!AliasConflict, Conflicting
<1>3. ASSUME Dag!AliasConflict PROVE Conflicting
  BY <1>1, <1>3 DEF Dag!AliasConflict, Conflicting
<1> QED BY <1>2, <1>3

LEMMA AliasRejects ==
  ASSUME IInv, RInv, AliasClash
  PROVE  ~Dag!Legal
<1>1. pc = "bind" /\ aliasOwner[Decl.alias] \notin {None, arg}
  BY DEF AliasClash, AliasTaken
<1>2. stack # << >> /\ Top.next <= Len(Decls(Top.key)) /\ Decl.target = arg
  BY <1>1 DEF IInv, CallOK
<1>3. Decl \in ToSet(Decls(Top.key)) /\ Decl \in Import /\ Top.key \in byKey
  BY <1>1, <1>2, CurrentImport
<1>4. Decl.alias \in Alias
  BY <1>3 DEF Import
<1>5. PICK k \in byKey : \E d \in ToSet(Decls(k)) : d.alias = Decl.alias /\ d.target # arg
  BY <1>1, <1>4 DEF RInv, OwnersOK
<1>6. k \in Dag!Needed \cap Usable /\ Top.key \in Dag!Needed \cap Usable
  BY <1>3, <1>5 DEF RInv, ReachOK
<1>7. Dag!AliasConflict
  BY <1>2, <1>3, <1>5, <1>6, ConflictIs DEF Conflicting
<1> QED BY <1>7 DEF Dag!Legal

-----------------------------------------------------------------------------
(* Why a program is accepted.                                              *)

\* The first n packages of the order import nothing but each other.
LEMMA PrefixClosed ==
  ASSUME IInv, Loaded \subseteq Usable, NEW n \in 0 .. Len(order)
  PROVE  \A m \in {order[j] : j \in 1 .. n} \cap Usable :
           Dag!Targets(m) \subseteq {order[j] : j \in 1 .. n}
<1> SUFFICES ASSUME NEW i \in 1 .. n, NEW d \in ToSet(Decls(order[i]))
             PROVE  d.target \in {order[j] : j \in 1 .. n}
  BY TargetsAre DEF IInv, Usable
<1>1. order \in Seq(Path) /\ i \in DOMAIN order
  BY DEF IInv, TypeOK
<1>2. PICK j \in 1 .. i - 1 : order[j] = d.target
  BY <1>1 DEF IInv, OrderOK, TopologicalOrder
<1>3. j \in 1 .. n
  BY <1>2
<1> QED BY <1>2, <1>3

LEMMA LoadedIs ==
  ASSUME IInv
  PROVE  /\ order \in Seq(Path) /\ Len(order) \in Nat /\ DOMAIN order = 1 .. Len(order)
         /\ Loaded = {order[j] : j \in 1 .. Len(order)} /\ Loaded \subseteq Path
<1>1. order \in Seq(Path)
  BY DEF IInv, TypeOK
<1> QED BY <1>1 DEF Loaded, ToSet

\* When the loader is done, it has delivered what the program needs, and
\* nothing is wrong with that.
LEMMA DoneIsLegal == IInv /\ RInv /\ outcome = "ok" => Dag!Legal /\ Loaded = Dag!Needed
<1> SUFFICES ASSUME IInv, RInv, outcome = "ok" PROVE Dag!Legal /\ Loaded = Dag!Needed
  OBVIOUS
<1>1. pc = "done" /\ Root \in Loaded /\ Loaded \subseteq byKey
  BY DEF IInv, CallOK, StackOK, RInv, ReachOK
<1>2. Loaded \subseteq Dag!Needed \cap Usable
  BY <1>1 DEF RInv, ReachOK
<1>3. Len(order) \in 0 .. Len(order)
  BY LoadedIs
<1>4. \A m \in Loaded \cap Usable : Dag!Targets(m) \subseteq Loaded
  BY <1>2, <1>3, LoadedIs, PrefixClosed
<1>5. Dag!Needed \subseteq Loaded
  BY <1>1, <1>4, LoadedIs, ClosureLeast DEF Dag!Needed
<1>6. ~Dag!Cyclic
  <2> SUFFICES ASSUME NEW k \in Dag!Needed, k \in Dag!Closure(Dag!Targets(k)) PROVE FALSE
    BY DEF Dag!Cyclic
  <2>1. PICK i \in 1 .. Len(order) : order[i] = k
    BY <1>5, LoadedIs
  <2> DEFINE n == i - 1
             P == {order[j] : j \in 1 .. n}
  <2>2. n \in 0 .. Len(order) /\ i \in DOMAIN order
    BY LoadedIs
  <2>3. P \subseteq Path
    BY <2>2, LoadedIs
  <2>4. \A m \in P \cap Usable : Dag!Targets(m) \subseteq P
    <3> HIDE DEF n
    <3> QED BY <1>2, <2>2, PrefixClosed
  <2>5. Dag!Targets(k) \subseteq P
    <3>1. k \in Path
      BY RootNeeded
    <3>2. Dag!Targets(k) = {d.target : d \in ToSet(Decls(k))}
      BY <3>1, TargetsAre DEF IInv
    <3>3. \A d \in ToSet(Decls(k)) : \E j \in 1 .. n : order[j] = d.target
      BY <2>1, <2>2 DEF IInv, OrderOK, TopologicalOrder
    <3> QED BY <3>2, <3>3
  <2>6. k \in P
    <3> HIDE DEF P
    <3> QED BY <2>3, <2>4, <2>5, ClosureLeast
  <2>7. PICK j \in 1 .. n : order[j] = k
    BY <2>6
  <2>8. j \in DOMAIN order /\ j # i
    BY <2>2, LoadedIs
  <2> QED BY <2>1, <2>2, <2>7, <2>8 DEF IInv, OrderOK, LoadedOnce
<1>7. ~Dag!AliasConflict
  <2> SUFFICES ASSUME NEW k \in Dag!Needed, NEW m \in Dag!Needed,
                      NEW d \in ToSet(Decls(k)), NEW e \in ToSet(Decls(m)),
                      d.alias = e.alias, d.target # e.target
               PROVE FALSE
    BY RootNeeded DEF Dag!AliasConflict
  <2> QED BY <1>5 DEF IInv, OrderOK, AliasesAgree
<1> QED BY <1>2, <1>5, <1>6, <1>7 DEF Dag!Legal

-----------------------------------------------------------------------------
(* The refinement.                                                         *)

LEMMA InitIsDagInit == Init => Dag!Init
<1> SUFFICES ASSUME Init PROVE Dag!Init
  OBVIOUS
<1> QED BY DEF Init, Dag!Init, Usable

\* An error return is a rejection, if something is wrong with the program.
LEMMA FailIsReject ==
  ASSUME IInv, RInv, NEW why \in Failure, why # "io", Fail(why), ~Dag!Legal,
         pc \in {"load", "bind"}
  PROVE  Dag!Reject
<1>1. program' = program /\ order' = order /\ outcome' = why /\ why \notin {"loading", "ok", "io"}
  BY DEF Fail, Failure
<1>2. outcome = "loading"
  BY DEF RInv, ReachOK
<1>3. \A k : ToSet(Decls(k))' = ToSet(Decls(k))
  BY <1>1, SameProgram
<1> QED BY <1>1, <1>2, <1>3 DEF Dag!Reject, Usable, Loadable

LEMMA SameLegal == program' = program => (Dag!Legal' <=> Dag!Legal)
<1>0. (Dag!AliasConflict <=> Conflicting)'
  BY ConflictIs, PTL
<1> SUFFICES ASSUME program' = program PROVE Dag!Legal' <=> Dag!Legal
  OBVIOUS
<1>1. Usable' = Usable /\ Dag!Needed' = Dag!Needed
  BY SameProgram DEF Usable, Loadable
<1>2. Dag!Cyclic' <=> Dag!Cyclic
  BY <1>1, SameProgram DEF Dag!Cyclic, Below
<1>3. \A k : ToSet(Decls(k))' = ToSet(Decls(k))
  BY SameProgram
<1>4. Dag!AliasConflict' <=> Dag!AliasConflict
  BY <1>0, <1>1, <1>3, ConflictIs DEF Conflicting
<1> QED BY <1>1, <1>2, <1>4 DEF Dag!Legal

LEMMA FinishIsDeliver ==
  ASSUME IInv, RInv, Finish, IInv', RInv',
         outcome' = "ok" => Dag!Legal' /\ Loaded' = Dag!Needed'
  PROVE  Dag!Deliver(Top.key)
<1> DEFINE n == Len(stack)
           k == Top.key
<1>1. /\ program' = program /\ order' = Append(order, k) /\ pc = "import" /\ stack # << >>
  BY DEF Finish, IInv, CallOK
<1>2. /\ n \in Nat \ {0} /\ n \in 1 .. n /\ Top = stack[n] /\ 1 \in 1 .. n
      /\ k \in Path /\ Top.next \in Nat \ {0}
  BY <1>1, TopTyped DEF IInv, TypeOK
<1>3. k \in byKey /\ k \notin Loaded /\ Resolved(k, Top.next)
  BY <1>1, <1>2 DEF IInv, StackOK
<1>4. k \in Dag!Needed \cap Usable
  BY <1>3 DEF RInv, ReachOK
<1>5. Dag!Targets(k) \subseteq Loaded
  <2>1. Decls(k) \in Seq(Import) /\ Top.next > Len(Decls(k))
    BY <1>2, DeclsTyped DEF IInv, Finish
  <2>2. \A d \in ToSet(Decls(k)) : d.target \in Loaded
    BY <1>2, <1>3, <2>1 DEF ToSet, Resolved
  <2> QED BY <1>2, <2>2, TargetsAre DEF IInv
<1>6. n = 1 <=> k = Root
  BY <1>1, <1>2 DEF IInv, StackOK
<1>7. outcome = "loading" /\ IF k = Root THEN outcome' = "ok" ELSE outcome' = "loading"
  BY <1>1, <1>6 DEF Finish, RInv, ReachOK
<1>8. k = Root => Dag!Legal /\ ToSet(order') = Dag!Needed
  <2>1. Dag!Legal' <=> Dag!Legal
    BY <1>1, SameLegal
  <2> QED BY <1>1, <1>7, <2>1, SameProgram DEF Loaded
<1>9. /\ [p \in Path |-> ToSet(Decls(p))]' = [p \in Path |-> ToSet(Decls(p))]
      /\ Usable' = Usable
  <2>1. \A p : ToSet(Decls(p))' = ToSet(Decls(p))
    BY <1>1, SameProgram
  <2> QED BY <2>1 DEF Usable, Loadable
<1>10. \A s : Dag!ToSet(s) = ToSet(s)
  BY DEF Dag!ToSet, ToSet
<1> HIDE DEF k
<1> QED BY <1>1, <1>3, <1>4, <1>5, <1>7, <1>8, <1>9, <1>10 DEF Dag!Deliver, Loaded, k

LEMMA NextIsDagNext ==
  IInv /\ RInv /\ IInv' /\ RInv' /\ (outcome' = "ok" => Dag!Legal' /\ Loaded' = Dag!Needed')
    /\ [Next]_vars => [Dag!Next]_Dag!vars
<1> SUFFICES ASSUME IInv, RInv, IInv', RInv', [Next]_vars,
                    outcome' = "ok" => Dag!Legal' /\ Loaded' = Dag!Needed'
             PROVE  [Dag!Next]_Dag!vars
  OBVIOUS
<1>1. CASE IOError
  <2>1. program' = program /\ order' = order /\ outcome' = "io" /\ outcome = "loading"
    BY <1>1 DEF IOError, Fail, RInv, ReachOK
  <2> QED BY <2>1, SameProgram DEF Dag!Next, Dag!DiskFails
<1>2. CASE NotFound
  <2>1. arg \notin Usable
    BY <1>2 DEF NotFound, Usable
  <2> QED BY <1>2, <2>1, UnusableRejects, FailIsReject DEF NotFound, Failure, Dag!Next
<1>3. CASE NotAPackage
  <2>1. Kind[arg] = "file" /\ stack # << >> /\ pc = "load" /\ Fail("not a package")
    BY <1>3 DEF NotAPackage, IsRoot
  <2>2. CASE arg = Root
    <3>1. 1 \in 1 .. Len(stack)
      <4>1. Len(stack) \in Nat \ {0}
        BY <2>1, TopTyped DEF IInv, TypeOK
      <4> QED BY <4>1
    <3>2. stack[1].key = Root
      BY <2>1 DEF IInv, StackOK
    <3> QED BY <2>1, <2>2, <3>1, <3>2, CycleRejects, FailIsReject DEF Failure, Dag!Next
  <2>3. CASE arg # Root
    <3>1. arg \notin Usable
      BY <2>1, <2>3 DEF Usable
    <3> QED BY <2>1, <3>1, UnusableRejects, FailIsReject DEF Failure, Dag!Next
  <2> QED BY <2>2, <2>3
<1>4. CASE Cycle
  <2>1. PICK i \in 1 .. Len(stack) : stack[i].key = arg
    BY <1>4 DEF Cycle, IInv, StackOK
  <2> QED BY <1>4, <2>1, CycleRejects, FailIsReject DEF Cycle, Failure, Dag!Next
<1>5. CASE NoSources \/ ParseError
  <2>1. arg \notin Usable
    BY <1>5 DEF NoSources, ParseError, Usable, Loadable
  <2> QED BY <1>5, <2>1, UnusableRejects, FailIsReject
      DEF NoSources, ParseError, Failure, Dag!Next
<1>6. CASE AliasClash
  BY <1>6, AliasRejects, FailIsReject DEF AliasClash, Failure, Dag!Next
<1>7. CASE Finish
  <2>1. Dag!Deliver(Top.key)
    BY <1>7, FinishIsDeliver
  <2>2. Top.key \in Path
    BY <1>7, TopTyped DEF Finish, IInv, TypeOK, CallOK
  <2> QED BY <2>1, <2>2 DEF Dag!Next
<1>8. CASE CacheHit \/ Begin \/ CallImport \/ BindImport \/ UNCHANGED vars
  <2>1. program' = program /\ order' = order /\ outcome' = outcome
    BY <1>8 DEF CacheHit, Begin, CallImport, BindImport, vars
  <2> QED BY <2>1, SameProgram DEF Dag!vars
<1> QED BY <1>1, <1>2, <1>3, <1>4, <1>5, <1>6, <1>7, <1>8 DEF Next

THEOREM Reaches == Spec => [](IInv /\ RInv)
BY Invariance, InitRInv, NextRInv, PTL DEF Spec

\* load delivers only packages the program needs, each after those it
\* imports; it returns the root only when that is all of them and nothing is
\* wrong with the program, and an error only when something is, or the disk
\* fails (the comment of Load; visiting, byKey and aliasOwner).
THEOREM LoadImplementsDag == Spec => ImplementsDag
<1>1. Init => Dag!Init
  BY InitIsDagInit
<1>2. (IInv /\ RInv /\ outcome = "ok" => Dag!Legal /\ Loaded = Dag!Needed)'
  BY DoneIsLegal, PTL
<1>3. (IInv /\ RInv) /\ (IInv /\ RInv)' /\ [Next]_vars => [Dag!Next]_Dag!vars
  BY <1>2, NextIsDagNext
<1>4. ImplementsDag <=> Dag!Init /\ [][Dag!Next]_Dag!vars
  BY DEF ImplementsDag, Dag!Spec
<1> QED BY <1>1, <1>3, <1>4, Reaches, PTL DEF Spec

-----------------------------------------------------------------------------
(***************************************************************************)
(* No source file is in two packages.  A directory that holds the file the *)
(* root is reads the imports of that file among its own, so that what the  *)
(* file reaches, the directory reaches: itself, if it is loaded at all.    *)
(***************************************************************************)

\* A set of naturals that is not empty has a least element.
LEMMA Least ==
  ASSUME NEW T \in SUBSET Nat, T # {}
  PROVE  \E m \in T : \A j \in T : m <= j
<1> DEFINE R == {ss \in Nat \X Nat : ss[1] < ss[2]}
<1>1. IsWellFoundedOn(R, Nat)
  BY NatLessThanWellFounded DEF OpToRel
<1>2. PICK m \in T : \A y \in T : <<y, m>> \notin R
  <2> HIDE DEF R
  <2> QED BY <1>1, WFMin
<1>3. \A j \in T : ~(j < m)
  BY <1>2
<1> QED BY <1>3

\* The first n of the sequences, one after the other.
Joined(s, n, f) == f = [i \in 1 .. n |-> IF i = 1 THEN s[i] ELSE f[i - 1] \o s[i]]

LEMMA JoinMore ==
  ASSUME NEW s, NEW n \in Nat, NEW f, Joined(s, n, f)
  PROVE  \E g : Joined(s, n + 1, g)
<1> DEFINE g == [i \in 1 .. n + 1 |-> IF i \in 1 .. n THEN f[i]
                                       ELSE IF i = 1 THEN s[i] ELSE f[n] \o s[i]]
           h == [i \in 1 .. n + 1 |-> IF i = 1 THEN s[i] ELSE g[i - 1] \o s[i]]
<1>1. \A i \in 1 .. n : f[i] = IF i = 1 THEN s[i] ELSE f[i - 1] \o s[i]
  BY DEF Joined
<1>2. ASSUME NEW i \in 1 .. n + 1
      PROVE  g[i] = IF i = 1 THEN s[i] ELSE g[i - 1] \o s[i]
  <2>1. CASE i \in 1 .. n
    <3>1. i # 1 => i - 1 \in 1 .. n /\ i - 1 \in 1 .. n + 1
      BY <2>1
    <3>2. g[i] = f[i] /\ (i # 1 => g[i - 1] = f[i - 1])
      BY <2>1, <3>1
    <3> HIDE DEF g
    <3> QED BY <1>1, <2>1, <3>2
  <2>2. CASE i \notin 1 .. n
    <3>1. i = n + 1 /\ (i # 1 => n \in 1 .. n /\ n \in 1 .. n + 1 /\ i - 1 = n)
      BY <2>2
    <3>2. i # 1 => g[i - 1] = f[n]
      BY <3>1
    <3>3. g[i] = IF i = 1 THEN s[i] ELSE f[n] \o s[i]
      BY <2>2
    <3> HIDE DEF g
    <3> QED BY <3>2, <3>3
  <2> QED BY <2>1, <2>2
<1>3. \A i \in 1 .. n + 1 : g[i] = h[i]
  BY <1>2
<1>4. g = h
  <2>1. g = [i \in 1 .. n + 1 |-> g[i]]
    OBVIOUS
  <2> QED BY <1>3, <2>1
<1> QED BY <1>4 DEF Joined

LEMMA JoinExists ==
  ASSUME NEW s, NEW n \in Nat
  PROVE  \E f : Joined(s, n, f)
<1> DEFINE T == {m \in Nat : ~ \E f : Joined(s, m, f)}
<1> SUFFICES ASSUME T # {} PROVE FALSE
  OBVIOUS
<1>1. PICK m \in T : \A j \in T : m <= j
  <2>1. T \subseteq Nat
    OBVIOUS
  <2> HIDE DEF T
  <2> QED BY <2>1, Least
<1>2. Joined(s, 0, [i \in 1 .. 0 |-> s])
  BY DEF Joined
<1>3. m # 0
  BY <1>2
<1>4. m - 1 \in Nat /\ m - 1 \notin T /\ (m - 1) + 1 = m
  BY <1>1, <1>3
<1>5. PICK f : Joined(s, m - 1, f)
  BY <1>4
<1>6. \E g : Joined(s, (m - 1) + 1, g)
  BY <1>4, <1>5, JoinMore
<1> QED BY <1>4, <1>6

LEMMA JoinedSet ==
  ASSUME NEW S, NEW a \in Seq(S), NEW b \in Seq(S)
  PROVE  a \o b \in Seq(S) /\ ToSet(a \o b) = ToSet(a) \cup ToSet(b)
<1>1. /\ a \o b \in Seq(S) /\ Len(a \o b) = Len(a) + Len(b)
      /\ \A i \in 1 .. Len(a) + Len(b) : (a \o b)[i] = IF i <= Len(a) THEN a[i] ELSE b[i - Len(a)]
  OBVIOUS
<1>2. ASSUME NEW i \in 1 .. Len(b) PROVE (a \o b)[i + Len(a)] = b[i]
  BY <1>1
<1>3. ToSet(b) \subseteq ToSet(a \o b)
  <2>1. \A i \in 1 .. Len(b) : i + Len(a) \in 1 .. Len(a) + Len(b)
    OBVIOUS
  <2> QED BY <1>1, <1>2, <2>1 DEF ToSet
<1>4. ToSet(a) \subseteq ToSet(a \o b)
  <2>1. \A i \in 1 .. Len(a) : i \in 1 .. Len(a) + Len(b) /\ (a \o b)[i] = a[i]
    BY <1>1
  <2> QED BY <1>1, <2>1 DEF ToSet
<1>5. ToSet(a \o b) \subseteq ToSet(a) \cup ToSet(b)
  <2> SUFFICES ASSUME NEW i \in 1 .. Len(a) + Len(b)
               PROVE  (a \o b)[i] \in ToSet(a) \cup ToSet(b)
    BY <1>1 DEF ToSet
  <2>1. CASE i <= Len(a)
    <3>1. (a \o b)[i] = a[i] /\ i \in 1 .. Len(a)
      BY <1>1, <2>1
    <3> QED BY <3>1 DEF ToSet
  <2>2. CASE ~(i <= Len(a))
    <3>1. (a \o b)[i] = b[i - Len(a)] /\ i - Len(a) \in 1 .. Len(b)
      BY <1>1, <2>2
    <3> QED BY <3>1 DEF ToSet
  <2> QED BY <2>1, <2>2
<1> QED BY <1>1, <1>3, <1>4, <1>5

\* What stands in one of the sequences stands in all of them joined, and the
\* other way round.
LEMMA FlattenHas ==
  ASSUME NEW S, NEW s \in Seq(Seq(S))
  PROVE  ToSet(FlattenSeq(s)) = UNION {ToSet(s[i]) : i \in 1 .. Len(s)}
<1>1. PICK n \in Nat : n = Len(s)
  OBVIOUS
<1>2. CASE n = 0
  <2>1. Len(s) = 0 /\ DOMAIN s = {}
    <3>1. Len(s) = 0
      BY <1>1, <1>2
    <3>2. DOMAIN s = 1 .. Len(s)
      OBVIOUS
    <3> QED BY <3>1, <3>2
  <2>2. FlattenSeq(s) = s
    BY <2>1, Zenon DEF FlattenSeq
  <2> QED BY <2>1, <2>2 DEF ToSet
<1>3. CASE n # 0
  <2>1. PICK f : Joined(s, n, f)
    BY JoinExists
  <2>2. Joined(s, n, CHOOSE g : Joined(s, n, g))
    BY <2>1
  <2>3. PICK g : g = (CHOOSE gg : Joined(s, n, gg)) /\ Joined(s, n, g)
    BY <2>2
  <2>4. FlattenSeq(s) = g[n]
    BY <1>1, <1>3, <2>3 DEF FlattenSeq, Joined
  <2>5. \A i \in 1 .. n : g[i] = IF i = 1 THEN s[i] ELSE g[i - 1] \o s[i]
    BY <2>3 DEF Joined
  <2> DEFINE OK(i) == g[i] \in Seq(S) /\ ToSet(g[i]) = UNION {ToSet(s[j]) : j \in 1 .. i}
             T == {i \in Nat : i \in 1 .. n /\ ~OK(i)}
  <2>6. ASSUME T # {} PROVE FALSE
    <3>1. PICK i \in T : \A j \in T : i <= j
      <4>1. T \subseteq Nat
        OBVIOUS
      <4> HIDE DEF T
      <4> QED BY <2>6, <4>1, Least
    <3>2. i \in 1 .. n /\ s[i] \in Seq(S)
      BY <1>1, <3>1
    <3>3. CASE i = 1
      <4>1. g[i] = s[i]
        BY <2>5, <3>2, <3>3
      <4>2. UNION {ToSet(s[j]) : j \in 1 .. i} = ToSet(s[1])
        BY <3>3
      <4> QED BY <3>1, <3>2, <3>3, <4>1, <4>2
    <3>4. CASE i # 1
      <4>1. i - 1 \in 1 .. n /\ ~(i <= i - 1) /\ i - 1 \in Nat
        BY <3>2, <3>4
      <4>2. OK(i - 1)
        BY <3>1, <4>1
      <4>3. g[i] = g[i - 1] \o s[i]
        BY <2>5, <3>2, <3>4
      <4>4. PICK a \in Seq(S), b \in Seq(S) : a = g[i - 1] /\ b = s[i]
        BY <3>2, <4>2
      <4>5. a \o b \in Seq(S) /\ ToSet(a \o b) = ToSet(a) \cup ToSet(b)
        BY JoinedSet
      <4>6. UNION {ToSet(s[j]) : j \in 1 .. i} = (UNION {ToSet(s[j]) : j \in 1 .. i - 1}) \cup ToSet(s[i])
        <5>1. 1 .. i = (1 .. i - 1) \cup {i}
          BY <3>2
        <5> QED BY <5>1
      <4>7. OK(i)
        BY <4>2, <4>3, <4>4, <4>5, <4>6
      <4> QED BY <3>1, <4>7
    <3> QED BY <3>3, <3>4
  <2>7. n \in 1 .. n
    BY <1>3
  <2>8. OK(n)
    BY <2>6, <2>7
  <2> QED BY <1>1, <2>4, <2>8
<1> QED BY <1>2, <1>3

\* The declarations of a package are those of its files.
LEMMA DeclsAre ==
  ASSUME program \in Programs, NEW k \in Path
  PROVE  ToSet(Decls(k)) = UNION {ToSet(program[f]) : f \in ToSet(FilesOf[k])}
<1>1. program \in [File -> Seq(Import)] /\ FilesOf[k] \in Seq(File)
  BY LoaderAssumption
<1> DEFINE fs == FilesOf[k]
           s == [i \in DOMAIN fs |-> program[fs[i]]]
<1>2. /\ s \in Seq(Seq(Import)) /\ Len(s) = Len(fs) /\ DOMAIN fs = 1 .. Len(fs)
      /\ \A i \in 1 .. Len(s) : s[i] = program[fs[i]]
  <2>1. PICK n \in Nat : n = Len(fs) /\ DOMAIN fs = 1 .. n /\ \A i \in 1 .. n : fs[i] \in File
    BY <1>1
  <2>2. s = [i \in 1 .. n |-> program[fs[i]]]
    BY <2>1
  <2> HIDE DEF s, fs
  <2>3. s \in [1 .. n -> Seq(Import)]
    BY <1>1, <2>1, <2>2
  <2> QED BY <2>1, <2>2, <2>3
<1>3. ToSet(FlattenSeq(s)) = UNION {ToSet(s[i]) : i \in 1 .. Len(s)}
  <2> HIDE DEF s
  <2> QED BY <1>2, FlattenHas
<1> HIDE DEF s
<1>4. UNION {ToSet(s[i]) : i \in 1 .. Len(s)} = UNION {ToSet(program[f]) : f \in ToSet(fs)}
  <2> HIDE DEF fs
  <2>1. ToSet(fs) = {fs[i] : i \in 1 .. Len(s)}
    BY <1>2 DEF ToSet
  <2>2. ASSUME NEW y PROVE (\E i \in 1 .. Len(s) : y \in ToSet(s[i])) <=>
                           (\E f \in ToSet(fs) : y \in ToSet(program[f]))
    BY <1>2, <2>1
  <2> QED BY <2>2
<1> QED BY <1>3, <1>4 DEF Decls, DeclsIn, s

\* A loaded package that holds the file the root is would be its own importer.
LEMMA RootFileAlone ==
  ASSUME IInv, RInv, Dag!Legal, NEW k \in Dag!Needed, NEW m \in Dag!Needed, k # m, LiesIn(k, m)
  PROVE  FALSE
<1>1. k \in Usable /\ m \in Usable /\ k \in Path /\ m \in Path /\ program \in Programs
  BY RootNeeded DEF Dag!Legal, IInv
<1>2. k = Root
  BY <1>1 DEF Usable, LiesIn
<1>3. Dag!Targets(k) \subseteq Dag!Targets(m) /\ Dag!Targets(m) \subseteq Path
  <2>1. ToSet(Decls(k)) \subseteq ToSet(Decls(m))
    BY <1>1, DeclsAre DEF LiesIn
  <2>2. /\ Dag!Targets(k) = {d.target : d \in ToSet(Decls(k))}
        /\ Dag!Targets(m) = {d.target : d \in ToSet(Decls(m))}
        /\ Dag!Targets(m) \subseteq Path
    BY <1>1, TargetsAre
  <2> QED BY <2>1, <2>2
<1> DEFINE T == {Root} \cup Below(m)
<1>4. Dag!Targets(m) \subseteq Below(m) /\ Below(m) \subseteq Path
  BY <1>3, ClosureHas DEF Below
<1>5. T \in SUBSET Path /\ {Root} \subseteq T
  BY <1>4, LoaderAssumption
<1>6. \A j \in T \cap Usable : Dag!Targets(j) \subseteq T
  <2>1. ASSUME NEW j \in Below(m), j \in Usable PROVE Dag!Targets(j) \subseteq T
    BY <1>1, <2>1, ClosureStep DEF Below
  <2> QED BY <1>2, <1>3, <1>4, <2>1
<1>7. m \in Below(m)
  <2> HIDE DEF T
  <2>1. Dag!Needed \subseteq T
    BY <1>5, <1>6, ClosureLeast DEF Dag!Needed
  <2> QED BY <1>2, <2>1 DEF T
<1> QED BY <1>1, <1>7 DEF Dag!Legal, Dag!Cyclic, Below

(* FilesOnce: no source file is compiled twice, as part of two packages of *)
(* an accepted program (the package keys of load, its cycle check).        *)
THEOREM NoFileTwice == Spec => []FilesOnce
<1>1. IInv /\ RInv => FilesOnce
  <2> SUFFICES ASSUME IInv, RInv, outcome = "ok", NEW k \in Loaded, NEW m \in Loaded, k # m,
                      ToSet(FilesOf[k]) \cap ToSet(FilesOf[m]) # {}
               PROVE  FALSE
    BY DEF FilesOnce
  <2>1. Dag!Legal /\ Loaded = Dag!Needed
    BY DoneIsLegal
  <2>2. LiesIn(k, m) \/ LiesIn(m, k)
    BY <2>1, RootNeeded, FilesAssumption
  <2> QED BY <2>1, <2>2, RootFileAlone
<1> QED BY <1>1, Reaches, PTL

(***************************************************************************)
(* The packages of one program.  The invariant says, of every package that *)
(* is checked, what its export tables hold without mentioning the tables   *)
(* of its imports: a type crosses a package boundary under the name its    *)
(* own package gives it.                                                   *)
(***************************************************************************)

OwnNames(p) == StructsIn(p) \cup EnumsIn(p)

\* The canonical type that expression te of package p has in p, and the one
\* an importer of p sees.
Held(p, te) ==
  [list |-> te.list, qualified |-> te.alias # "",
   name |-> IF te.alias = "" THEN te.name ELSE GoName(Imports[p][te.alias], te.name)]

Crossing(p, te) ==
  IF te.alias = "" /\ te.name \in OwnNames(p)
  THEN [list |-> te.list, qualified |-> TRUE, name |-> GoName(p, te.name)]
  ELSE Held(p, te)

CrossingTypes(p, d) == [i \in DOMAIN d.types |-> Crossing(p, d.types[i])]

\* A type expression of p names something.
Names(p, te) ==
  IF te.alias = "" THEN te.name \in KnownHere(p)
  ELSE te.alias \in DOMAIN Imports[p] /\ te.name \in OwnNames(Imports[p][te.alias]) \cap Capitalised

Sound(p) ==
  /\ TypeNamesAreFree(p) /\ ValueNamesAreFree(p)
  /\ \A d \in Typed(p) : \A te \in Range(d.types) : Names(p, te)
  /\ \A d \in OfKind(p, "const") : ~d.types[1].list
  /\ Prefix[p] = "" => \E d \in OfKind(p, "fn") : d.name = "main"

Tabled(p, table, S) ==
  \A d \in S : d.name \in DOMAIN exports[p][table] /\ exports[p][table][d.name].types = CrossingTypes(p, d)

ExportsAre(p) ==
  /\ Tabled(p, "funcs", Visible(OfKind(p, "fn")) \cup ExportedBinds(p))
  /\ Tabled(p, "consts", Visible(OfKind(p, "const")))
  /\ Tabled(p, "structs", Visible(OfKind(p, "struct")))
  /\ Tabled(p, "enums", Visible(OfKind(p, "enum")))
  /\ \A n \in DOMAIN exports[p].structs : n \in StructsIn(p) \cap Capitalised /\ exports[p].structs[n].goName = GoName(p, n)
  /\ \A n \in DOMAIN exports[p].enums : n \in EnumsIn(p) \cap Capitalised /\ exports[p].enums[n].goName = GoName(p, n)
  /\ \A d \in Visible(OfKind(p, "fn")) : exports[p].funcs[d.name].token = FuncToken(p, d.name)

AliasesBound(p) ==
  \A x \in Externs(p) : x.name \in DOMAIN externMap /\ externMap[x.name] = ExternTarget(p, x)

CompileInv ==
  /\ decls \in Declarations
  /\ stage \in {"check", "generate", "done", "failed"} /\ pos \in DOMAIN Order
  /\ exports = [p \in Packages |-> exports[p]]
  /\ \A i \in DOMAIN Order : CheckedBefore(i) =>
       Sound(Order[i]) /\ ExportsAre(Order[i]) /\ AliasesBound(Order[i])

LEMMA OrderIs ==
  /\ Order \in Seq(Packages) /\ Len(Order) \in Nat \ {0} /\ DOMAIN Order = 1 .. Len(Order)
  /\ \A i \in DOMAIN Order : Order[i] \in Packages
  /\ \A p \in Packages : \E i \in DOMAIN Order : p = Order[i]
  /\ \A i, j \in DOMAIN Order : Order[i] = Order[j] => i = j
<1>1. Order \in Seq(Packages) /\ Order # <<>> /\ IsInjective(Order)
  BY PackagesAssumption DEF PackagesAssumption
<1>2. DOMAIN Order = 1 .. Len(Order) /\ Len(Order) \in Nat \ {0}
  BY <1>1
<1>3. \A i, j \in DOMAIN Order : Order[i] = Order[j] => i = j
  BY <1>1, Zenon DEF IsInjective
<1> QED BY <1>1, <1>2, <1>3 DEF Packages, Range

LEMMA ImportsAre ==
  ASSUME NEW i \in DOMAIN Order, NEW a \in DOMAIN Imports[Order[i]]
  PROVE  \E j \in 1 .. i - 1 : j \in DOMAIN Order /\ Imports[Order[i]][a] = Order[j]
<1>1. Imports[Order[i]][a] \in Range(Imports[Order[i]])
  BY DEF Range
<1>2. Range(Imports[Order[i]]) \subseteq {Order[j] : j \in 1 .. i - 1}
  BY PackagesAssumption, Zenon DEF PackagesAssumption
<1>3. PICK j \in 1 .. i - 1 : Imports[Order[i]][a] = Order[j]
  BY <1>1, <1>2
<1> QED BY <1>3, OrderIs

\* With the tables of the imports of p as the invariant says, a type
\* expression that resolves is Held(p, te).
LEMMA HeldIs ==
  ASSUME NEW p,
         \A a \in DOMAIN Imports[p] : ExportsAre(Imports[p][a]),
         NEW te, Resolvable(p, te)
  PROVE  Resolve(p, te) = Held(p, te) /\ Names(p, te)
<1>1. CASE te.alias = ""
  BY <1>1 DEF Resolvable, Resolve, Held, Names
<1>2. CASE te.alias # ""
  <2> DEFINE q == Imports[p][te.alias]
  <2>1. te.alias \in DOMAIN Imports[p] /\ te.name \in TypesExported(q) /\ ExportsAre(q)
    BY <1>2 DEF Resolvable
  <2>2. ExportedGoName(q, te.name) = GoName(q, te.name) /\ te.name \in OwnNames(q) \cap Capitalised
    BY <2>1 DEF TypesExported, ExportedGoName, ExportsAre, OwnNames
  <2> QED BY <1>2, <2>1, <2>2 DEF Resolve, Held, Names
<1> QED BY <1>1, <1>2

LEMMA CrossingIs ==
  ASSUME NEW p,
         \A a \in DOMAIN Imports[p] : ExportsAre(Imports[p][a]),
         NEW te, Resolvable(p, te)
  PROVE  ExportTypeString(p, Resolve(p, te)) = Crossing(p, te)
<1>1. Resolve(p, te) = Held(p, te)
  BY HeldIs
<1>2. Held(p, te).list = te.list /\ (Held(p, te).qualified <=> te.alias # "")
      /\ (te.alias = "" => Held(p, te).name = te.name)
  BY DEF Held
<1>3. CASE te.alias = "" /\ te.name \in OwnNames(p)
  BY <1>1, <1>2, <1>3 DEF ExportTypeString, Crossing, OwnNames
<1>4. CASE ~(te.alias = "" /\ te.name \in OwnNames(p))
  BY <1>1, <1>2, <1>4 DEF ExportTypeString, Crossing, OwnNames
<1> QED BY <1>3, <1>4

LEMMA KindsAreTyped ==
  ASSUME NEW p, NEW k, k \in {"fn", "const", "struct", "enum"}
  PROVE  OfKind(p, k) \subseteq Typed(p)
BY DEF OfKind, Typed, Externs

LEMMA BindsAreTyped == \A p : Binds(p) \subseteq Typed(p)
BY DEF Typed

\* What buildExports puts into the tables of an accepted package.
LEMMA BuiltExports ==
  ASSUME NEW p, Accepted(p),
         \A a \in DOMAIN Imports[p] : ExportsAre(Imports[p][a])
  PROVE  LET e == BuildExports(p)
         IN /\ \A d \in Visible(OfKind(p, "fn")) \cup ExportedBinds(p) :
                 d.name \in DOMAIN e.funcs /\ e.funcs[d.name].types = CrossingTypes(p, d)
            /\ \A d \in Visible(OfKind(p, "const")) :
                 d.name \in DOMAIN e.consts /\ e.consts[d.name].types = CrossingTypes(p, d)
            /\ \A d \in Visible(OfKind(p, "struct")) :
                 d.name \in DOMAIN e.structs /\ e.structs[d.name].types = CrossingTypes(p, d)
            /\ \A d \in Visible(OfKind(p, "enum")) :
                 d.name \in DOMAIN e.enums /\ e.enums[d.name].types = CrossingTypes(p, d)
            /\ \A n \in DOMAIN e.structs : n \in StructsIn(p) \cap Capitalised /\ e.structs[n].goName = GoName(p, n)
            /\ \A n \in DOMAIN e.enums : n \in EnumsIn(p) \cap Capitalised /\ e.enums[n].goName = GoName(p, n)
            /\ \A d \in Visible(OfKind(p, "fn")) : e.funcs[d.name].token = FuncToken(p, d.name)
<1> DEFINE e == BuildExports(p)
           fns == Visible(OfKind(p, "fn"))
           consts == Visible(OfKind(p, "const"))
           structs == Visible(OfKind(p, "struct"))
           enums == Visible(OfKind(p, "enum"))
           binds == ExportedBinds(p)
<1>1. \A d \in Typed(p) : ExportTypes(p, d) = CrossingTypes(p, d)
  <2> SUFFICES ASSUME NEW d \in Typed(p), NEW i \in DOMAIN d.types
               PROVE  ExportTypeString(p, Resolve(p, d.types[i])) = Crossing(p, d.types[i])
    BY Zenon DEF ExportTypes, CrossingTypes
  <2>1. Resolvable(p, d.types[i])
    BY DEF Accepted, Range
  <2> QED BY <2>1, CrossingIs
<1>2. /\ fns \cup consts \cup structs \cup enums \cup binds \subseteq Typed(p)
      /\ fns \subseteq OfKind(p, "fn") /\ consts \subseteq OfKind(p, "const")
      /\ structs \subseteq OfKind(p, "struct") /\ enums \subseteq OfKind(p, "enum")
      /\ binds \subseteq Binds(p)
  <2>1. binds \subseteq Binds(p)
    BY DEF ExportedBinds, Visible
  <2>2. \A k : Visible(OfKind(p, k)) \subseteq OfKind(p, k)
    BY DEF Visible
  <2> QED BY <2>1, <2>2, KindsAreTyped, BindsAreTyped, Zenon
<1>3. /\ OnceEach(fns \cup binds) /\ OnceEach(consts)
      /\ OnceEach(structs) /\ OnceEach(enums)
  BY <1>2 DEF Accepted, TypeNamesAreFree, ValueNamesAreFree, OnceEach
<1>4. ASSUME NEW S, OnceEach(S)
      PROVE  /\ \A d \in S : d.name \in NamesOf(S) /\ Named(S, d.name) = d
             /\ \A n \in NamesOf(S) : \E d \in S : d.name = n
  BY <1>4 DEF OnceEach, NamesOf, Named
<1>5. OnceEach(fns) /\ OnceEach(binds)
  BY <1>3 DEF OnceEach
<1> HIDE DEF fns, consts, structs, enums, binds
<1>6. \A n \in NamesOf(fns) : e.funcs[n].types = ExportTypes(p, Named(fns, n))
                           /\ e.funcs[n].token = FuncToken(p, Named(fns, n).name)
  BY DEF BuildExports, fns
<1>7. \A n \in NamesOf(binds) \ NamesOf(fns) : e.funcs[n].types = ExportTypes(p, Named(binds, n))
  BY DEF BuildExports, fns, binds
<1>8. DOMAIN e.funcs = NamesOf(fns) \cup NamesOf(binds)
  BY DEF BuildExports, fns, binds
<1>9. DOMAIN e.consts = NamesOf(consts)
      /\ \A n \in NamesOf(consts) : e.consts[n].types = ExportTypes(p, Named(consts, n))
  BY DEF BuildExports, consts
<1>10. DOMAIN e.structs = NamesOf(structs)
      /\ \A n \in NamesOf(structs) : /\ e.structs[n].types = ExportTypes(p, Named(structs, n))
                                     /\ e.structs[n].goName = GoName(p, Named(structs, n).name)
  BY DEF BuildExports, structs
<1>11. DOMAIN e.enums = NamesOf(enums)
      /\ \A n \in NamesOf(enums) : /\ e.enums[n].types = ExportTypes(p, Named(enums, n))
                                   /\ e.enums[n].goName = GoName(p, Named(enums, n).name)
  BY DEF BuildExports, enums
<1> HIDE DEF e
<1>12. \A d \in fns \cup binds : d.name \in DOMAIN e.funcs /\ e.funcs[d.name].types = CrossingTypes(p, d)
  <2> SUFFICES ASSUME NEW d \in fns \cup binds
               PROVE  d.name \in DOMAIN e.funcs /\ e.funcs[d.name].types = CrossingTypes(p, d)
    OBVIOUS
  <2>1. CASE d \in fns
    <3>1. d.name \in NamesOf(fns) /\ Named(fns, d.name) = d
      BY <2>1, <1>4, <1>5
    <3> QED BY <3>1, <2>1, <1>6, <1>8, <1>1, <1>2, Zenon
  <2>2. CASE d \in binds /\ d \notin fns
    <3>1. d.name \in NamesOf(binds) /\ Named(binds, d.name) = d
      BY <2>2, <1>4, <1>5
    <3>2. d.name \notin NamesOf(fns)
      BY <2>2, <1>3 DEF OnceEach, NamesOf
    <3> QED BY <3>1, <3>2, <2>2, <1>7, <1>8, <1>1, <1>2, Zenon
  <2> QED BY <2>1, <2>2
<1>13. \A d \in consts : d.name \in DOMAIN e.consts /\ e.consts[d.name].types = CrossingTypes(p, d)
  BY <1>1, <1>2, <1>3, <1>4, <1>9, Zenon
<1>14. \A d \in structs : d.name \in DOMAIN e.structs /\ e.structs[d.name].types = CrossingTypes(p, d)
  BY <1>1, <1>2, <1>3, <1>4, <1>10, Zenon
<1>15. \A d \in enums : d.name \in DOMAIN e.enums /\ e.enums[d.name].types = CrossingTypes(p, d)
  BY <1>1, <1>2, <1>3, <1>4, <1>11, Zenon
<1>16. \A n \in DOMAIN e.structs : n \in StructsIn(p) \cap Capitalised /\ e.structs[n].goName = GoName(p, n)
  <2> SUFFICES ASSUME NEW n \in DOMAIN e.structs
               PROVE  n \in StructsIn(p) \cap Capitalised /\ e.structs[n].goName = GoName(p, n)
    OBVIOUS
  <2>1. PICK d \in structs : d.name = n /\ Named(structs, n) = d
    BY <1>3, <1>4, <1>10
  <2> QED BY <2>1, <1>2, <1>10 DEF StructsIn, structs, Visible
<1>17. \A n \in DOMAIN e.enums : n \in EnumsIn(p) \cap Capitalised /\ e.enums[n].goName = GoName(p, n)
  <2> SUFFICES ASSUME NEW n \in DOMAIN e.enums
               PROVE  n \in EnumsIn(p) \cap Capitalised /\ e.enums[n].goName = GoName(p, n)
    OBVIOUS
  <2>1. PICK d \in enums : d.name = n /\ Named(enums, n) = d
    BY <1>3, <1>4, <1>11
  <2> QED BY <2>1, <1>2, <1>11 DEF EnumsIn, enums, Visible
<1>18. \A d \in fns : e.funcs[d.name].token = FuncToken(p, d.name)
  BY <1>4, <1>5, <1>6, Zenon
<1> QED BY <1>12, <1>13, <1>14, <1>15, <1>16, <1>17, <1>18 DEF e, fns, consts, structs, enums, binds

LEMMA AcceptedIsSound ==
  ASSUME NEW p, p \in Packages, Accepted(p),
         \A a \in DOMAIN Imports[p] : ExportsAre(Imports[p][a])
  PROVE  Sound(p)
<1>1. \A d \in Typed(p) : \A te \in Range(d.types) : Names(p, te)
  BY HeldIs DEF Accepted
<1>2. Prefix[p] = "" => \E d \in OfKind(p, "fn") : d.name = "main"
  BY DEF Accepted, HasMain
<1>3. \A d \in OfKind(p, "const") : ~d.types[1].list
  BY DEF Accepted, ConstsAreConstant
<1> QED BY <1>1, <1>2, <1>3 DEF Sound, Accepted

\* None of this depends on more than the declarations and the package's own
\* tables.
LEMMA SameDecls ==
  ASSUME decls' = decls, NEW p
  PROVE  /\ Sound(p)' <=> Sound(p)
         /\ exports'[p] = exports[p] => (ExportsAre(p)' <=> ExportsAre(p))
         /\ Externs(p)' = Externs(p) /\ OfKind(p, "fn")' = OfKind(p, "fn")
         /\ \A x : ExternTarget(p, x)' = ExternTarget(p, x)
<1>1. /\ Externs(p)' = Externs(p) /\ Binds(p)' = Binds(p) /\ Typed(p)' = Typed(p)
      /\ \A k : OfKind(p, k)' = OfKind(p, k)
  BY DEF Externs, Binds, Typed, OfKind
<1>2. /\ TypeNamesAreFree(p)' <=> TypeNamesAreFree(p)
      /\ ValueNamesAreFree(p)' <=> ValueNamesAreFree(p)
  <2>1. ExternTypesIn(p)' = ExternTypesIn(p) /\ StructsIn(p)' = StructsIn(p) /\ EnumsIn(p)' = EnumsIn(p)
    BY <1>1 DEF ExternTypesIn, StructsIn, EnumsIn
  <2>2. TypeNamesAreFree(p)' <=> TypeNamesAreFree(p)
    BY decls' = decls DEF TypeNamesAreFree, OnceEach, Externs, ExternTypesIn, StructsIn, EnumsIn, OfKind
  <2>3. ValueNamesAreFree(p)' <=> ValueNamesAreFree(p)
    BY <1>1 DEF ValueNamesAreFree, OnceEach
  <2> QED BY <2>2, <2>3
<1>3. \A q, te : Names(q, te)' <=> Names(q, te)
  BY DEF Names, KnownHere, OwnNames, StructsIn, EnumsIn, ExternTypesIn, Externs, OfKind
<1>4. Sound(p)' <=> Sound(p)
  BY <1>1, <1>2, <1>3 DEF Sound
<1>5. \A d : CrossingTypes(p, d)' = CrossingTypes(p, d)
  BY DEF CrossingTypes, Crossing, Held, OwnNames, StructsIn, EnumsIn, OfKind
<1>6. /\ ExportedBinds(p)' = ExportedBinds(p)
      /\ \A k : Visible(OfKind(p, k))' = Visible(OfKind(p, k))
  BY <1>1 DEF ExportedBinds, Visible
<1>7. exports'[p] = exports[p] => (ExportsAre(p)' <=> ExportsAre(p))
  <2> SUFFICES ASSUME exports'[p] = exports[p] PROVE ExportsAre(p)' <=> ExportsAre(p)
    OBVIOUS
  <2>1. \A table, S : Tabled(p, table, S)' <=> Tabled(p, table, S)
    BY <1>5 DEF Tabled
  <2>2. StructsIn(p)' = StructsIn(p) /\ EnumsIn(p)' = EnumsIn(p)
    BY <1>1 DEF StructsIn, EnumsIn
  <2> QED BY <1>6, <2>1, <2>2, Zenon DEF ExportsAre
<1> QED BY <1>1, <1>4, <1>7 DEF ExternTarget

LEMMA InitCompile == CompileInit => CompileInv
<1> SUFFICES ASSUME CompileInit PROVE CompileInv
  OBVIOUS
<1>1. \A i \in DOMAIN Order : ~CheckedBefore(i)
  BY OrderIs DEF CompileInit, CheckedBefore
<1> QED BY <1>1, OrderIs DEF CompileInit, CompileInv

LEMMA CheckCompile ==
  ASSUME CompileInv, CheckPackage
  PROVE  CompileInv'
<1> PICK k, p : k = pos /\ p = Order[k]
  OBVIOUS
<1>1. /\ stage = "check" /\ Accepted(p) /\ ExternsAgree(p)
      /\ exports' = [exports EXCEPT ![p] = BuildExports(p)]
      /\ externMap' = BindAliases(p) /\ decls' = decls
      /\ IF pos < Len(Order) THEN pos' = pos + 1 /\ stage' = "check"
         ELSE pos' = 1 /\ stage' = "generate"
  BY DEF CheckPackage
<1>2. /\ decls \in Declarations /\ pos \in 1 .. Len(Order) /\ p \in Packages
      /\ exports = [q \in Packages |-> exports[q]]
  BY OrderIs DEF CompileInv
<1>3. \A i \in DOMAIN Order : i < pos => Sound(Order[i]) /\ ExportsAre(Order[i]) /\ AliasesBound(Order[i])
  BY <1>1 DEF CompileInv, CheckedBefore
<1>4. \A a \in DOMAIN Imports[p] : ExportsAre(Imports[p][a])
  BY <1>2, <1>3, ImportsAre, OrderIs
<1>5. /\ exports'[p] = BuildExports(p)
      /\ \A q \in Packages \ {p} : exports'[q] = exports[q]
      /\ exports' = [q \in Packages |-> exports'[q]]
  BY <1>1, <1>2
<1>6. Sound(p)'
  BY <1>1, <1>2, <1>4, AcceptedIsSound, SameDecls
<1>7. ExportsAre(p)'
  <2>1. \A d : CrossingTypes(p, d)' = CrossingTypes(p, d)
    BY <1>1 DEF CrossingTypes, Crossing, Held, OwnNames, StructsIn, EnumsIn, OfKind
  <2>2. /\ ExportedBinds(p)' = ExportedBinds(p)
        /\ \A kind : Visible(OfKind(p, kind))' = Visible(OfKind(p, kind))
        /\ StructsIn(p)' = StructsIn(p) /\ EnumsIn(p)' = EnumsIn(p)
    BY <1>1 DEF ExportedBinds, Visible, Binds, Externs, OfKind, StructsIn, EnumsIn
  <2> DEFINE e == BuildExports(p)
  <2>3. exports'[p] = e
    BY <1>5
  <2>4. /\ Tabled(p, "funcs", Visible(OfKind(p, "fn")) \cup ExportedBinds(p))'
        /\ Tabled(p, "consts", Visible(OfKind(p, "const")))'
        /\ Tabled(p, "structs", Visible(OfKind(p, "struct")))'
        /\ Tabled(p, "enums", Visible(OfKind(p, "enum")))'
    <3>1. /\ \A d \in Visible(OfKind(p, "fn")) \cup ExportedBinds(p) :
               d.name \in DOMAIN e.funcs /\ e.funcs[d.name].types = CrossingTypes(p, d)
          /\ \A d \in Visible(OfKind(p, "const")) :
               d.name \in DOMAIN e.consts /\ e.consts[d.name].types = CrossingTypes(p, d)
          /\ \A d \in Visible(OfKind(p, "struct")) :
               d.name \in DOMAIN e.structs /\ e.structs[d.name].types = CrossingTypes(p, d)
          /\ \A d \in Visible(OfKind(p, "enum")) :
               d.name \in DOMAIN e.enums /\ e.enums[d.name].types = CrossingTypes(p, d)
      BY <1>1, <1>4, BuiltExports
    <3> HIDE DEF e
    <3> QED BY <3>1, <2>1, <2>2, <2>3 DEF Tabled
  <2>5. /\ \A n \in DOMAIN e.structs : n \in StructsIn(p) \cap Capitalised /\ e.structs[n].goName = GoName(p, n)
        /\ \A n \in DOMAIN e.enums : n \in EnumsIn(p) \cap Capitalised /\ e.enums[n].goName = GoName(p, n)
        /\ \A d \in Visible(OfKind(p, "fn")) : e.funcs[d.name].token = FuncToken(p, d.name)
    BY <1>1, <1>4, BuiltExports
  <2> HIDE DEF e
  <2> QED BY <2>2, <2>3, <2>4, <2>5 DEF ExportsAre
<1>8. /\ DOMAIN externMap \subseteq DOMAIN externMap'
      /\ \A a \in DOMAIN externMap : externMap'[a] = externMap[a]
      /\ \A x \in Externs(p) : x.name \in DOMAIN externMap' /\ externMap'[x.name] = ExternTarget(p, x)
  <2>1. \A x \in Externs(p) : x.name \in NamesOf(Externs(p)) /\ Named(Externs(p), x.name) = x
    BY <1>1 DEF Accepted, TypeNamesAreFree, OnceEach, NamesOf, Named
  <2>2. \A a \in NamesOf(Externs(p)) : \E x \in Externs(p) : a = x.name
    BY DEF NamesOf
  <2> QED BY <1>1, <2>1, <2>2 DEF BindAliases, ExternsAgree
<1>9. ASSUME NEW i \in DOMAIN Order, CheckedBefore(i)'
      PROVE  Sound(Order[i])' /\ ExportsAre(Order[i])' /\ AliasesBound(Order[i])'
  <2>1. i < pos \/ i = pos
    BY <1>1, <1>2, <1>9, OrderIs DEF CheckedBefore
  <2>2. CASE i < pos
    <3>1. Order[i] \in Packages \ {p}
      BY <2>2, <1>2, OrderIs
    <3>2. Sound(Order[i])' /\ ExportsAre(Order[i])'
      BY <3>1, <2>2, <1>1, <1>3, <1>5, SameDecls
    <3>3. AliasesBound(Order[i])'
      BY <2>2, <1>1, <1>3, <1>8, SameDecls DEF AliasesBound
    <3> QED BY <3>2, <3>3
  <2>3. CASE i = pos
    BY <2>3, <1>1, <1>6, <1>7, <1>8, SameDecls DEF AliasesBound
  <2> QED BY <2>1, <2>2, <2>3
<1>10. stage' \in {"check", "generate", "done", "failed"} /\ pos' \in DOMAIN Order
  BY <1>1, <1>2, OrderIs
<1> QED BY <1>1, <1>2, <1>5, <1>9, <1>10 DEF CompileInv

LEMMA KeepsCompile ==
  ASSUME CompileInv, decls' = decls, exports' = exports, externMap' = externMap,
         stage' \in {"check", "generate", "done", "failed"}, pos' \in DOMAIN Order,
         \A i \in DOMAIN Order : CheckedBefore(i)' => CheckedBefore(i)
  PROVE  CompileInv'
<1>1. ASSUME NEW i \in DOMAIN Order, CheckedBefore(i)
      PROVE  Sound(Order[i])' /\ ExportsAre(Order[i])' /\ AliasesBound(Order[i])'
  BY <1>1, SameDecls DEF CompileInv, AliasesBound
<1> QED BY <1>1 DEF CompileInv

LEMMA NextCompile == CompileInv /\ [CompileNext]_compileVars => CompileInv'
<1> SUFFICES ASSUME CompileInv, [CompileNext]_compileVars PROVE CompileInv'
  OBVIOUS
<1>1. pos \in DOMAIN Order /\ pos \in 1 .. Len(Order) /\ Len(Order) \in Nat /\ DOMAIN Order = 1 .. Len(Order)
  BY OrderIs DEF CompileInv
<1>2. CASE CheckPackage
  BY <1>2, CheckCompile
<1>3. CASE RefusePackage
  BY <1>1, <1>3, KeepsCompile DEF RefusePackage, CheckedBefore
<1>4. CASE GenerateUnit
  <2>1. /\ stage = "generate" /\ decls' = decls /\ exports' = exports /\ externMap' = externMap
        /\ IF pos < Len(Order) THEN pos' = pos + 1 /\ stage' = stage ELSE pos' = pos /\ stage' = "done"
    BY <1>4 DEF GenerateUnit
  <2>2. pos' \in DOMAIN Order
    BY <1>1, <2>1
  <2> QED BY <2>1, <2>2, KeepsCompile DEF CheckedBefore
<1>5. CASE RefuseUnit
  BY <1>1, <1>5, KeepsCompile DEF RefuseUnit, CheckedBefore
<1>6. CASE UNCHANGED compileVars
  BY <1>1, <1>6, KeepsCompile DEF compileVars, CheckedBefore, CompileInv
<1> QED BY <1>2, <1>3, <1>4, <1>5, <1>6 DEF CompileNext

\* Whatever the packages declare, the tables of every package already checked
\* hold its exported declarations under the names its own package gives the
\* types in them (buildExports, exportTypeString).
THEOREM TablesHold == CompileSpec => []CompileInv
BY InitCompile, NextCompile, PTL DEF CompileSpec

\* Whatever the packages declare, an extern alias that was accepted is bound
\* to what its own block says (the externMap of compileToIR).
THEOREM AliasesMeanOnePackage == CompileSpec => []ExternAliasesMeanOnePackage
<1>1. CompileInv => ExternAliasesMeanOnePackage
  BY DEF CompileInv, AliasesBound, ExternTarget, GoPackage, ExternAliasesMeanOnePackage
<1> QED BY <1>1, TablesHold, PTL

(***************************************************************************)
(* A type and what it means, when the names of the output are apart.       *)
(***************************************************************************)

\* In the checker of package p, type t is the declaration of m.
StandsFor(p, t, m) ==
  \/ \E n \in Scalars :
       m.declaration = <<n>> /\ t = [list |-> m.list, qualified |-> FALSE, name |-> n]
  \/ \E n \in OwnNames(p) :
       m.declaration = <<p, n>> /\ t = [list |-> m.list, qualified |-> FALSE, name |-> n]
  \/ \E q \in Packages \ {p} : \E n \in OwnNames(q) :
       m.declaration = <<q, n>> /\ t = [list |-> m.list, qualified |-> TRUE, name |-> GoName(q, n)]

\* A type of an extern block of a package no later than Order[i] goes by its
\* own name wherever it gets.
BareExtern(i, t, m) ==
  \E j \in 1 .. i : \E x \in Externs(Order[j]) : \E n \in x.types :
    m.declaration = <<"extern", GoPackage(Order[j], x), n>> /\ t = [list |-> m.list, qualified |-> FALSE, name |-> n]

LEMMA OwnNamesApart ==
  ASSUME TypeNamesApart, decls \in Declarations,
         NEW p \in Packages, NEW q \in Packages, NEW n \in OwnNames(p), NEW m \in OwnNames(q)
  PROVE  n \notin Scalars /\ (GoName(p, n) = GoName(q, m) => p = q /\ n = m)
<1>1. PICK d \in decls[p] : IsType(d) /\ d.name = n
  BY DEF OwnNames, StructsIn, EnumsIn, OfKind, IsType
<1>2. PICK e \in decls[q] : IsType(e) /\ e.name = m
  BY DEF OwnNames, StructsIn, EnumsIn, OfKind, IsType
<1>3. /\ d.name \notin Scalars
      /\ GoName(p, d.name) = GoName(q, e.name) => p = q /\ d.name = e.name
  <2>1. \A x \in decls[p], y \in decls[q] : IsType(x) /\ IsType(y) =>
          /\ x.name \notin Scalars
          /\ GoName(p, x.name) = GoName(q, y.name) => p = q /\ x.name = y.name
    BY DEF TypeNamesApart
  <2> QED BY <1>1, <1>2, <2>1
<1> QED BY <1>1, <1>2, <1>3

LEMMA CanonicalEqual ==
  ASSUME NEW a, NEW f, NEW n, NEW b, NEW g, NEW m
  PROVE  [list |-> a, qualified |-> f, name |-> n] = [list |-> b, qualified |-> g, name |-> m]
           <=> a = b /\ f = g /\ n = m
<1> DEFINE t == [list |-> a, qualified |-> f, name |-> n]
           u == [list |-> b, qualified |-> g, name |-> m]
<1>1. t.list = a /\ t.qualified = f /\ t.name = n /\ u.list = b /\ u.qualified = g /\ u.name = m
  OBVIOUS
<1>2. t = u => a = b /\ f = g /\ n = m
  <2> HIDE DEF t, u
  <2> QED BY <1>1
<1> QED BY <1>2, Zenon

LEMMA TupleEqual ==
  /\ \A a, b : <<a>> = <<b>> => a = b
  /\ \A a, b, c, d : <<a, b>> = <<c, d>> => a = c
  /\ \A a, b, c, d : <<a, b>> = <<c, d>> => b = d
  /\ \A a, b, c : <<a>> # <<b, c>>
  /\ \A a, b, c, d : <<a>> # <<b, c, d>>
  /\ \A a, b, c, d, e : <<a, b>> # <<c, d, e>>
  /\ \A a, b, c, d, e, f : <<a, b, c>> = <<d, e, f>> => b = e
  /\ \A a, b, c, d, e, f : <<a, b, c>> = <<d, e, f>> => c = f
OBVIOUS

LEMMA StandsApart ==
  ASSUME TypeNamesApart, decls \in Declarations, NEW p \in Packages,
         NEW t, NEW u, NEW a, NEW b, NEW x, NEW y,
         StandsFor(p, t, [list |-> a, declaration |-> x]),
         StandsFor(p, u, [list |-> b, declaration |-> y])
  PROVE  t = u <=> a = b /\ x = y
<1> DEFINE Scalar(v, l, z) == \E n \in Scalars :
             z = <<n>> /\ v = [list |-> l, qualified |-> FALSE, name |-> n]
           Own(v, l, z) == \E n \in OwnNames(p) :
             z = <<p, n>> /\ v = [list |-> l, qualified |-> FALSE, name |-> n]
           Other(v, l, z) == \E q \in Packages \ {p} : \E n \in OwnNames(q) :
             z = <<q, n>> /\ v = [list |-> l, qualified |-> TRUE, name |-> GoName(q, n)]
<1>1. /\ Scalar(t, a, x) \/ Own(t, a, x) \/ Other(t, a, x)
      /\ Scalar(u, b, y) \/ Own(u, b, y) \/ Other(u, b, y)
  BY DEF StandsFor
<1>2. CASE Scalar(t, a, x) /\ Scalar(u, b, y)
  <2>1. PICK n \in Scalars : x = <<n>> /\ t = [list |-> a, qualified |-> FALSE, name |-> n]
    BY <1>2
  <2>2. PICK m \in Scalars : y = <<m>> /\ u = [list |-> b, qualified |-> FALSE, name |-> m]
    BY <1>2
  <2> QED BY <2>1, <2>2, CanonicalEqual, TupleEqual
<1>3. CASE Own(t, a, x) /\ Own(u, b, y)
  <2>1. PICK n \in OwnNames(p) : x = <<p, n>> /\ t = [list |-> a, qualified |-> FALSE, name |-> n]
    BY <1>3
  <2>2. PICK m \in OwnNames(p) : y = <<p, m>> /\ u = [list |-> b, qualified |-> FALSE, name |-> m]
    BY <1>3
  <2> QED BY <2>1, <2>2, CanonicalEqual, TupleEqual
<1>4. CASE Other(t, a, x) /\ Other(u, b, y)
  <2>1. PICK q, n : /\ q \in Packages \ {p} /\ n \in OwnNames(q)
                       /\ x = <<q, n>>
                       /\ t = [list |-> a, qualified |-> TRUE, name |-> GoName(q, n)]
    BY <1>4
  <2>2. PICK r, m : /\ r \in Packages \ {p} /\ m \in OwnNames(r)
                       /\ y = <<r, m>>
                       /\ u = [list |-> b, qualified |-> TRUE, name |-> GoName(r, m)]
    BY <1>4
  <2>3. GoName(q, n) = GoName(r, m) => q = r /\ n = m
    BY <2>1, <2>2, OwnNamesApart, Zenon
  <2> QED BY <2>1, <2>2, <2>3, CanonicalEqual, TupleEqual
<1>5. CASE \/ Scalar(t, a, x) /\ Own(u, b, y)
           \/ Own(t, a, x) /\ Scalar(u, b, y)
  BY <1>5, OwnNamesApart, CanonicalEqual, TupleEqual
<1>6. CASE \/ Other(t, a, x) /\ (Scalar(u, b, y) \/ Own(u, b, y))
           \/ Other(u, b, y) /\ (Scalar(t, a, x) \/ Own(t, a, x))
  BY <1>6, CanonicalEqual, TupleEqual
<1> QED BY <1>1, <1>2, <1>3, <1>4, <1>5, <1>6

\* The packages an expression of Order[i] can reach are before it.
LEMMA ReachesEarlier ==
  ASSUME NEW i \in DOMAIN Order, NEW a \in DOMAIN Imports[Order[i]]
  PROVE  /\ Imports[Order[i]][a] \in Packages
         /\ \A k \in DOMAIN Order : k >= i => Imports[Order[i]][a] # Order[k]
BY ImportsAre, OrderIs

LEMMA ExternMeaning ==
  ASSUME NEW p, NEW te, te.alias = "", te.name \notin Scalars, te.name \in ExternTypesIn(p)
  PROVE  \E x \in Externs(p) : te.name \in x.types /\ Meaning(p, te) = <<"extern", GoPackage(p, x), te.name>>
<1>1. \E x \in Externs(p) : te.name \in x.types
  BY DEF ExternTypesIn
<1> DEFINE y == CHOOSE x \in Externs(p) : te.name \in x.types
<1>2. y \in Externs(p) /\ te.name \in y.types
  BY <1>1
<1>3. Meaning(p, te) = <<"extern", GoPackage(p, y), te.name>>
  BY DEF Meaning
<1> HIDE DEF y
<1> QED BY <1>2, <1>3

LEMMA HeldStands ==
  ASSUME NEW i \in DOMAIN Order, NEW te, Names(Order[i], te)
  PROVE  \/ StandsFor(Order[i], Held(Order[i], te), Means(Order[i], te))
         \/ BareExtern(i, Held(Order[i], te), Means(Order[i], te))
<1> DEFINE p == Order[i]
<1>1. p \in Packages /\ i \in Int /\ i >= 1
  BY OrderIs
<1>2. Means(p, te).list = te.list /\ Means(p, te).declaration = Meaning(p, te)
  BY DEF Means
<1>3. CASE te.alias = ""
  <2>1. te.name \in Scalars \/ te.name \in OwnNames(p) \/ te.name \in ExternTypesIn(p)
    BY <1>3 DEF Names, KnownHere, OwnNames
  <2>2. i \in 1 .. i
    BY <1>1
  <2>3. CASE te.name \in ExternTypesIn(p) /\ te.name \notin Scalars
    <3>1. PICK x \in Externs(p) :
            te.name \in x.types /\ Meaning(p, te) = <<"extern", GoPackage(p, x), te.name>>
      BY <1>3, <2>3, ExternMeaning
    <3> QED BY <1>2, <1>3, <2>2, <3>1 DEF Held, BareExtern
  <2>4. CASE te.name \in Scalars \/ (te.name \in OwnNames(p) /\ te.name \notin ExternTypesIn(p))
    BY <1>2, <1>3, <2>4 DEF Held, Meaning, StandsFor
  <2> QED BY <2>1, <2>3, <2>4
<1>4. CASE te.alias # ""
  <2> DEFINE q == Imports[p][te.alias]
  <2>1. q \in Packages \ {p} /\ te.name \in OwnNames(q)
    <3>1. te.alias \in DOMAIN Imports[p] /\ te.name \in OwnNames(q)
      BY <1>4 DEF Names
    <3>2. q \in Packages /\ \A k \in DOMAIN Order : k >= i => q # Order[k]
      BY <3>1, ReachesEarlier, Zenon
    <3> QED BY <1>1, <3>1, <3>2
  <2>2. Held(p, te) = [list |-> te.list, qualified |-> TRUE, name |-> GoName(q, te.name)]
    BY <1>4 DEF Held
  <2>3. Meaning(p, te) = <<q, te.name>>
    BY <1>4 DEF Meaning
  <2> QED BY <1>2, <2>1, <2>2, <2>3 DEF StandsFor
<1> QED BY <1>3, <1>4

LEMMA CrossingStands ==
  ASSUME NEW i \in DOMAIN Order, NEW k \in DOMAIN Order, k > i,
         TypeNamesApart, decls \in Declarations, Sound(Order[i]),
         NEW te, Names(Order[i], te)
  PROVE  \/ StandsFor(Order[k], Crossing(Order[i], te), Means(Order[i], te))
         \/ BareExtern(k, Crossing(Order[i], te), Means(Order[i], te))
<1> DEFINE q == Order[i]
           p == Order[k]
<1>1. q \in Packages /\ p \in Packages /\ q # p /\ i \in Int /\ k \in Int /\ i >= 1
  BY OrderIs
<1>2. Means(q, te).list = te.list /\ Means(q, te).declaration = Meaning(q, te)
  BY DEF Means
<1>3. CASE te.alias = "" /\ te.name \in OwnNames(q)
  <2>1. te.name \notin Scalars /\ te.name \notin ExternTypesIn(q)
    BY <1>1, <1>3, OwnNamesApart DEF Sound, TypeNamesAreFree, OwnNames
  <2> QED BY <1>1, <1>2, <1>3, <2>1 DEF Crossing, Meaning, StandsFor
<1>4. CASE te.alias = "" /\ te.name \notin OwnNames(q)
  <2>1. te.name \in Scalars \/ te.name \in ExternTypesIn(q)
    BY <1>4 DEF Names, KnownHere, OwnNames
  <2>2. CASE te.name \in Scalars
    BY <1>2, <1>4, <2>2 DEF Crossing, Held, Meaning, StandsFor
  <2>3. CASE te.name \in ExternTypesIn(q) /\ te.name \notin Scalars
    <3>1. i \in 1 .. k
      BY <1>1
    <3>2. PICK x \in Externs(q) :
            te.name \in x.types /\ Meaning(q, te) = <<"extern", GoPackage(q, x), te.name>>
      BY <1>4, <2>3, ExternMeaning
    <3> QED BY <1>2, <1>4, <3>1, <3>2 DEF Crossing, Held, BareExtern
  <2> QED BY <2>1, <2>2, <2>3
<1>5. CASE te.alias # ""
  <2> DEFINE r == Imports[q][te.alias]
  <2>1. r \in Packages \ {p} /\ te.name \in OwnNames(r)
    <3>1. te.alias \in DOMAIN Imports[q] /\ te.name \in OwnNames(r)
      BY <1>5 DEF Names
    <3>2. r \in Packages /\ \A j \in DOMAIN Order : j >= i => r # Order[j]
      BY <3>1, ReachesEarlier, Zenon
    <3> QED BY <1>1, <3>1, <3>2
  <2>2. Crossing(q, te) = [list |-> te.list, qualified |-> TRUE, name |-> GoName(r, te.name)]
    BY <1>5 DEF Crossing, Held
  <2>3. Meaning(q, te) = <<r, te.name>>
    BY <1>5 DEF Meaning
  <2> QED BY <1>2, <2>1, <2>2, <2>3 DEF StandsFor
<1> QED BY <1>3, <1>4, <1>5

LEMMA ImportedAre ==
  ASSUME NEW q, ExportsAre(q), Sound(q), NEW S, NEW table,
         \/ table = "funcs" /\ S = Visible(OfKind(q, "fn")) \cup ExportedBinds(q)
         \/ table = "consts" /\ S = Visible(OfKind(q, "const"))
         \/ table = "structs" /\ S = Visible(OfKind(q, "struct"))
         \/ table = "enums" /\ S = Visible(OfKind(q, "enum")),
         NEW u \in Imported(q, table, S)
  PROVE  \E te : Names(q, te) /\ u = [type |-> Crossing(q, te), means |-> Means(q, te)]
<1>1. S \subseteq Typed(q)
  <2>1. ExportedBinds(q) \subseteq Binds(q)
    BY DEF ExportedBinds, Visible
  <2>2. \A k : Visible(OfKind(q, k)) \subseteq OfKind(q, k)
    BY DEF Visible
  <2> QED BY <2>1, <2>2, KindsAreTyped, BindsAreTyped
<1>2. PICK d, j :
        /\ d \in S /\ j \in DOMAIN d.types
        /\ u = [type |-> exports[q][table][d.name].types[j], means |-> Means(q, d.types[j])]
  BY DEF Imported
<1>3. exports[q][table][d.name].types = CrossingTypes(q, d)
  <2>1. Tabled(q, table, S)
    BY DEF ExportsAre, Tabled
  <2> QED BY <1>2, <2>1 DEF Tabled
<1>4. exports[q][table][d.name].types[j] = Crossing(q, d.types[j])
  BY <1>2, <1>3 DEF CrossingTypes
<1>5. Names(q, d.types[j])
  BY <1>1, <1>2 DEF Sound, Range
<1> QED BY <1>2, <1>4, <1>5

LEMMA NamesResolve ==
  ASSUME NEW p, NEW te, Names(p, te), \A a \in DOMAIN Imports[p] : ExportsAre(Imports[p][a])
  PROVE  Resolve(p, te) = Held(p, te)
<1>1. CASE te.alias = ""
  BY <1>1 DEF Resolve, Held
<1>2. CASE te.alias # ""
  <2> DEFINE q == Imports[p][te.alias]
  <2>1. te.name \in OwnNames(q) \cap Capitalised /\ ExportsAre(q)
    BY <1>2 DEF Names
  <2>2. te.name \in DOMAIN exports[q].structs \cup DOMAIN exports[q].enums
    BY <2>1 DEF OwnNames, StructsIn, EnumsIn, Visible, ExportsAre, Tabled
  <2>3. ExportedGoName(q, te.name) = GoName(q, te.name)
    BY <2>1, <2>2 DEF ExportedGoName, ExportsAre
  <2> QED BY <1>2, <2>3 DEF Resolve, Held
<1> QED BY <1>1, <1>2

\* Every type the checker holds while it checks a package stands for the
\* declaration it means.
LEMMA HeldTypesStand ==
  ASSUME TypeNamesApart, CompileInv, NEW i \in DOMAIN Order, CheckedBefore(i),
         NEW u \in HeldTypes(Order[i])
  PROVE  /\ StandsFor(Order[i], u.type, u.means) \/ BareExtern(i, u.type, u.means)
         /\ u = [type |-> u.type, means |-> [list |-> u.means.list, declaration |-> u.means.declaration]]
<1> PICK p : p = Order[i]
  OBVIOUS
<1>1. /\ p \in Packages /\ decls \in Declarations /\ i \in Int
      /\ \A j \in DOMAIN Order : j <= i => CheckedBefore(j)
      /\ \A j \in DOMAIN Order : j <= i => Sound(Order[j]) /\ ExportsAre(Order[j])
  BY OrderIs DEF CompileInv, CheckedBefore
<1>2. ASSUME NEW a \in DOMAIN Imports[p]
      PROVE  \E j \in DOMAIN Order : j < i /\ Imports[p][a] = Order[j]
  <2>1. PICK j \in 1 .. i - 1 : j \in DOMAIN Order /\ Imports[p][a] = Order[j]
    BY ImportsAre
  <2> QED BY <1>1, <2>1
<1>3. Sound(p) /\ \A a \in DOMAIN Imports[p] : ExportsAre(Imports[p][a])
  BY <1>1, <1>2, OrderIs
<1>4. CASE u \in OwnTypes(p)
  <2>1. PICK d, te :
          d \in Typed(p) /\ te \in Range(d.types) /\ u = [type |-> Resolve(p, te), means |-> Means(p, te)]
    BY <1>4 DEF OwnTypes
  <2>2. Names(p, te)
    BY <1>3, <2>1 DEF Sound
  <2>3. Resolve(p, te) = Held(p, te)
    BY <1>3, <2>2, NamesResolve
  <2> QED BY <2>1, <2>2, <2>3, HeldStands DEF Means
<1>5. CASE u \in ImportedTypes(p)
  <2>1. PICK a \in DOMAIN Imports[p] :
          LET q == Imports[p][a]
          IN u \in Imported(q, "funcs", Visible(OfKind(q, "fn")) \cup ExportedBinds(q))
                   \cup Imported(q, "consts", Visible(OfKind(q, "const")))
                   \cup Imported(q, "structs", Visible(OfKind(q, "struct")))
                   \cup Imported(q, "enums", Visible(OfKind(q, "enum")))
    BY <1>5 DEF ImportedTypes, Range
  <2>2. PICK j \in DOMAIN Order : j < i /\ Imports[p][a] = Order[j]
    BY <1>2
  <2>3. Sound(Order[j]) /\ ExportsAre(Order[j]) /\ j \in Int
    BY <1>1, <2>2, OrderIs
  <2>4. PICK te : Names(Order[j], te) /\ u = [type |-> Crossing(Order[j], te), means |-> Means(Order[j], te)]
    <3> DEFINE q == Imports[p][a]
    <3>1. ExportsAre(q) /\ Sound(q) /\ q = Order[j]
      BY <2>2, <2>3
    <3> HIDE DEF q
    <3>2. \A table, S :
             /\ \/ table = "funcs" /\ S = Visible(OfKind(q, "fn")) \cup ExportedBinds(q)
                \/ table = "consts" /\ S = Visible(OfKind(q, "const"))
                \/ table = "structs" /\ S = Visible(OfKind(q, "struct"))
                \/ table = "enums" /\ S = Visible(OfKind(q, "enum"))
             /\ u \in Imported(q, table, S)
             => \E te : Names(q, te) /\ u = [type |-> Crossing(q, te), means |-> Means(q, te)]
      BY <3>1, ImportedAre
    <3>3. \E te : Names(q, te) /\ u = [type |-> Crossing(q, te), means |-> Means(q, te)]
      BY <2>1, <3>2 DEF q
    <3> QED BY <3>1, <3>3
  <2> QED BY <1>1, <2>2, <2>3, <2>4, CrossingStands DEF Means
<1> QED BY <1>4, <1>5 DEF HeldTypes

\* The types of several packages that meet in the checker of one are equal
\* exactly when they are one declaration (makeQualifiedType, exportTypeString),
\* when the names of the output are apart.
THEOREM TypesKeepTheirMeaning ==
  ASSUME TypeNamesApart PROVE CompileSpec => []TypesMeanOneDeclaration
<1>1. CompileInv => TypesMeanOneDeclaration
  <2> SUFFICES ASSUME CompileInv, NEW i \in DOMAIN Order, CheckedBefore(i),
                      NEW x \in HeldTypes(Order[i]), x.means.declaration \notin AnyExternType,
                      NEW y \in HeldTypes(Order[i]), y.means.declaration \notin AnyExternType
               PROVE  x.type = y.type <=> x.means = y.means
    BY DEF TypesMeanOneDeclaration
  <2>1. decls \in Declarations /\ Order[i] \in Packages
    BY OrderIs DEF CompileInv
  <2>2. ASSUME NEW u \in HeldTypes(Order[i]), u.means.declaration \notin AnyExternType
        PROVE  /\ StandsFor(Order[i], u.type, u.means)
               /\ u = [type |-> u.type, means |-> [list |-> u.means.list, declaration |-> u.means.declaration]]
    <3>1. ~BareExtern(i, u.type, u.means)
      <4> SUFFICES ASSUME NEW j \in 1 .. i, NEW z \in Externs(Order[j]), NEW n \in z.types,
                          u.means.declaration = <<"extern", GoPackage(Order[j], z), n>>
                   PROVE  FALSE
        BY DEF BareExtern
      <4>1. Order[j] \in Packages
        BY OrderIs
      <4> QED BY <2>2, <4>1 DEF AnyExternType
    <3> QED BY <3>1, HeldTypesStand
  <2> QED BY <2>1, <2>2, StandsApart
<1> QED BY <1>1, TablesHold, PTL

LEMMA OneRoot ==
  \E r \in Packages : \A p \in Packages : Prefix[p] = "" <=> p = r
<1>1. \A p \in Packages : Prefix[p] = "" <=> p = Last(Order)
  BY PackagesAssumption, Zenon DEF PackagesAssumption
<1>2. Last(Order) \in Packages
  BY OrderIs DEF Last
<1> QED BY <1>1, <1>2

\* A call reaches the function it names: the names functions get in the
\* output are apart, the token a qualified call carries is the name of the
\* function, and one function is the entry (ExportedFunc.Token, genFuncDecl).
THEOREM CallsArrive ==
  ASSUME FunctionNamesApart PROVE CompileSpec => []CallsReachTheirFunction
<1>1. CompileInv => CallsReachTheirFunction
  <2> SUFFICES ASSUME CompileInv, stage = "done" PROVE CallsReachTheirFunction
    BY DEF CallsReachTheirFunction
  <2> DEFINE fns == UNION {{p} \X OfKind(p, "fn") : p \in Packages}
  <2>1. decls \in Declarations /\ \A p \in Packages : Sound(p) /\ ExportsAre(p)
    BY OrderIs DEF CompileInv, CheckedBefore
  <2>2. PICK root \in Packages : \A p \in Packages : Prefix[p] = "" <=> p = root
    BY OneRoot
  <2>3. \A f : f \in fns <=> \E p \in Packages : \E d \in OfKind(p, "fn") : f = <<p, d>>
    OBVIOUS
  <2>4. ASSUME NEW p \in Packages, NEW d \in OfKind(p, "fn")
        PROVE  /\ d.name # "amifl_main"
               /\ \A e \in OfKind(p, "fn") : d.name = e.name => d = e
    BY <2>1 DEF Sound, ValueNamesAreFree, OnceEach
  <2>5. ASSUME NEW p \in Packages, NEW d \in OfKind(p, "fn"), NEW q \in Packages, NEW e \in OfKind(q, "fn")
        PROVE  /\ FuncToken(p, d.name) = FuncToken(q, e.name) => p = q /\ d.name = e.name
               /\ FuncToken(p, d.name) # "!amifl_main"
    <3>1. d \in decls[p] /\ d.kind = "fn" /\ e \in decls[q] /\ e.kind = "fn"
      BY DEF OfKind
    <3>2. FuncToken(p, d.name) = FuncToken(q, e.name) => p = q /\ d.name = e.name
      <4>1. \A D \in Declarations, r, t \in Packages : \A x \in D[r], y \in D[t] :
              x.kind = "fn" /\ y.kind = "fn" =>
                (FuncToken(r, x.name) = FuncToken(t, y.name) => r = t /\ x.name = y.name)
        BY DEF FunctionNamesApart
      <4>2. decls \in Declarations
        BY <2>1
      <4> QED BY <3>1, <4>1, <4>2
    <3>4. FuncToken(p, d.name) = "!amifl_main" => d.name = "amifl_main"
      <4>1. \A D \in Declarations, r \in Packages : \A x \in D[r] :
              x.kind = "fn" /\ FuncToken(r, x.name) = "!amifl_main" => Prefix[r] = "" /\ x.name = "amifl_main"
        BY DEF FunctionNamesApart
      <4>2. decls \in Declarations
        BY <2>1
      <4> QED BY <3>1, <4>1, <4>2
    <3>3. d.name # "amifl_main"
      BY <2>4
    <3> QED BY <3>2, <3>3, <3>4
  <2>6. ASSUME NEW p \in Packages, NEW d \in OfKind(p, "fn")
        PROVE  /\ p = root /\ d.name = "main" => FuncName(p, d) = "!amifl_main"
               /\ ~(p = root /\ d.name = "main") => FuncName(p, d) = FuncToken(p, d.name)
    BY <2>2 DEF FuncName
  <2>7. \A f, g \in fns : FuncName(f[1], f[2]) = FuncName(g[1], g[2]) => f = g
    <3> SUFFICES ASSUME NEW p \in Packages, NEW d \in OfKind(p, "fn"), NEW q \in Packages, NEW e \in OfKind(q, "fn"),
                        FuncName(p, d) = FuncName(q, e)
                 PROVE  p = q /\ d = e
      BY <2>3
    <3>1. p = q /\ d.name = e.name
      BY <2>5, <2>6
    <3> QED BY <3>1, <2>4
  <2>8. \A f \in fns : f[2].name \in Capitalised =>
           exports[f[1]].funcs[f[2].name].token = FuncName(f[1], f[2])
    <3> SUFFICES ASSUME NEW p \in Packages, NEW d \in OfKind(p, "fn"), d.name \in Capitalised
                 PROVE  exports[p].funcs[d.name].token = FuncName(p, d)
      BY <2>3
    <3>1. d.name # "main"
      BY PackagesAssumption DEF PackagesAssumption
    <3>2. exports[p].funcs[d.name].token = FuncToken(p, d.name)
      BY <2>1 DEF ExportsAre, Visible
    <3> QED BY <3>1, <3>2, <2>6
  <2>9. Cardinality({f \in fns : FuncName(f[1], f[2]) = "!amifl_main"}) = 1
    <3>1. PICK d \in OfKind(root, "fn") : d.name = "main"
      BY <2>1, <2>2 DEF Sound
    <3>2. <<root, d>> \in fns /\ FuncName(root, d) = "!amifl_main"
      BY <3>1, <2>3, <2>6
    <3>3. {f \in fns : FuncName(f[1], f[2]) = "!amifl_main"} = {<<root, d>>}
      BY <3>2, <2>7
    <3> HIDE DEF fns
    <3> QED BY <3>3, FS_Singleton
  <2> QED BY <2>7, <2>8, <2>9, Zenon DEF CallsReachTheirFunction
<1> QED BY <1>1, TablesHold, PTL

(***************************************************************************)
(* The Go types of a program.                                              *)
(***************************************************************************)

\* The types of the program, each with the Go type it gets.
ScalarTypes == {[go |-> ScalarGoType(n), means |-> <<n>>] : n \in Scalars}
DeclaredTypes(p, S) == {[go |-> GoName(p, d.name), means |-> <<p, d.name>>] : d \in {e \in S : IsType(e)}}
BlockTypes(p, x) == {[go |-> ExternGoType(x, n), means |-> <<"extern", GoPackage(p, x), n>>] : n \in x.types}
OpaqueTypes(p, S) == UNION {BlockTypes(p, x) : x \in {e \in S : e.kind = "extern"}}

GoTypes(D) == ScalarTypes \cup UNION {DeclaredTypes(p, D[p]) \cup OpaqueTypes(p, D[p]) : p \in Packages}

\* In an accepted program an alias has one target.
AllSound == \A p \in Packages : Sound(p) /\ AliasesBound(p)

LEMMA GoTypesHas ==
  /\ \A n \in Scalars : [go |-> ScalarGoType(n), means |-> <<n>>] \in GoTypes(decls)
  /\ \A p \in Packages : \A n \in OwnNames(p) :
       [go |-> GoName(p, n), means |-> <<p, n>>] \in GoTypes(decls)
  /\ \A p \in Packages : \A x \in Externs(p) : \A n \in x.types :
       [go |-> ExternGoType(x, n), means |-> <<"extern", GoPackage(p, x), n>>] \in GoTypes(decls)
<1>1. ASSUME NEW n \in Scalars
      PROVE  [go |-> ScalarGoType(n), means |-> <<n>>] \in GoTypes(decls)
  BY DEF GoTypes, ScalarTypes
<1>2. ASSUME NEW p \in Packages, NEW n \in OwnNames(p)
      PROVE  [go |-> GoName(p, n), means |-> <<p, n>>] \in GoTypes(decls)
  <2>1. PICK d \in decls[p] : IsType(d) /\ d.name = n
    BY DEF OwnNames, StructsIn, EnumsIn, OfKind, IsType
  <2>2. [go |-> GoName(p, d.name), means |-> <<p, d.name>>] \in DeclaredTypes(p, decls[p])
    BY <2>1 DEF DeclaredTypes
  <2> QED BY <2>1, <2>2 DEF GoTypes
<1>3. ASSUME NEW p \in Packages, NEW x \in Externs(p), NEW n \in x.types
      PROVE  [go |-> ExternGoType(x, n), means |-> <<"extern", GoPackage(p, x), n>>] \in GoTypes(decls)
  <2>1. [go |-> ExternGoType(x, n), means |-> <<"extern", GoPackage(p, x), n>>] \in BlockTypes(p, x)
    BY DEF BlockTypes
  <2>2. x \in {e \in decls[p] : e.kind = "extern"}
    BY DEF Externs, OfKind
  <2>3. [go |-> ExternGoType(x, n), means |-> <<"extern", GoPackage(p, x), n>>] \in OpaqueTypes(p, decls[p])
    BY <2>1, <2>2 DEF OpaqueTypes
  <2> QED BY <2>3 DEF GoTypes
<1> QED BY <1>1, <1>2, <1>3

LEMMA GoTypesAre ==
  ASSUME NEW a \in GoTypes(decls)
  PROVE  \/ \E n \in Scalars : a.go = ScalarGoType(n) /\ a.means = <<n>>
         \/ \E p \in Packages : \E n \in OwnNames(p) : a.go = GoName(p, n) /\ a.means = <<p, n>>
         \/ \E p \in Packages : \E x \in Externs(p) : \E n \in x.types :
              a.go = ExternGoType(x, n) /\ a.means = <<"extern", GoPackage(p, x), n>>
<1>1. CASE a \in ScalarTypes
  BY <1>1 DEF ScalarTypes
<1>2. ASSUME NEW p \in Packages, a \in DeclaredTypes(p, decls[p])
      PROVE  \E n \in OwnNames(p) : a.go = GoName(p, n) /\ a.means = <<p, n>>
  <2>1. PICK d \in decls[p] : IsType(d) /\ a = [go |-> GoName(p, d.name), means |-> <<p, d.name>>]
    BY <1>2 DEF DeclaredTypes
  <2>2. d.name \in OwnNames(p)
    BY <2>1 DEF OwnNames, StructsIn, EnumsIn, OfKind, IsType
  <2> QED BY <2>1, <2>2
<1>3. ASSUME NEW p \in Packages, a \in OpaqueTypes(p, decls[p])
      PROVE  \E x \in Externs(p) : \E n \in x.types : a.go = ExternGoType(x, n) /\ a.means = <<"extern", GoPackage(p, x), n>>
  <2>1. PICK x \in Externs(p) : a \in BlockTypes(p, x)
    BY <1>3 DEF OpaqueTypes, Externs, OfKind
  <2> QED BY <2>1 DEF BlockTypes
<1>4. a \in ScalarTypes \/ \E p \in Packages : a \in DeclaredTypes(p, decls[p]) \cup OpaqueTypes(p, decls[p])
  BY DEF GoTypes
<1> QED BY <1>1, <1>2, <1>3, <1>4

Scalar(r) == \E n \in Scalars : r.go = ScalarGoType(n) /\ r.means = <<n>>
Declared(r) == \E p \in Packages : \E n \in OwnNames(p) : r.go = GoName(p, n) /\ r.means = <<p, n>>
Opaque(r) == \E p \in Packages : \E x \in Externs(p) : \E n \in x.types :
               r.go = ExternGoType(x, n) /\ r.means = <<"extern", GoPackage(p, x), n>>

\* The Go type of a type of a Go package is the one its name was entered with.
Settled(a, entered) ==
  \A g, n : a.means = <<"extern", g, n>> => n \in DOMAIN entered /\ entered[n] = a.go

LEMMA OneGoType ==
  ASSUME NEW E, NEW a \in GoTypes(decls), NEW b \in GoTypes(decls), Settled(a, E), Settled(b, E),
         a.means = b.means
  PROVE  a.go = b.go
<1>1. (Scalar(a) \/ Declared(a) \/ Opaque(a)) /\ (Scalar(b) \/ Declared(b) \/ Opaque(b))
  BY GoTypesAre DEF Scalar, Declared, Opaque
<1>2. a.means = b.means
  OBVIOUS
<1>3. /\ Scalar(a) => \E n : a.go = ScalarGoType(n) /\ a.means = <<n>>
      /\ Scalar(b) => \E n : b.go = ScalarGoType(n) /\ b.means = <<n>>
  BY DEF Scalar
<1>4. /\ Declared(a) => \E p, n : a.go = GoName(p, n) /\ a.means = <<p, n>>
      /\ Declared(b) => \E p, n : b.go = GoName(p, n) /\ b.means = <<p, n>>
  BY DEF Declared
<1>5. /\ Opaque(a) => \E g, n : a.means = <<"extern", g, n>>
      /\ Opaque(b) => \E g, n : b.means = <<"extern", g, n>>
  BY DEF Opaque
<1>6. CASE Scalar(a) /\ Scalar(b)
  <2>1. PICK n : a.go = ScalarGoType(n) /\ a.means = <<n>>
    BY <1>3, <1>6
  <2>2. PICK m : b.go = ScalarGoType(m) /\ b.means = <<m>>
    BY <1>3, <1>6
  <2>3. n = m
    BY <1>2, <2>1, <2>2, TupleEqual, Zenon
  <2> QED BY <2>1, <2>2, <2>3
<1>7. CASE Declared(a) /\ Declared(b)
  <2>1. PICK p, n : a.go = GoName(p, n) /\ a.means = <<p, n>>
    BY <1>4, <1>7
  <2>2. PICK q, m : b.go = GoName(q, m) /\ b.means = <<q, m>>
    BY <1>4, <1>7
  <2>3. p = q /\ n = m
    BY <1>2, <2>1, <2>2, TupleEqual, Zenon
  <2> QED BY <2>1, <2>2, <2>3
<1>8. CASE Opaque(a) \/ Opaque(b)
  <2>1. PICK g, n : a.means = <<"extern", g, n>> /\ b.means = <<"extern", g, n>>
    BY <1>2, <1>5, <1>8
  <2> QED BY <2>1 DEF Settled
<1>9. ~(Scalar(a) /\ Declared(b)) /\ ~(Declared(a) /\ Scalar(b))
  BY <1>2, <1>3, <1>4, TupleEqual
<1> QED BY <1>1, <1>6, <1>7, <1>8, <1>9

\* Types with one Go type are one type.
LEMMA OneMeaning ==
  ASSUME GoTypesApart, decls \in Declarations, AllSound,
         NEW a \in GoTypes(decls), NEW b \in GoTypes(decls), a.go = b.go
  PROVE  a.means = b.means
<1>1. (Scalar(a) \/ Declared(a) \/ Opaque(a)) /\ (Scalar(b) \/ Declared(b) \/ Opaque(b))
  BY GoTypesAre DEF Scalar, Declared, Opaque
<1>2. a.go = b.go
  OBVIOUS
<1>3. \A p \in Packages : \A n \in OwnNames(p) : \E d \in decls[p] : IsType(d) /\ d.name = n
  BY DEF OwnNames, StructsIn, EnumsIn, OfKind, IsType
<1>4. \A m, n \in Scalars : ScalarGoType(m) = ScalarGoType(n) => m = n
  BY DEF GoTypesApart
<1>5. \A p \in Packages : \A n \in OwnNames(p) : \A s \in Scalars : GoName(p, n) # ScalarGoType(s)
  <2>1. \A p \in Packages : \A d \in decls[p] : IsType(d) => \A s \in Scalars : GoName(p, d.name) # ScalarGoType(s)
    BY DEF GoTypesApart
  <2> QED BY <1>3, <2>1
<1>6. \A p, q \in Packages : \A x \in Externs(p) : \A n \in x.types :
        /\ \A s \in Scalars : ExternGoType(x, n) # ScalarGoType(s)
        /\ \A m \in OwnNames(q) : ExternGoType(x, n) # GoName(q, m)
        /\ \A y \in Externs(q) : \A m \in y.types : ExternGoType(x, n) = ExternGoType(y, m) => x.name = y.name /\ n = m
  <2> SUFFICES ASSUME NEW p \in Packages, NEW q \in Packages, NEW x \in Externs(p), NEW n \in x.types
               PROVE  /\ \A s \in Scalars : ExternGoType(x, n) # ScalarGoType(s)
                      /\ \A m \in OwnNames(q) : ExternGoType(x, n) # GoName(q, m)
                      /\ \A y \in Externs(q) : \A m \in y.types :
                           ExternGoType(x, n) = ExternGoType(y, m) => x.name = y.name /\ n = m
    OBVIOUS
  <2>1. /\ \A s \in Scalars : ExternGoType(x, n) # ScalarGoType(s)
        /\ \A d \in {e \in decls[q] : IsType(e)} : ExternGoType(x, n) # GoName(q, d.name)
        /\ \A y \in Externs(q) : \A m \in y.types :
             ExternGoType(x, n) = ExternGoType(y, m) => x.name = y.name /\ n = m
    BY DEF GoTypesApart, Externs, OfKind
  <2>2. \A m \in OwnNames(q) : ExternGoType(x, n) # GoName(q, m)
    BY <1>3, <2>1
  <2> QED BY <2>1, <2>2
<1>7. CASE Scalar(a) /\ Scalar(b)
  BY <1>2, <1>4, <1>7 DEF Scalar
<1>8. CASE Declared(a) /\ Declared(b)
  <2>1. PICK p, n : p \in Packages /\ n \in OwnNames(p) /\ a.go = GoName(p, n) /\ a.means = <<p, n>>
    BY <1>8 DEF Declared
  <2>2. PICK q, m : q \in Packages /\ m \in OwnNames(q) /\ b.go = GoName(q, m) /\ b.means = <<q, m>>
    BY <1>8 DEF Declared
  <2>3. p = q /\ n = m
    <3>1. GoName(p, n) = GoName(q, m)
      BY <1>2, <2>1, <2>2
    <3>2. TypeNamesApart
      BY DEF GoTypesApart
    <3> QED BY <2>1, <2>2, <3>1, <3>2, OwnNamesApart
  <2> QED BY <2>1, <2>2, <2>3
<1>9. CASE Opaque(a) /\ Opaque(b)
  <2>1. PICK p, x, n : /\ p \in Packages /\ x \in Externs(p) /\ n \in x.types
                       /\ a.go = ExternGoType(x, n) /\ a.means = <<"extern", GoPackage(p, x), n>>
    BY <1>9 DEF Opaque
  <2>2. PICK q, y, m : /\ q \in Packages /\ y \in Externs(q) /\ m \in y.types
                       /\ b.go = ExternGoType(y, m) /\ b.means = <<"extern", GoPackage(q, y), m>>
    BY <1>9 DEF Opaque
  <2>3. x.name = y.name /\ n = m
    <3>1. ExternGoType(x, n) = ExternGoType(y, m)
      BY <1>2, <2>1, <2>2
    <3>2. \A z \in Externs(q) : \A o \in z.types : ExternGoType(x, n) = ExternGoType(z, o) => x.name = z.name /\ n = o
      BY <1>6, <2>1, <2>2
    <3> QED BY <2>2, <3>1, <3>2
  <2>4. externMap[x.name] = GoPackage(p, x) /\ externMap[y.name] = GoPackage(q, y)
    BY <2>1, <2>2 DEF AllSound, AliasesBound, ExternTarget, GoPackage
  <2> QED BY <2>1, <2>2, <2>3, <2>4
<1>10. ~(Scalar(a) /\ Declared(b)) /\ ~(Declared(a) /\ Scalar(b))
  BY <1>2, <1>5 DEF Scalar, Declared
<1>11. ~(Scalar(a) /\ Opaque(b)) /\ ~(Opaque(a) /\ Scalar(b))
  BY <1>2, <1>6 DEF Scalar, Opaque
<1>12. ~(Declared(a) /\ Opaque(b)) /\ ~(Opaque(a) /\ Declared(b))
  BY <1>2, <1>6 DEF Declared, Opaque
<1> QED BY <1>1, <1>7, <1>8, <1>9, <1>10, <1>11, <1>12

LEMMA ImageFinite ==
  ASSUME NEW S, IsFiniteSet(S), NEW T, NEW f \in [S -> T], \A t \in T : \E x \in S : f[x] = t
  PROVE  IsFiniteSet(T)
<1>1. f \in Surjection(S, T)
  BY DEF Surjection
<1> QED BY <1>1, FS_Surjection, Zenon

LEMMA GoTypesFinite ==
  ASSUME decls \in Declarations
  PROVE  IsFiniteSet(GoTypes(decls))
<1>1. IsFiniteSet(Scalars) /\ \A p \in Packages : WellFormed(decls[p])
  BY PackagesAssumption DEF PackagesAssumption
<1>2. IsFiniteSet(Packages)
  <2>1. IsFiniteSet(1 .. Len(Order))
    BY OrderIs, FS_Interval
  <2>2. \A p \in Packages : \E i \in 1 .. Len(Order) : Order[i] = p
    BY OrderIs
  <2>3. Order \in [1 .. Len(Order) -> Packages]
    BY OrderIs
  <2> QED BY <2>1, <2>2, <2>3, ImageFinite
<1>3. IsFiniteSet(ScalarTypes)
  <2> DEFINE f == [n \in Scalars |-> [go |-> ScalarGoType(n), means |-> <<n>>]]
  <2>1. f \in [Scalars -> ScalarTypes] /\ \A t \in ScalarTypes : \E n \in Scalars : f[n] = t
    BY DEF ScalarTypes
  <2> HIDE DEF f
  <2> QED BY <1>1, <2>1, ImageFinite
<1>4. ASSUME NEW p \in Packages
      PROVE  IsFiniteSet(DeclaredTypes(p, decls[p]) \cup OpaqueTypes(p, decls[p]))
  <2> DEFINE S == {e \in decls[p] : IsType(e)}
             E == {e \in decls[p] : e.kind = "extern"}
  <2>1. IsFiniteSet(decls[p]) /\ \A x \in E : IsFiniteSet(x.types)
    BY <1>1 DEF WellFormed
  <2>2. IsFiniteSet(S) /\ IsFiniteSet(E)
    BY <2>1, FS_Subset
  <2>3. IsFiniteSet(DeclaredTypes(p, decls[p]))
    <3> DEFINE f == [d \in S |-> [go |-> GoName(p, d.name), means |-> <<p, d.name>>]]
    <3>1. f \in [S -> DeclaredTypes(p, decls[p])] /\ \A t \in DeclaredTypes(p, decls[p]) : \E d \in S : f[d] = t
      BY DEF DeclaredTypes
    <3> HIDE DEF f, S
    <3> QED BY <2>2, <3>1, ImageFinite
  <2>4. ASSUME NEW x \in E
        PROVE  IsFiniteSet(BlockTypes(p, x))
    <3> DEFINE f == [n \in x.types |-> [go |-> ExternGoType(x, n), means |-> <<"extern", GoPackage(p, x), n>>]]
    <3>1. f \in [x.types -> BlockTypes(p, x)] /\ \A t \in BlockTypes(p, x) : \E n \in x.types : f[n] = t
      BY DEF BlockTypes
    <3>2. IsFiniteSet(x.types)
      BY <2>1
    <3> HIDE DEF f
    <3> QED BY <3>1, <3>2, ImageFinite
  <2>5. IsFiniteSet(OpaqueTypes(p, decls[p]))
    <3> DEFINE f == [x \in E |-> BlockTypes(p, x)]
               B == {BlockTypes(p, x) : x \in E}
    <3>1. f \in [E -> B] /\ \A t \in B : \E x \in E : f[x] = t
      OBVIOUS
    <3>2. IsFiniteSet(B)
      <4> HIDE DEF f, B, E
      <4> QED BY <2>2, <3>1, ImageFinite
    <3>3. \A T \in B : IsFiniteSet(T)
      BY <2>4
    <3>4. OpaqueTypes(p, decls[p]) = UNION B
      BY DEF OpaqueTypes
    <3> HIDE DEF B
    <3> QED BY <3>2, <3>3, <3>4, FS_UNION
  <2> QED BY <2>3, <2>5, FS_Union
<1>5. IsFiniteSet(UNION {DeclaredTypes(p, decls[p]) \cup OpaqueTypes(p, decls[p]) : p \in Packages})
  <2> DEFINE f == [p \in Packages |-> DeclaredTypes(p, decls[p]) \cup OpaqueTypes(p, decls[p])]
             B == {DeclaredTypes(p, decls[p]) \cup OpaqueTypes(p, decls[p]) : p \in Packages}
  <2>1. f \in [Packages -> B] /\ \A t \in B : \E p \in Packages : f[p] = t
    OBVIOUS
  <2>2. IsFiniteSet(B)
    <3> HIDE DEF f, B
    <3> QED BY <1>2, <2>1, ImageFinite
  <2>3. \A T \in B : IsFiniteSet(T)
    BY <1>4
  <2> QED BY <2>2, <2>3, FS_UNION
<1> QED BY <1>3, <1>5, FS_Union DEF GoTypes

LEMMA SetToSeqIs ==
  ASSUME NEW S, IsFiniteSet(S)
  PROVE  LET s == SetToSeq(S)
         IN /\ Cardinality(S) \in Nat /\ s \in [1 .. Cardinality(S) -> S] /\ Range(s) = S
            /\ \A i, j \in 1 .. Cardinality(S) : s[i] = s[j] => i = j
<1> DEFINE n == Cardinality(S)
           s == SetToSeq(S)
<1>1. n \in Nat /\ ExistsBijection(1 .. n, S)
  BY FS_CardinalityType
<1>2. \E f \in [1 .. n -> S] : IsInjective(f)
  BY <1>1, Zenon DEF ExistsBijection, Bijection, Injection
<1>3. s \in [1 .. n -> S] /\ IsInjective(s)
  BY <1>2, Zenon DEF SetToSeq
<1>4. s \in Injection(1 .. n, S) /\ IsFiniteSet(1 .. n) /\ Cardinality(1 .. n) = n
  BY <1>1, <1>3, FS_Interval DEF Injection
<1>5. s \in Surjection(1 .. n, S)
  BY <1>4, FS_Injection
<1>6. Range(s) = S
  BY <1>3, <1>5 DEF Surjection, Range
<1>7. \A i, j \in 1 .. n : s[i] = s[j] => i = j
  BY <1>3 DEF IsInjective
<1> QED BY <1>1, <1>3, <1>6, <1>7

(***************************************************************************)
(* The invariant of the loop over the units: the extern types entered so   *)
(* far, and the numbers of the list types, one per element Go type.        *)
(***************************************************************************)

Entered(j) == (stage = "generate" /\ j < pos) \/ stage = "done"

ExternsEntered ==
  /\ \A n \in DOMAIN externTypes : \E p \in Packages : n \in ExternTypesIn(p)
  /\ \A j \in DOMAIN Order : Entered(j) =>
       \A x \in Externs(Order[j]) : \A n \in x.types :
         n \in DOMAIN externTypes /\ externTypes[n] = ExternGoType(x, n)

Numbered ==
  /\ IsFiniteSet(DOMAIN listTypes)
  /\ \A k \in DOMAIN listTypes : listTypes[k] \in 1 .. Cardinality(DOMAIN listTypes)
  /\ \A k, l \in DOMAIN listTypes : listTypes[k] = listTypes[l] => k = l

\* The list r, with elements a, has the type minted for the Go type of a.
MintedFor(r, a) ==
  /\ r.means = [list |-> TRUE, declaration |-> a.means]
  /\ Settled(a, externTypes)
  /\ <<a.go>> \in DOMAIN listTypes /\ r.go = <<"AmiflList", listTypes[<<a.go>>]>>

ListsMinted == \A r \in {x \in resolved : x.means.list} : \E a \in GoTypes(decls) : MintedFor(r, a)

UnitInv ==
  /\ ExternsEntered
  /\ stage = "check" => resolved = {}
  /\ resolved # {} => AllSound
  /\ ExternTypesApart /\ ExternTypesFirst => Numbered /\ ListsMinted

\* What MintLists returns when the elements of the lists have the keys K.
Extended(lists, K) ==
  /\ DOMAIN lists = DOMAIN listTypes \cup K
  /\ \A k \in DOMAIN listTypes : lists[k] = listTypes[k]
  /\ IsFiniteSet(DOMAIN lists)
  /\ \A k \in DOMAIN lists : lists[k] \in 1 .. Cardinality(DOMAIN lists)
  /\ \A k, l \in DOMAIN lists : lists[k] = lists[l] => k = l

LEMMA MintedAre ==
  ASSUME Numbered, NEW K, IsFiniteSet(K), NEW lists, lists = MintLists(K)
  PROVE  Extended(lists, K)
<1> DEFINE old == DOMAIN listTypes
           S == K \ old
           new == SetToSeq(S)
           m == Cardinality(old)
           n == Cardinality(S)
<1>10. lists = [k \in old \cup Range(new) |-> IF k \in old THEN listTypes[k] ELSE m + CHOOSE i \in DOMAIN new : new[i] = k]
  BY DEF MintLists
<1>11. S = K \ old
  OBVIOUS
<1> HIDE DEF S
<1>1. /\ IsFiniteSet(old) /\ m \in Nat
      /\ \A k \in old : listTypes[k] \in 1 .. m
      /\ \A k, l \in old : listTypes[k] = listTypes[l] => k = l
  BY FS_CardinalityType DEF Numbered
<1>2. IsFiniteSet(S) /\ old \cap S = {} /\ old \cup S = old \cup K
  BY <1>11, FS_Difference
<1>3. /\ n \in Nat /\ new \in [1 .. n -> S] /\ Range(new) = S
      /\ \A i, j \in 1 .. n : new[i] = new[j] => i = j
  BY <1>2, SetToSeqIs
<1>4. IsFiniteSet(old \cup S) /\ Cardinality(old \cup S) = m + n
  <2>1. IsFiniteSet(old \cup S) /\ Cardinality(old \cup S) = Cardinality(old) + Cardinality(S) - Cardinality(old \cap S)
    BY <1>1, <1>2, FS_Union
  <2>2. Cardinality(old \cap S) = 0
    BY <1>2, FS_EmptySet
  <2> QED BY <2>1, <2>2, <1>1, <1>3
<1> HIDE DEF new, m, n
<1>5. lists = [k \in old \cup S |-> IF k \in old THEN listTypes[k] ELSE m + CHOOSE i \in DOMAIN new : new[i] = k]
  BY <1>3, <1>10
<1> DEFINE index(k) == CHOOSE i \in DOMAIN new : new[i] = k
<1>6. ASSUME NEW k \in S
      PROVE  index(k) \in 1 .. n /\ new[index(k)] = k
  <2>1. \E i \in DOMAIN new : new[i] = k
    BY <1>3 DEF Range
  <2>2. index(k) \in DOMAIN new /\ new[index(k)] = k
    BY <2>1
  <2> QED BY <2>2, <1>3
<1> HIDE DEF index
<1>7. /\ DOMAIN lists = old \cup S
      /\ \A k \in old : lists[k] = listTypes[k]
      /\ \A k \in S : lists[k] = m + index(k)
  BY <1>2, <1>5 DEF index
<1>8. \A k \in DOMAIN lists : lists[k] \in 1 .. m + n
  BY <1>1, <1>3, <1>6, <1>7
<1>9. ASSUME NEW k \in DOMAIN lists, NEW l \in DOMAIN lists, lists[k] = lists[l]
      PROVE  k = l
  <2>1. CASE k \in old /\ l \in old
    BY <2>1, <1>1, <1>7, <1>9
  <2>2. CASE k \in S /\ l \in S
    <3>1. index(k) = index(l)
      BY <2>2, <1>1, <1>3, <1>6, <1>7, <1>9
    <3> QED BY <3>1, <2>2, <1>6
  <2>3. ASSUME NEW a \in old, NEW b \in S
        PROVE  lists[a] # lists[b]
    BY <1>1, <1>3, <1>6, <1>7
  <2> QED BY <2>1, <2>2, <2>3, <1>7, <1>9
<1> QED BY <1>2, <1>4, <1>7, <1>8, <1>9, <1>11 DEF m, n, Extended

\* In the unit of Order[pos], every extern type met so far is entered.
LEMMA ExternGoTypesAre ==
  ASSUME CompileInv, UnitInv, stage = "generate", NEW i \in DOMAIN Order, i = pos, ExternTypesAgree(Order[i])
  PROVE  LET E == ExternGoTypes(Order[i])
         IN /\ \A n \in DOMAIN E : \E p \in Packages : n \in ExternTypesIn(p)
            /\ \A j \in 1 .. i : \A x \in Externs(Order[j]) : \A n \in x.types :
                 n \in DOMAIN E /\ E[n] = ExternGoType(x, n)
<1> PICK p, E : p = Order[i] /\ E = ExternGoTypes(p)
  OBVIOUS
<1>1. p \in Packages /\ Sound(p) /\ i \in Nat /\ 1 .. i \subseteq DOMAIN Order
  BY OrderIs DEF CompileInv, CheckedBefore
<1>2. /\ DOMAIN E = DOMAIN externTypes \cup ExternTypesIn(p)
      /\ \A n \in ExternTypesIn(p) : E[n] = ExternGoType(CHOOSE x \in Externs(p) : n \in x.types, n)
      /\ \A n \in DOMAIN externTypes : E[n] = externTypes[n]
  BY DEF ExternGoTypes, ExternTypesAgree
<1>3. \A x \in Externs(p) : \A n \in x.types : n \in ExternTypesIn(p) /\ (CHOOSE y \in Externs(p) : n \in y.types) = x
  <2> SUFFICES ASSUME NEW x \in Externs(p), NEW n \in x.types
               PROVE  n \in ExternTypesIn(p) /\ (CHOOSE y \in Externs(p) : n \in y.types) = x
    OBVIOUS
  <2>1. n \in ExternTypesIn(p)
    BY DEF ExternTypesIn
  <2>2. \A y \in Externs(p) : n \in y.types => y = x
    BY <1>1 DEF Sound, TypeNamesAreFree
  <2> QED BY <2>1, <2>2
<1>4. \A n \in DOMAIN E : \E q \in Packages : n \in ExternTypesIn(q)
  BY <1>1, <1>2 DEF UnitInv, ExternsEntered
<1>5. ASSUME NEW j \in 1 .. i, NEW x \in Externs(Order[j]), NEW n \in x.types
      PROVE  n \in DOMAIN E /\ E[n] = ExternGoType(x, n)
  <2>1. CASE j = i
    BY <2>1, <1>2, <1>3
  <2>2. CASE j < i
    <3>1. n \in DOMAIN externTypes /\ externTypes[n] = ExternGoType(x, n)
      BY <2>2, <1>1 DEF UnitInv, ExternsEntered, Entered
    <3> QED BY <3>1, <1>2
  <2> QED BY <2>1, <2>2, <1>1
<1> QED BY <1>4, <1>5

\* The Go type that the unit of Order[pos] gives a type it holds is that of
\* the declaration meant.
LEMMA GoesRight ==
  ASSUME GoTypesApart, ExternTypesApart, CompileInv, UnitInv, stage = "generate",
         NEW i \in DOMAIN Order, i = pos, ExternTypesAgree(Order[i]), NEW u \in HeldTypes(Order[i])
  PROVE  /\ \E a \in GoTypes(decls) :
              /\ a.go = BaseGoType(Order[i], ExternGoTypes(Order[i]), u.type) /\ a.means = u.means.declaration
              /\ Settled(a, ExternGoTypes(Order[i]))
         /\ u.type.list = u.means.list
         /\ u.means = [list |-> u.means.list, declaration |-> u.means.declaration]
<1> PICK p, E, t, m : p = Order[i] /\ E = ExternGoTypes(p) /\ t = u.type /\ m = u.means
  OBVIOUS
<1>1. p \in Packages /\ decls \in Declarations /\ CheckedBefore(i) /\ i \in Nat /\ 1 .. i \subseteq DOMAIN Order
  BY OrderIs DEF CompileInv, CheckedBefore
<1>2. /\ \A n \in DOMAIN E : \E q \in Packages : n \in ExternTypesIn(q)
      /\ \A j \in 1 .. i : \A x \in Externs(Order[j]) : \A n \in x.types :
           n \in DOMAIN E /\ E[n] = ExternGoType(x, n)
  BY ExternGoTypesAre
<1>3. /\ \A q \in Packages : ExternTypesIn(q) \cap Scalars = {}
      /\ \A q \in Packages : OwnNames(q) \cap (Scalars \cup DOMAIN E) = {}
  <2>1. \A q \in Packages : \A x \in {d \in decls[q] : d.kind = "extern"} : \A n \in x.types : n \notin Scalars
    BY <1>1 DEF GoTypesApart
  <2>2. \A q \in Packages : ExternTypesIn(q) \cap Scalars = {}
    BY <2>1 DEF ExternTypesIn, Externs, OfKind
  <2>3. \A q \in Packages : OwnNames(q) \cap Scalars = {}
    BY <1>1, OwnNamesApart DEF GoTypesApart
  <2>4. \A q \in Packages : OwnNames(q) \cap DOMAIN E = {}
    BY <1>2 DEF ExternTypesApart, OwnNames
  <2> QED BY <2>2, <2>3, <2>4
<1>4. BaseGoType(p, E, t) = IF t.qualified THEN t.name
                         ELSE IF t.name \in DOMAIN E THEN E[t.name]
                         ELSE IF t.name \in Scalars THEN ScalarGoType(t.name)
                         ELSE GoName(p, t.name)
  BY DEF BaseGoType
<1>5. /\ StandsFor(p, t, m) \/ BareExtern(i, t, m)
      /\ u = [type |-> t, means |-> [list |-> m.list, declaration |-> m.declaration]]
  BY <1>1, HeldTypesStand DEF GoTypesApart
<1> DEFINE Goal == \E a \in GoTypes(decls) : a.go = BaseGoType(p, E, t) /\ a.means = m.declaration /\ Settled(a, E)
<1>12. \A n : \A a : a.means = <<n>> => Settled(a, E)
  BY TupleEqual DEF Settled
<1>13. \A q, n : \A a : a.means = <<q, n>> => Settled(a, E)
  BY TupleEqual DEF Settled
<1>6. ASSUME NEW n \in Scalars, m.declaration = <<n>>, t = [list |-> m.list, qualified |-> FALSE, name |-> n]
      PROVE  Goal
  <2>1. n \notin DOMAIN E
    BY <1>2, <1>3
  <2>2. BaseGoType(p, E, t) = ScalarGoType(n)
    BY <1>4, <1>6, <2>1
  <2> QED BY <1>6, <1>12, <2>2, GoTypesHas
<1>7. ASSUME NEW n \in OwnNames(p), m.declaration = <<p, n>>, t = [list |-> m.list, qualified |-> FALSE, name |-> n]
      PROVE  Goal
  <2>1. n \notin DOMAIN E /\ n \notin Scalars
    BY <1>1, <1>3
  <2>2. BaseGoType(p, E, t) = GoName(p, n)
    BY <1>4, <1>7, <2>1
  <2> QED BY <1>1, <1>7, <1>13, <2>2, GoTypesHas
<1>8. ASSUME NEW q \in Packages, NEW n \in OwnNames(q), m.declaration = <<q, n>>,
             t = [list |-> m.list, qualified |-> TRUE, name |-> GoName(q, n)]
      PROVE  Goal
  <2>1. BaseGoType(p, E, t) = GoName(q, n)
    BY <1>4, <1>8
  <2> QED BY <1>8, <1>13, <2>1, GoTypesHas
<1>9. ASSUME NEW j \in 1 .. i, NEW x \in Externs(Order[j]), NEW n \in x.types,
             m.declaration = <<"extern", GoPackage(Order[j], x), n>>,
             t = [list |-> m.list, qualified |-> FALSE, name |-> n]
      PROVE  Goal
  <2> DEFINE a == [go |-> ExternGoType(x, n), means |-> <<"extern", GoPackage(Order[j], x), n>>]
  <2>1. n \in DOMAIN E /\ E[n] = ExternGoType(x, n)
    BY <1>2
  <2>2. BaseGoType(p, E, t) = ExternGoType(x, n)
    BY <1>4, <1>9, <2>1
  <2>3. Order[j] \in Packages
    BY <1>1, OrderIs
  <2>4. a \in GoTypes(decls)
    BY <2>3, GoTypesHas
  <2>5. Settled(a, E)
    <3> SUFFICES ASSUME NEW g, NEW o, <<"extern", GoPackage(Order[j], x), n>> = <<"extern", g, o>>
                 PROVE  o = n
      BY <2>1 DEF Settled
    <3> QED BY TupleEqual, Zenon
  <2> QED BY <1>9, <2>2, <2>4, <2>5
<1>10. Goal
  <2>1. CASE StandsFor(p, t, m)
    <3> HIDE DEF Goal
    <3> QED BY <2>1, <1>6, <1>7, <1>8 DEF StandsFor
  <2>2. CASE BareExtern(i, t, m)
    <3> HIDE DEF Goal
    <3> QED BY <2>2, <1>9 DEF BareExtern
  <2> QED BY <2>1, <2>2, <1>5
<1>11. t.list = m.list
  <2>1. CASE StandsFor(p, t, m)
    <3>1. PICK f, n : t = [list |-> m.list, qualified |-> f, name |-> n]
      BY <2>1 DEF StandsFor
    <3> QED BY <3>1
  <2>2. CASE BareExtern(i, t, m)
    <3>1. PICK n : t = [list |-> m.list, qualified |-> FALSE, name |-> n]
      BY <2>2 DEF BareExtern
    <3> QED BY <3>1
  <2> QED BY <2>1, <2>2, <1>5
<1> QED BY <1>5, <1>10, <1>11

\* A field gets the Go type that a body gives its type.
LEMMA FieldsGoRight ==
  ASSUME ExternTypesFirst, NEW p \in Packages, Sound(p), NEW d \in OfKind(p, "struct") \cup OfKind(p, "enum"),
         NEW u \in FieldTypes(p, d)
  PROVE  BaseGoType(p, EnteredAt(p, d), u.type) = BaseGoType(p, ExternGoTypes(p), u.type) /\ u \in HeldTypes(p)
<1>1. PICK te \in Range(d.types) : u = [type |-> Resolve(p, te), means |-> Means(p, te)]
  BY DEF FieldTypes
<1>2. d \in Typed(p)
  BY KindsAreTyped
<1>3. u \in HeldTypes(p)
  BY <1>1, <1>2 DEF HeldTypes, OwnTypes
<1> PICK E, F, t : E = ExternGoTypes(p) /\ F = EnteredAt(p, d) /\ t = Resolve(p, te)
  OBVIOUS
<1>4. /\ DOMAIN E = DOMAIN externTypes \cup ExternTypesIn(p)
      /\ DOMAIN F = DOMAIN externTypes \cup UNION {x.types : x \in {y \in Externs(p) : y.at < d.at}}
      /\ \A n \in DOMAIN F : F[n] = E[n]
  BY DEF ExternGoTypes, EnteredAt
<1>5. (t.qualified <=> te.alias # "") /\ (te.alias = "" => t.name = te.name)
  BY DEF Resolve
<1>6. CASE t.qualified
  BY <1>1, <1>3, <1>6 DEF BaseGoType
<1>7. CASE ~t.qualified
  <2>1. te.alias = "" /\ t.name = te.name
    BY <1>5, <1>7
  <2>2. t.name \in DOMAIN F <=> t.name \in DOMAIN E
    <3>1. ASSUME t.name \in ExternTypesIn(p)
          PROVE  t.name \in DOMAIN F
      <4>1. PICK x \in Externs(p) : te.name \in x.types
        BY <2>1, <3>1 DEF ExternTypesIn
      <4>2. x.at < d.at
        BY <2>1, <4>1 DEF ExternTypesFirst
      <4> QED BY <1>4, <2>1, <4>1, <4>2
    <3>2. DOMAIN F \subseteq DOMAIN E
      BY <1>4 DEF ExternTypesIn
    <3> QED BY <1>4, <3>1, <3>2
  <2>3. BaseGoType(p, F, t) = BaseGoType(p, E, t)
    BY <1>4, <2>2 DEF BaseGoType
  <2> QED BY <1>1, <1>3, <2>3
<1> QED BY <1>6, <1>7

LEMMA FlagsAreBoolean ==
  ASSUME decls \in Declarations, NEW p \in Packages, NEW d \in Typed(p), NEW te \in Range(d.types)
  PROVE  te.list \in BOOLEAN
<1>1. WellFormed(decls[p])
  BY PackagesAssumption DEF PackagesAssumption
<1>2. CASE d \in decls[p] \ Externs(p)
  BY <1>1, <1>2 DEF WellFormed, Types, Externs, OfKind
<1>3. CASE d \in Binds(p)
  <2>1. PICK x \in Externs(p) : d \in x.binds
    BY <1>3 DEF Binds
  <2> QED BY <1>1, <2>1 DEF WellFormed, Types, Externs, OfKind
<1> QED BY <1>2, <1>3 DEF Typed

LEMMA ImportsArePackages ==
  ASSUME NEW i \in DOMAIN Order, NEW q \in Range(Imports[Order[i]])
  PROVE  q \in Packages
BY ImportsAre, OrderIs DEF Range

LEMMA HeldFlags ==
  ASSUME decls \in Declarations, NEW i \in DOMAIN Order, NEW u \in HeldTypes(Order[i])
  PROVE  u.means.list \in BOOLEAN
<1> PICK p : p = Order[i]
  OBVIOUS
<1>1. p \in Packages
  BY OrderIs
<1>2. CASE u \in OwnTypes(p)
  <2>1. PICK d, te : d \in Typed(p) /\ te \in Range(d.types) /\ u.means = Means(p, te)
    BY <1>2 DEF OwnTypes
  <2> QED BY <1>1, <2>1, FlagsAreBoolean DEF Means
<1>3. CASE u \in ImportedTypes(p)
  <2>5. PICK q \in Range(Imports[p]) :
          \/ u \in Imported(q, "funcs", Visible(OfKind(q, "fn")) \cup ExportedBinds(q))
          \/ u \in Imported(q, "consts", Visible(OfKind(q, "const")))
          \/ u \in Imported(q, "structs", Visible(OfKind(q, "struct")))
          \/ u \in Imported(q, "enums", Visible(OfKind(q, "enum")))
    BY <1>3 DEF ImportedTypes
  <2>6. /\ ExportedBinds(q) \subseteq Typed(q)
        /\ \A k \in {"fn", "const", "struct", "enum"} : Visible(OfKind(q, k)) \subseteq Typed(q)
    BY KindsAreTyped, BindsAreTyped DEF Visible, ExportedBinds
  <2>1. PICK table, S : u \in Imported(q, table, S) /\ S \subseteq Typed(q)
    BY <2>5, <2>6
  <2>2. S \subseteq Typed(q)
    BY <2>1
  <2>3. PICK d, j : d \in S /\ j \in DOMAIN d.types /\ u.means = Means(q, d.types[j])
    BY <2>1 DEF Imported
  <2>4. q \in Packages /\ d \in Typed(q) /\ d.types[j] \in Range(d.types)
    BY <2>2, <2>3, <2>5, ImportsArePackages DEF Range
  <2> QED BY <2>3, <2>4, FlagsAreBoolean DEF Means
<1> QED BY <1>2, <1>3 DEF HeldTypes

\* No list comes with a constant's literal.
LEMMA InlinedAreNoLists ==
  ASSUME AllSound, NEW i \in DOMAIN Order, NEW u \in Inlined(Order[i])
  PROVE  ~u.means.list
<1>1. PICK q, d : /\ q \in Range(Imports[Order[i]]) /\ d \in Visible(OfKind(q, "const"))
                  /\ u.means = Means(q, d.types[1])
  BY DEF Inlined
<1>2. q \in Packages /\ d \in OfKind(q, "const")
  BY <1>1, ImportsArePackages DEF Visible
<1>3. ~d.types[1].list
  BY <1>2 DEF AllSound, Sound
<1> QED BY <1>1, <1>3 DEF Means

LEMMA SameGoTypes == decls' = decls => GoTypes(decls)' = GoTypes(decls)
BY DEF GoTypes, DeclaredTypes, OpaqueTypes, BlockTypes

LEMMA GenerateMints ==
  ASSUME GoTypesApart, ExternTypesApart, ExternTypesFirst, CompileInv, UnitInv, AllSound, GenerateUnit
  PROVE  Numbered' /\ ListsMinted'
<1> PICK i, p, E, K, lists, new :
      /\ i = pos /\ p = Order[i] /\ E = ExternGoTypes(p)
      /\ K = {ListKey(p, u.entered, u.type) : u \in {v \in Generated(p) : v.type.list}}
      /\ lists = MintLists(K) /\ new = resolved' \ resolved
  OBVIOUS
<1>1. /\ i \in DOMAIN Order /\ p \in Packages /\ stage = "generate" /\ ExternTypesAgree(p)
      /\ externTypes' = E
      /\ decls \in Declarations /\ decls' = decls /\ externMap' = externMap /\ listTypes' = lists
  BY OrderIs DEF GenerateUnit, CompileInv
<1>2. ASSUME NEW r \in new
      PROVE  \E u \in Generated(p) \cup Uses(E, Inlined(p)) :
               /\ r.means = u.means
               /\ u.type.list => r.go = <<"AmiflList", lists[ListKey(p, u.entered, u.type)]>>
  <2>1. PICK u \in Generated(p) \cup Uses(E, Inlined(p)) :
          r = [package |-> p, type |-> u.type, means |-> u.means,
               go |-> IF u.type.list THEN <<"AmiflList", lists[ListKey(p, u.entered, u.type)]>>
                      ELSE <<BaseGoType(p, u.entered, u.type)>>]
    BY DEF GenerateUnit
  <2>2. r.means = u.means
    BY <2>1
  <2>3. u.type.list => r.go = <<"AmiflList", lists[ListKey(p, u.entered, u.type)]>>
    BY <2>1
  <2> QED BY <2>2, <2>3
<1>12. ASSUME NEW v \in Generated(p)
       PROVE  \E u \in HeldTypes(p) : /\ v.type = u.type /\ v.means = u.means
                                      /\ ListKey(p, v.entered, v.type) = ListKey(p, E, u.type)
  <2>1. CASE v \in Uses(E, HeldTypes(p))
    BY <2>1 DEF Uses
  <2>2. ASSUME NEW d \in OfKind(p, "struct") \cup OfKind(p, "enum"), v \in Uses(EnteredAt(p, d), FieldTypes(p, d))
        PROVE  \E u \in HeldTypes(p) : /\ v.type = u.type /\ v.means = u.means
                                       /\ ListKey(p, v.entered, v.type) = ListKey(p, E, u.type)
    <3>1. PICK u \in FieldTypes(p, d) : v = [entered |-> EnteredAt(p, d), type |-> u.type, means |-> u.means]
      BY <2>2 DEF Uses
    <3>2. BaseGoType(p, EnteredAt(p, d), u.type) = BaseGoType(p, E, u.type) /\ u \in HeldTypes(p)
      BY <1>1, FieldsGoRight DEF AllSound
    <3> QED BY <3>1, <3>2 DEF ListKey
  <2> QED BY <2>1, <2>2 DEF Generated
<1>3. ASSUME NEW u \in HeldTypes(p)
      PROVE  /\ \E a \in GoTypes(decls) :
                  /\ ListKey(p, E, u.type) = <<a.go>> /\ a.means = u.means.declaration
                  /\ Settled(a, externTypes')
             /\ u.type.list = u.means.list
             /\ u.means = [list |-> u.means.list, declaration |-> u.means.declaration]
  BY <1>1, GoesRight DEF ListKey
<1>4. IsFiniteSet(K)
  <2> DEFINE F == {<<a.go>> : a \in GoTypes(decls)}
             f == [a \in GoTypes(decls) |-> <<a.go>>]
  <2>1. f \in [GoTypes(decls) -> F] /\ \A k \in F : \E a \in GoTypes(decls) : f[a] = k
    OBVIOUS
  <2>2. IsFiniteSet(F)
    <3> HIDE DEF f, F
    <3> QED BY <1>1, <2>1, GoTypesFinite, ImageFinite
  <2>3. K \subseteq F
    <3> SUFFICES ASSUME NEW v \in Generated(p) PROVE ListKey(p, v.entered, v.type) \in F
      OBVIOUS
    <3>1. PICK u \in HeldTypes(p) : ListKey(p, v.entered, v.type) = ListKey(p, E, u.type)
      BY <1>12
    <3>2. PICK a \in GoTypes(decls) : ListKey(p, E, u.type) = <<a.go>>
      BY <1>3
    <3> QED BY <3>1, <3>2
  <2> HIDE DEF F
  <2> QED BY <2>2, <2>3, FS_Subset
<1>5. Numbered
  BY DEF UnitInv
<1>6. /\ DOMAIN lists = DOMAIN listTypes \cup K
      /\ \A k \in DOMAIN listTypes : lists[k] = listTypes[k]
      /\ IsFiniteSet(DOMAIN lists)
      /\ \A k \in DOMAIN lists : lists[k] \in 1 .. Cardinality(DOMAIN lists)
      /\ \A k, l \in DOMAIN lists : lists[k] = lists[l] => k = l
  <2>1. lists = MintLists(K)
    OBVIOUS
  <2>2. Extended(lists, K)
    BY <1>4, <1>5, <2>1, MintedAre
  <2> QED BY <2>2 DEF Extended
<1>7. Numbered'
  BY <1>1, <1>6 DEF Numbered
<1>8. GoTypes(decls)' = GoTypes(decls)
  BY <1>1, SameGoTypes
<1>9. ASSUME NEW r \in resolved, r.means.list
      PROVE  \E a \in GoTypes(decls) : MintedFor(r, a)'
  <2>1. PICK a \in GoTypes(decls) : MintedFor(r, a)
    BY <1>9 DEF UnitInv, ListsMinted
  <2>2. <<a.go>> \in DOMAIN lists /\ lists[<<a.go>>] = listTypes[<<a.go>>]
    BY <1>6, <2>1 DEF MintedFor
  <2>3. Settled(a, externTypes')
    BY <1>1, <2>1 DEF MintedFor, Settled, ExternTypesAgree, ExternGoTypes
  <2> QED BY <1>1, <2>1, <2>2, <2>3 DEF MintedFor, Settled
<1>10. ASSUME NEW r \in new, r.means.list
       PROVE  \E a \in GoTypes(decls) : MintedFor(r, a)'
  <2>1. PICK v \in Generated(p) \cup Uses(E, Inlined(p)) :
          /\ r.means = v.means
          /\ v.type.list => r.go = <<"AmiflList", lists[ListKey(p, v.entered, v.type)]>>
    BY <1>2
  <2>2. v \in Generated(p)
    BY <1>1, <1>10, <2>1, InlinedAreNoLists DEF Uses
  <2>10. PICK u \in HeldTypes(p) : /\ v.type = u.type /\ v.means = u.means
                                  /\ ListKey(p, v.entered, v.type) = ListKey(p, E, u.type)
    BY <1>12, <2>2
  <2>3. u.means.list = TRUE
    BY <1>1, <1>10, <2>1, <2>10, HeldFlags
  <2>4. PICK a \in GoTypes(decls) :
          ListKey(p, E, u.type) = <<a.go>> /\ a.means = u.means.declaration /\ Settled(a, externTypes')
    BY <1>3
  <2>5. u.type.list /\ u.means = [list |-> TRUE, declaration |-> a.means]
    BY <1>3, <2>3, <2>4
  <2>6. <<a.go>> \in K
    BY <2>2, <2>4, <2>5, <2>10
  <2>7. r.go = <<"AmiflList", lists[<<a.go>>]>>
    BY <2>1, <2>4, <2>5, <2>10
  <2>8. r.means = [list |-> TRUE, declaration |-> a.means]
    BY <2>1, <2>5, <2>10
  <2>9. <<a.go>> \in DOMAIN lists
    BY <1>6, <2>6
  <2> QED BY <1>1, <2>4, <2>7, <2>8, <2>9 DEF MintedFor, Settled
<1>11. ListsMinted'
  BY <1>8, <1>9, <1>10 DEF ListsMinted
<1> QED BY <1>7, <1>11

LEMMA InitUnit == CompileInit => UnitInv
<1> SUFFICES ASSUME CompileInit PROVE UnitInv
  OBVIOUS
<1>1. /\ stage = "check" /\ resolved = {} /\ DOMAIN externTypes = {} /\ DOMAIN listTypes = {}
  BY DEF CompileInit, Empty
<1>2. ExternsEntered
  BY <1>1 DEF ExternsEntered, Entered
<1>3. Numbered /\ ListsMinted
  BY <1>1, FS_EmptySet DEF Numbered, ListsMinted
<1> QED BY <1>1, <1>2, <1>3 DEF UnitInv

LEMMA SameHypotheses ==
  ASSUME decls' = decls
  PROVE  (ExternTypesApart' <=> ExternTypesApart) /\ (ExternTypesFirst' <=> ExternTypesFirst)
<1>1. \A p, k : OfKind(p, k)' = OfKind(p, k) /\ Externs(p)' = Externs(p) /\ ExternTypesIn(p)' = ExternTypesIn(p)
  BY DEF ExternTypesIn, Externs, OfKind
<1>2. ExternTypesApart' <=> ExternTypesApart
  BY <1>1 DEF ExternTypesApart, StructsIn, EnumsIn
<1>3. ExternTypesFirst' <=> ExternTypesFirst
  BY <1>1 DEF ExternTypesFirst
<1> QED BY <1>2, <1>3

\* A step that generates nothing.
LEMMA KeepsUnit ==
  ASSUME UnitInv, decls' = decls, externTypes' = externTypes, listTypes' = listTypes, resolved' = resolved,
         stage' = "check" => stage = "check", resolved = {} \/ externMap' = externMap,
         \A j \in DOMAIN Order : Entered(j)' => Entered(j)
  PROVE  UnitInv'
<1>1. ExternsEntered'
  BY DEF UnitInv, ExternsEntered, ExternTypesIn, Externs, OfKind, ExternGoType
<1>2. resolved' # {} => AllSound'
  <2>1. SUFFICES ASSUME AllSound, externMap' = externMap PROVE AllSound'
    BY DEF UnitInv
  <2> QED BY <2>1, SameDecls DEF AllSound, AliasesBound
<1>3. ExternTypesApart' /\ ExternTypesFirst' => ExternTypesApart /\ ExternTypesFirst
  BY SameHypotheses
<1>4. GoTypes(decls)' = GoTypes(decls)
  BY SameGoTypes
<1>5. (Numbered => Numbered') /\ (ListsMinted => ListsMinted')
  <2>1. Numbered => Numbered'
    BY DEF Numbered
  <2>2. \A r, a : MintedFor(r, a)' <=> MintedFor(r, a)
    BY DEF MintedFor, Settled
  <2> QED BY <1>4, <2>1, <2>2 DEF ListsMinted
<1> QED BY <1>1, <1>2, <1>3, <1>5 DEF UnitInv

LEMMA NextUnit ==
  ASSUME GoTypesApart
  PROVE  CompileInv /\ UnitInv /\ [CompileNext]_compileVars => UnitInv'
<1> SUFFICES ASSUME CompileInv, UnitInv, [CompileNext]_compileVars PROVE UnitInv'
  OBVIOUS
<1>1. pos \in 1 .. Len(Order) /\ DOMAIN Order = 1 .. Len(Order) /\ Len(Order) \in Nat
  BY OrderIs DEF CompileInv
<1>2. CASE CheckPackage
  <2>1. \A j \in DOMAIN Order : ~Entered(j)'
    BY <1>1, <1>2 DEF CheckPackage, Entered
  <2> QED BY <1>2, <2>1, KeepsUnit DEF CheckPackage, UnitInv
<1>3. CASE RefusePackage
  BY <1>3, KeepsUnit DEF RefusePackage, Entered
<1>4. CASE GenerateUnit
  <2> PICK i, p : i = pos /\ p = Order[i]
    OBVIOUS
  <2>1. /\ stage = "generate" /\ decls' = decls /\ externMap' = externMap /\ ExternTypesAgree(p) /\ externTypes' = ExternGoTypes(p)
        /\ IF pos < Len(Order) THEN pos' = pos + 1 /\ stage' = stage ELSE pos' = pos /\ stage' = "done"
    BY <1>4 DEF GenerateUnit
  <2>2. AllSound
    BY <2>1, OrderIs DEF CompileInv, CheckedBefore, AllSound
  <2>3. AllSound'
    BY <2>1, <2>2, SameDecls DEF AllSound, AliasesBound
  <2>4. /\ \A n \in DOMAIN externTypes' : \E q \in Packages : n \in ExternTypesIn(q)
        /\ \A j \in 1 .. i : \A x \in Externs(Order[j]) : \A n \in x.types :
             n \in DOMAIN externTypes' /\ externTypes'[n] = ExternGoType(x, n)
    BY <1>1, <2>1, ExternGoTypesAre
  <2>5. \A j \in DOMAIN Order : Entered(j)' => j \in 1 .. i
    BY <1>1, <2>1 DEF Entered
  <2>6. \A q : ExternTypesIn(q)' = ExternTypesIn(q) /\ Externs(q)' = Externs(q)
    BY <2>1 DEF ExternTypesIn, Externs, OfKind
  <2>7. ExternsEntered'
    BY <2>4, <2>5, <2>6 DEF ExternsEntered, ExternGoType
  <2>8. ExternTypesApart' /\ ExternTypesFirst' => ExternTypesApart /\ ExternTypesFirst
    BY <2>1, SameHypotheses
  <2>9. ExternTypesApart' /\ ExternTypesFirst' => Numbered' /\ ListsMinted'
    BY <1>4, <2>2, <2>8, GenerateMints
  <2> QED BY <2>1, <2>3, <2>7, <2>9 DEF UnitInv
<1>5. CASE RefuseUnit
  BY <1>5, KeepsUnit DEF RefuseUnit, Entered
<1>6. CASE UNCHANGED compileVars
  BY <1>6, KeepsUnit DEF compileVars, Entered
<1> QED BY <1>2, <1>3, <1>4, <1>5, <1>6 DEF CompileNext

\* A list of one declaration's values has one Go type wherever it is used,
\* and lists of two declarations never share one (listGoTypeName), when the
\* Go types of the program are apart.
THEOREM ListsKeepOneGoType ==
  ASSUME GoTypesApart PROVE CompileSpec => []ListsShareOneGoType
<1>1. CompileSpec => []UnitInv
  BY InitUnit, NextUnit, TablesHold, PTL DEF CompileSpec
<1>2. CompileInv /\ UnitInv => ListsShareOneGoType
  <2> SUFFICES ASSUME CompileInv, UnitInv, ExternTypesApart, ExternTypesFirst,
                      NEW r \in {x \in resolved : x.means.list}, NEW s \in {x \in resolved : x.means.list}
               PROVE  r.go = s.go <=> r.means = s.means
    BY DEF ListsShareOneGoType
  <2>1. Numbered /\ ListsMinted /\ AllSound /\ decls \in Declarations
    BY DEF UnitInv, CompileInv
  <2>2. PICK a \in GoTypes(decls) : MintedFor(r, a)
    BY <2>1 DEF ListsMinted
  <2>3. PICK b \in GoTypes(decls) : MintedFor(s, b)
    BY <2>1 DEF ListsMinted
  <2>4. a.go = b.go <=> a.means = b.means
    BY <2>1, <2>2, <2>3, OneGoType, OneMeaning DEF MintedFor
  <2>5. r.means = s.means <=> a.means = b.means
    <3>1. r.means = [list |-> TRUE, declaration |-> a.means] /\ s.means = [list |-> TRUE, declaration |-> b.means]
      BY <2>2, <2>3 DEF MintedFor
    <3>2. r.means.declaration = a.means /\ s.means.declaration = b.means
      BY <3>1
    <3>3. r.means = s.means => a.means = b.means
      BY <3>2
    <3>4. a.means = b.means => r.means = s.means
      BY <3>1
    <3> QED BY <3>3, <3>4
  <2>6. r.go = s.go <=> a.go = b.go
    <3>1. r.go = s.go <=> listTypes[<<a.go>>] = listTypes[<<b.go>>]
      BY <2>2, <2>3 DEF MintedFor
    <3>2. listTypes[<<a.go>>] = listTypes[<<b.go>>] <=> <<a.go>> = <<b.go>>
      BY <2>1, <2>2, <2>3 DEF Numbered, MintedFor
    <3> QED BY <3>1, <3>2
  <2> QED BY <2>4, <2>5, <2>6
<1> QED BY <1>1, <1>2, TablesHold, PTL
=============================================================================
