---------------------------- MODULE TypingProofs ----------------------------
(***************************************************************************)
(* What the checker accepts has a type, and what it annotates the          *)
(* generator emits: proofs about Typing, for every function, every set of  *)
(* types and every declaration of structs, enums and functions.            *)
(*                                                                         *)
(* The functions of Typing recurse over the levels of a tree.  Each is     *)
(* first shown to be what its definition says; then every claim about a    *)
(* tree is proved level by level, one lemma for each kind of node.         *)
(***************************************************************************)
EXTENDS Typing, TLAPS, FiniteSetTheorems

-----------------------------------------------------------------------------
(* Induction on numbers, as a fact about sets. *)

LEMMA Induct ==
  ASSUME NEW K \in SUBSET Nat, 0 \in K, \A k \in K : k + 1 \in K
  PROVE  \A n \in Nat : n \in K
<1> SUFFICES ASSUME NEW n \in Nat, n \notin K PROVE FALSE
  OBVIOUS
<1> DEFINE R == {ss \in Nat \X Nat : ss[1] < ss[2]}
           T == Nat \ K
<1>1. IsWellFoundedOn(R, Nat)
  BY NatLessThanWellFounded DEF OpToRel
<1>2. PICK m \in T : \A y \in T : <<y, m>> \notin R
  <2>1. T \subseteq Nat /\ T # {}
    OBVIOUS
  <2> HIDE DEF R, T
  <2> QED BY <1>1, <2>1, WFMin
<1>3. m # 0 /\ m \in Nat
  OBVIOUS
<1>4. m - 1 \in Nat /\ <<m - 1, m>> \in R
  BY <1>3
<1>5. m - 1 \in K
  BY <1>2, <1>4
<1> QED BY <1>3, <1>5

LEMMA DepthIsNat == Depth \in Nat
BY TypingAssumption

\* Up to a level.
LEMMA LevelInduct ==
  ASSUME NEW K, 0 \in K, \A n \in Levels \ {0} : n - 1 \in K => n \in K
  PROVE  \A n \in Levels : n \in K
<1> DEFINE M == {k \in Nat : k \in Levels => k \in K}
<1>1. M \in SUBSET Nat /\ 0 \in M
  OBVIOUS
<1>2. ASSUME NEW k \in M PROVE k + 1 \in M
  <2>1. k \in Nat
    OBVIOUS
  <2>2. SUFFICES ASSUME k + 1 \in Levels PROVE k + 1 \in K
    BY <2>1
  <2>3. k \in Levels /\ k + 1 \in Levels \ {0} /\ (k + 1) - 1 = k
    BY <2>1, <2>2, DepthIsNat DEF Levels
  <2> QED BY <2>3
<1>3. \A n \in Nat : n \in M
  <2> HIDE DEF M
  <2> QED BY <1>1, <1>2, Induct
<1>4. Levels \subseteq Nat
  BY DepthIsNat DEF Levels
<1> QED BY <1>3, <1>4

-----------------------------------------------------------------------------
(* The recursive functions of Typing are what their definitions say. *)

TreesUpTo(k, f) == f = [n \in 0 .. k |-> IF n = 0 THEN {} ELSE NodesOver(f[n - 1])]

LEMMA TreesExtend ==
  ASSUME NEW k \in Nat, NEW f, TreesUpTo(k, f)
  PROVE  \E g : TreesUpTo(k + 1, g)
<1> DEFINE g == [n \in 0 .. k + 1 |-> IF n = k + 1 THEN NodesOver(f[k]) ELSE f[n]]
<1>1. \A n \in 0 .. k : f[n] = IF n = 0 THEN {} ELSE NodesOver(f[n - 1])
  BY DEF TreesUpTo
<1>2. \A n \in 0 .. k : g[n] = f[n]
  OBVIOUS
<1>3. g[k + 1] = NodesOver(g[k])
  BY <1>2
<1>4. g = [n \in 0 .. k + 1 |-> g[n]]
  OBVIOUS
<1> HIDE DEF g
<1>5. ASSUME NEW n \in 0 .. k + 1
      PROVE  g[n] = IF n = 0 THEN {} ELSE NodesOver(g[n - 1])
  <2>1. CASE n = k + 1
    BY <2>1, <1>3
  <2>2. CASE n = 0
    BY <2>2, <1>1, <1>2
  <2>3. CASE n \in 1 .. k
    BY <2>3, <1>1, <1>2
  <2> QED BY <2>1, <2>2, <2>3
<1>6. TreesUpTo(k + 1, g)
  BY <1>4, <1>5 DEF TreesUpTo
<1> QED BY <1>6

LEMMA TreesAre ==
  /\ TreesAt[0] = {}
  /\ \A n \in Levels \ {0} : TreesAt[n] = NodesOver(TreesAt[n - 1])
<1> DEFINE K == {k \in Nat : \E f : TreesUpTo(k, f)}
<1>1. TreesUpTo(0, [n \in 0 .. 0 |-> {}])
  BY DEF TreesUpTo
<1>2. \A k \in K : k + 1 \in K
  BY TreesExtend
<1>3. \A k \in Nat : k \in K
  <2>1. K \in SUBSET Nat /\ 0 \in K
    BY <1>1
  <2> HIDE DEF K
  <2> QED BY <1>2, <2>1, Induct
<1>4. PICK f : TreesUpTo(Depth, f)
  BY <1>3, DepthIsNat
<1>5. TreesAt = CHOOSE g : TreesUpTo(Depth, g)
  BY DEF TreesAt, TreesUpTo, Levels
<1>6. TreesUpTo(Depth, TreesAt)
  BY <1>4, <1>5
<1>7. \A n \in 0 .. Depth : TreesAt[n] = IF n = 0 THEN {} ELSE NodesOver(TreesAt[n - 1])
  BY <1>6 DEF TreesUpTo
<1> QED BY <1>7, DepthIsNat DEF Levels

\* The checker of the trees in T, given that of their parts.
CheckerStep(sub, T) ==
  [e \in T |-> [x \in Expected |-> [c \in Contexts |-> Resolve(sub, e, x, c)]]]
CheckerUpTo(k, f) == f = [n \in 0 .. k |-> CheckerStep(f[n - 1], TreesAt[n])]

LEMMA CheckerExtends ==
  ASSUME NEW k \in Nat, NEW f, CheckerUpTo(k, f)
  PROVE  \E g : CheckerUpTo(k + 1, g)
<1> DEFINE g == [n \in 0 .. k + 1 |-> IF n = k + 1 THEN CheckerStep(f[k], TreesAt[k + 1]) ELSE f[n]]
<1>1. \A n \in 0 .. k : f[n] = CheckerStep(f[n - 1], TreesAt[n])
  BY DEF CheckerUpTo
<1>2. \A n \in 0 .. k : g[n] = f[n]
  OBVIOUS
<1>3. g[k + 1] = CheckerStep(g[k], TreesAt[k + 1])
  BY <1>2
<1>4. g = [n \in 0 .. k + 1 |-> g[n]]
  OBVIOUS
<1>5. CheckerStep(f[0 - 1], {}) = CheckerStep(g[0 - 1], {})
  BY DEF CheckerStep
<1> HIDE DEF g
<1>6. ASSUME NEW n \in 0 .. k + 1 PROVE g[n] = CheckerStep(g[n - 1], TreesAt[n])
  <2>1. CASE n = k + 1
    BY <2>1, <1>3
  <2>2. CASE n = 0
    BY <2>2, <1>1, <1>2, <1>5, TreesAre
  <2>3. CASE n \in 1 .. k
    BY <2>3, <1>1, <1>2
  <2> QED BY <2>1, <2>2, <2>3
<1>7. CheckerUpTo(k + 1, g)
  BY <1>4, <1>6 DEF CheckerUpTo
<1> QED BY <1>7

LEMMA CheckerIs ==
  \A n \in Levels : Checker[n] = CheckerStep(Checker[n - 1], TreesAt[n])
<1> DEFINE K == {k \in Nat : \E f : CheckerUpTo(k, f)}
           f0 == [n \in 0 .. 0 |-> CheckerStep(<< >>, {})]
<1>1. CheckerUpTo(0, f0)
  <2>1. CheckerStep(<< >>, {}) = CheckerStep(f0[0 - 1], {})
    BY DEF CheckerStep
  <2>2. f0 = [n \in 0 .. 0 |-> CheckerStep(f0[0 - 1], {})]
    BY <2>1
  <2>3. \A n \in 0 .. 0 : n = 0 /\ n - 1 = 0 - 1 /\ TreesAt[n] = {}
    BY TreesAre
  <2> HIDE DEF f0
  <2> QED BY <2>2, <2>3 DEF CheckerUpTo
<1>2. \A k \in K : k + 1 \in K
  BY CheckerExtends
<1>3. \A k \in Nat : k \in K
  <2>1. K \in SUBSET Nat /\ 0 \in K
    BY <1>1
  <2> HIDE DEF K
  <2> QED BY <1>2, <2>1, Induct
<1>4. PICK f : CheckerUpTo(Depth, f)
  BY <1>3, DepthIsNat
<1>5. Checker = CHOOSE g : CheckerUpTo(Depth, g)
  BY DEF Checker, CheckerUpTo, CheckerStep, Levels
<1>6. CheckerUpTo(Depth, Checker)
  BY <1>4, <1>5
<1> QED BY <1>6 DEF CheckerUpTo, Levels

\* The generator of the trees in T.
GeneratorStep(sub, T) ==
  [e \in T |-> [g \in Contexts |-> [ranged \in BOOLEAN |-> [how \in {"value", "run"} |->
     IF how = "value" THEN GenValue(sub, e, g, ranged)
     ELSE Given(GenStmt(sub, e, g, ranged), Done)]]]]
GeneratorUpTo(k, f) == f = [n \in 0 .. k |-> GeneratorStep(f[n - 1], TreesAt[n])]

LEMMA GeneratorExtends ==
  ASSUME NEW k \in Nat, NEW f, GeneratorUpTo(k, f)
  PROVE  \E g : GeneratorUpTo(k + 1, g)
<1> DEFINE g == [n \in 0 .. k + 1 |-> IF n = k + 1 THEN GeneratorStep(f[k], TreesAt[k + 1]) ELSE f[n]]
<1>1. \A n \in 0 .. k : f[n] = GeneratorStep(f[n - 1], TreesAt[n])
  BY DEF GeneratorUpTo
<1>2. \A n \in 0 .. k : g[n] = f[n]
  OBVIOUS
<1>3. g[k + 1] = GeneratorStep(g[k], TreesAt[k + 1])
  BY <1>2
<1>4. g = [n \in 0 .. k + 1 |-> g[n]]
  OBVIOUS
<1>5. GeneratorStep(f[0 - 1], {}) = GeneratorStep(g[0 - 1], {})
  BY DEF GeneratorStep
<1> HIDE DEF g
<1>6. ASSUME NEW n \in 0 .. k + 1 PROVE g[n] = GeneratorStep(g[n - 1], TreesAt[n])
  <2>1. CASE n = k + 1
    BY <2>1, <1>3
  <2>2. CASE n = 0
    BY <2>2, <1>1, <1>2, <1>5, TreesAre
  <2>3. CASE n \in 1 .. k
    BY <2>3, <1>1, <1>2
  <2> QED BY <2>1, <2>2, <2>3
<1>7. GeneratorUpTo(k + 1, g)
  BY <1>4, <1>6 DEF GeneratorUpTo
<1> QED BY <1>7

LEMMA GeneratorIs ==
  \A n \in Levels : Generator[n] = GeneratorStep(Generator[n - 1], TreesAt[n])
<1> DEFINE K == {k \in Nat : \E f : GeneratorUpTo(k, f)}
           f0 == [n \in 0 .. 0 |-> GeneratorStep(<< >>, {})]
<1>1. GeneratorUpTo(0, f0)
  <2>1. GeneratorStep(<< >>, {}) = GeneratorStep(f0[0 - 1], {})
    BY DEF GeneratorStep
  <2>2. f0 = [n \in 0 .. 0 |-> GeneratorStep(f0[0 - 1], {})]
    BY <2>1
  <2>3. \A n \in 0 .. 0 : n = 0 /\ n - 1 = 0 - 1 /\ TreesAt[n] = {}
    BY TreesAre
  <2> HIDE DEF f0
  <2> QED BY <2>2, <2>3 DEF GeneratorUpTo
<1>2. \A k \in K : k + 1 \in K
  BY GeneratorExtends
<1>3. \A k \in Nat : k \in K
  <2>1. K \in SUBSET Nat /\ 0 \in K
    BY <1>1
  <2> HIDE DEF K
  <2> QED BY <1>2, <2>1, Induct
<1>4. PICK f : GeneratorUpTo(Depth, f)
  BY <1>3, DepthIsNat
<1>5. Generator = CHOOSE g : GeneratorUpTo(Depth, g)
  BY DEF Generator, GeneratorUpTo, GeneratorStep, Levels
<1>6. GeneratorUpTo(Depth, Generator)
  BY <1>4, <1>5
<1> QED BY <1>6 DEF GeneratorUpTo, Levels

\* The types of the trees in T.
HasTypeStep(sub, T) ==
  [e \in T |-> [t \in Types |-> [c \in Contexts |-> Means(sub, e, t, c)]]]
HasTypeUpTo(k, f) == f = [n \in 0 .. k |-> HasTypeStep(f[n - 1], TreesAt[n])]

LEMMA HasTypeExtends ==
  ASSUME NEW k \in Nat, NEW f, HasTypeUpTo(k, f)
  PROVE  \E g : HasTypeUpTo(k + 1, g)
<1> DEFINE g == [n \in 0 .. k + 1 |-> IF n = k + 1 THEN HasTypeStep(f[k], TreesAt[k + 1]) ELSE f[n]]
<1>1. \A n \in 0 .. k : f[n] = HasTypeStep(f[n - 1], TreesAt[n])
  BY DEF HasTypeUpTo
<1>2. \A n \in 0 .. k : g[n] = f[n]
  OBVIOUS
<1>3. g[k + 1] = HasTypeStep(g[k], TreesAt[k + 1])
  BY <1>2
<1>4. g = [n \in 0 .. k + 1 |-> g[n]]
  OBVIOUS
<1>5. HasTypeStep(f[0 - 1], {}) = HasTypeStep(g[0 - 1], {})
  BY DEF HasTypeStep
<1> HIDE DEF g
<1>6. ASSUME NEW n \in 0 .. k + 1 PROVE g[n] = HasTypeStep(g[n - 1], TreesAt[n])
  <2>1. CASE n = k + 1
    BY <2>1, <1>3
  <2>2. CASE n = 0
    BY <2>2, <1>1, <1>2, <1>5, TreesAre
  <2>3. CASE n \in 1 .. k
    BY <2>3, <1>1, <1>2
  <2> QED BY <2>1, <2>2, <2>3
<1>7. HasTypeUpTo(k + 1, g)
  BY <1>4, <1>6 DEF HasTypeUpTo
<1> QED BY <1>7

LEMMA HasTypeIs ==
  \A n \in Levels : HasType[n] = HasTypeStep(HasType[n - 1], TreesAt[n])
<1> DEFINE K == {k \in Nat : \E f : HasTypeUpTo(k, f)}
           f0 == [n \in 0 .. 0 |-> HasTypeStep(<< >>, {})]
<1>1. HasTypeUpTo(0, f0)
  <2>1. HasTypeStep(<< >>, {}) = HasTypeStep(f0[0 - 1], {})
    BY DEF HasTypeStep
  <2>2. f0 = [n \in 0 .. 0 |-> HasTypeStep(f0[0 - 1], {})]
    BY <2>1
  <2>3. \A n \in 0 .. 0 : n = 0 /\ n - 1 = 0 - 1 /\ TreesAt[n] = {}
    BY TreesAre
  <2> HIDE DEF f0
  <2> QED BY <2>2, <2>3 DEF HasTypeUpTo
<1>2. \A k \in K : k + 1 \in K
  BY HasTypeExtends
<1>3. \A k \in Nat : k \in K
  <2>1. K \in SUBSET Nat /\ 0 \in K
    BY <1>1
  <2> HIDE DEF K
  <2> QED BY <1>2, <2>1, Induct
<1>4. PICK f : HasTypeUpTo(Depth, f)
  BY <1>3, DepthIsNat
<1>5. HasType = CHOOSE g : HasTypeUpTo(Depth, g)
  BY DEF HasType, HasTypeUpTo, HasTypeStep, Levels
<1>6. HasTypeUpTo(Depth, HasType)
  BY <1>4, <1>5
<1> QED BY <1>6 DEF HasTypeUpTo, Levels

\* The nodes of the trees in T.
NodesStep(sub, T) ==
  [e \in T |-> {e} \cup (UNION {sub[e.a[i]] : i \in DOMAIN e.a})
                  \cup (UNION {sub[e.cs[i]] : i \in DOMAIN e.cs})]
NodesUpTo(k, f) == f = [n \in 0 .. k |-> NodesStep(f[n - 1], TreesAt[n])]

LEMMA NodesExtends ==
  ASSUME NEW k \in Nat, NEW f, NodesUpTo(k, f)
  PROVE  \E g : NodesUpTo(k + 1, g)
<1> DEFINE g == [n \in 0 .. k + 1 |-> IF n = k + 1 THEN NodesStep(f[k], TreesAt[k + 1]) ELSE f[n]]
<1>1. \A n \in 0 .. k : f[n] = NodesStep(f[n - 1], TreesAt[n])
  BY DEF NodesUpTo
<1>2. \A n \in 0 .. k : g[n] = f[n]
  OBVIOUS
<1>3. g[k + 1] = NodesStep(g[k], TreesAt[k + 1])
  BY <1>2
<1>4. g = [n \in 0 .. k + 1 |-> g[n]]
  OBVIOUS
<1>5. NodesStep(f[0 - 1], {}) = NodesStep(g[0 - 1], {})
  BY DEF NodesStep
<1> HIDE DEF g
<1>6. ASSUME NEW n \in 0 .. k + 1 PROVE g[n] = NodesStep(g[n - 1], TreesAt[n])
  <2>1. CASE n = k + 1
    BY <2>1, <1>3
  <2>2. CASE n = 0
    BY <2>2, <1>1, <1>2, <1>5, TreesAre
  <2>3. CASE n \in 1 .. k
    BY <2>3, <1>1, <1>2
  <2> QED BY <2>1, <2>2, <2>3
<1>7. NodesUpTo(k + 1, g)
  BY <1>4, <1>6 DEF NodesUpTo
<1> QED BY <1>7

LEMMA NodesIs ==
  \A n \in Levels : Nodes[n] = NodesStep(Nodes[n - 1], TreesAt[n])
<1> DEFINE K == {k \in Nat : \E f : NodesUpTo(k, f)}
           f0 == [n \in 0 .. 0 |-> NodesStep(<< >>, {})]
<1>1. NodesUpTo(0, f0)
  <2>1. NodesStep(<< >>, {}) = NodesStep(f0[0 - 1], {})
    BY DEF NodesStep
  <2>2. f0 = [n \in 0 .. 0 |-> NodesStep(f0[0 - 1], {})]
    BY <2>1
  <2>3. \A n \in 0 .. 0 : n = 0 /\ n - 1 = 0 - 1 /\ TreesAt[n] = {}
    BY TreesAre
  <2> HIDE DEF f0
  <2> QED BY <2>2, <2>3 DEF NodesUpTo
<1>2. \A k \in K : k + 1 \in K
  BY NodesExtends
<1>3. \A k \in Nat : k \in K
  <2>1. K \in SUBSET Nat /\ 0 \in K
    BY <1>1
  <2> HIDE DEF K
  <2> QED BY <1>2, <2>1, Induct
<1>4. PICK f : NodesUpTo(Depth, f)
  BY <1>3, DepthIsNat
<1>5. Nodes = CHOOSE g : NodesUpTo(Depth, g)
  BY DEF Nodes, NodesUpTo, NodesStep, Levels
<1>6. NodesUpTo(Depth, Nodes)
  BY <1>4, <1>5
<1> QED BY <1>6 DEF NodesUpTo, Levels

-----------------------------------------------------------------------------
(* Fields, types and contexts. *)

LEMMA SeqElement ==
  ASSUME NEW S, NEW s \in Seq(S)
  PROVE  DOMAIN s = 1 .. Len(s) /\ Len(s) \in Nat /\ \A i \in DOMAIN s : s[i] \in S
OBVIOUS

LEMMA FieldsTyped ==
  ASSUME NEW fields, Declared(fields)
  PROVE  /\ \A i \in DOMAIN fields : /\ TypeIn(fields, fields[i].name) = fields[i].type
                                     /\ fields[i].type \in ValueTypes
         /\ \A n \in NamesOf(fields) : TypeIn(fields, n) \in ValueTypes
<1>1. ASSUME NEW i \in DOMAIN fields
      PROVE  TypeIn(fields, fields[i].name) = fields[i].type /\ fields[i].type \in ValueTypes
  <2>1. (CHOOSE j \in DOMAIN fields : fields[j].name = fields[i].name) = i
    BY DEF Declared
  <2>2. fields[i] \in [name : STRING, type : ValueTypes]
    BY SeqElement DEF Declared
  <2> QED BY <2>1, <2>2 DEF TypeIn
<1> QED BY <1>1 DEF NamesOf

LEMMA VariantFields ==
  ASSUME NEW t, NEW v, HasVariant(t, v)
  PROVE  Declared(FieldsOf(t, v)) /\ NamesOf(FieldsOf(t, v)) \subseteq Bindable
<1>1. PICK i \in DOMAIN Enum[t.con] : Enum[t.con][i].name = v
  BY DEF HasVariant, NamesOf
<1> DEFINE j == CHOOSE k \in DOMAIN Enum[t.con] : Enum[t.con][k].name = v
<1>2. j \in DOMAIN Enum[t.con]
  BY <1>1
<1>3. FieldsOf(t, v) = Enum[t.con][j].fields /\ t.con \in DOMAIN Enum
  BY DEF FieldsOf, HasVariant, IsEnum
<1> HIDE DEF j
<1>4. \A e \in DOMAIN Enum : \A k \in DOMAIN Enum[e] : Declared(Enum[e][k].fields)
  BY DeclaredAssumption
<1>5. Declared(FieldsOf(t, v))
  BY <1>2, <1>3, <1>4
<1>6. ASSUME NEW e \in DOMAIN Enum, NEW k \in DOMAIN Enum[e], NEW n \in NamesOf(Enum[e][k].fields)
      PROVE  n \in Bindable
  <2> DEFINE names(f) == {NamesOf(Enum[f][l].fields) : l \in DOMAIN Enum[f]}
  <2>1. n \in UNION names(e)
    OBVIOUS
  <2>2. Bindable = UNION {UNION names(f) : f \in DOMAIN Enum}
    BY DEF Bindable
  <2> HIDE DEF names
  <2> QED BY <2>1, <2>2
<1> QED BY <1>2, <1>3, <1>5, <1>6

LEMMA BasicTypes ==
  /\ {Unit, Never, Bool, ErrorT, Untyped} \subseteq Expected
  /\ ValueTypes \subseteq Types /\ Types \subseteq Expected
  /\ {Bool, ErrorT} \subseteq ValueTypes
  /\ Unit \notin ValueTypes /\ Never \notin ValueTypes /\ Untyped \notin Types /\ AnyT \notin Types
  /\ Unit # Never /\ Unit # Untyped /\ Never # Untyped
  /\ Untyped # AnyT
<1>1. Unit.con = "Unit" /\ Never.con = "Never" /\ Untyped.con = "" /\ AnyT.con = "Any"
  BY DEF Unit, Never, Untyped, AnyT, Named
<1>2. Unit # Never /\ Unit # Untyped /\ Never # Untyped /\ Untyped # AnyT
  BY <1>1
<1>3. /\ ValueTypes \subseteq Types /\ {Unit, Never, Bool, ErrorT} \subseteq Types
      /\ {Bool, ErrorT} \subseteq ValueTypes
      /\ {Unit, Never} \cap ValueTypes = {} /\ {Untyped, AnyT} \cap Types = {}
  BY TypesAssumption
<1> QED BY <1>2, <1>3 DEF Expected

LEMMA IntTypes ==
  \A t \in Expected : IsInt(t) => t \in ValueTypes
<1> SUFFICES ASSUME NEW t \in Expected, IsInt(t) PROVE t \in ValueTypes
  OBVIOUS
<1>1. t # Untyped
  <2>1. Untyped.con = ""
    BY DEF Untyped, Named
  <2> QED BY <2>1 DEF IsInt, Signed, Unsigned
<1>2. t \in Types /\ t.con \in Signed \cup Unsigned
  BY <1>1 DEF Expected, IsInt
<1>3. t = Named(t.con)
  BY <1>2, TypesAssumption DEF Signed, Unsigned
<1> QED BY <1>2, <1>3, TypesAssumption

\* The fields of a value have values; so have the parts of a pair.
LEMMA ReadableTyped ==
  ASSUME NEW t \in ValueTypes, NEW n \in NamesOf(Readable(t))
  PROVE  TypeIn(Readable(t), n) \in ValueTypes
<1>1. CASE IsStruct(t)
  BY <1>1, FieldsTyped, DeclaredAssumption DEF Readable, IsStruct
<1>2. CASE ~IsStruct(t) /\ IsTuple(t)
  <2>1. {t.fst, t.snd} \subseteq ValueTypes
    BY <1>2, TypesAssumption
  <2>2. Readable(t) = <<[name |-> "0", type |-> t.fst], [name |-> "1", type |-> t.snd]>>
    BY <1>2 DEF Readable
  <2>3. \A i \in DOMAIN Readable(t) : Readable(t)[i].type \in ValueTypes
    BY <2>1, <2>2
  <2>4. \E i \in DOMAIN Readable(t) : Readable(t)[i].name = n
    BY DEF NamesOf
  <2>5. (CHOOSE i \in DOMAIN Readable(t) : Readable(t)[i].name = n) \in DOMAIN Readable(t)
    BY <2>4
  <2> QED BY <2>3, <2>5 DEF TypeIn
<1>3. CASE ~IsStruct(t) /\ ~IsTuple(t)
  BY <1>3 DEF Readable, NamesOf
<1> QED BY <1>1, <1>2, <1>3

\* The same for the parts of any type.
LEMMA ReadableIn ==
  ASSUME NEW t \in Types, NEW n \in NamesOf(Readable(t))
  PROVE  TypeIn(Readable(t), n) \in Types
<1>1. CASE IsStruct(t)
  BY <1>1, FieldsTyped, DeclaredAssumption, BasicTypes DEF Readable, IsStruct
<1>2. CASE ~IsStruct(t) /\ IsTuple(t)
  <2>1. {t.fst, t.snd} \subseteq Types
    BY <1>2, TypesAssumption DEF IsTuple
  <2>2. Readable(t) = <<[name |-> "0", type |-> t.fst], [name |-> "1", type |-> t.snd]>>
    BY <1>2 DEF Readable
  <2>3. \A i \in DOMAIN Readable(t) : Readable(t)[i].type \in Types
    BY <2>1, <2>2
  <2>4. \E i \in DOMAIN Readable(t) : Readable(t)[i].name = n
    BY DEF NamesOf
  <2>5. (CHOOSE i \in DOMAIN Readable(t) : Readable(t)[i].name = n) \in DOMAIN Readable(t)
    BY <2>4
  <2> QED BY <2>3, <2>5 DEF TypeIn
<1>3. CASE ~IsStruct(t) /\ ~IsTuple(t)
  BY <1>3 DEF Readable, NamesOf
<1> QED BY <1>1, <1>2, <1>3

\* A case whose pattern fits its own enum has a context for its body.
Apt(d) == d.k = "case" => Fitting(d, d.ty)

LEMMA WithinTyped ==
  ASSUME NEW k, k.k \in {"case", "default"}, Apt(k), NEW c \in Contexts
  PROVE  Within(k, c) \in Contexts
<1>1. CASE k.k = "default"
  BY <1>1 DEF Within
<1>2. CASE k.k = "case"
  <2> DEFINE fields == FieldsOf(k.ty, k.op)
  <2>1. Declared(fields)
    BY <1>2, VariantFields DEF Apt, Fitting
  <2>2. \A n \in NamesOf(fields) : TypeIn(fields, n) \in ValueTypes
    BY <2>1, FieldsTyped
  <2>3. Within(k, c) = [c EXCEPT !.bound = [n \in Bindable |-> IF n \in NamesOf(fields)
                                              THEN TypeIn(fields, n) ELSE c.bound[n]]]
    BY <1>2 DEF Within
  <2> HIDE DEF fields
  <2> QED BY <2>2, <2>3 DEF Contexts
<1> QED BY <1>1, <1>2

-----------------------------------------------------------------------------
(* Nodes. *)

LEMMA NodeIs ==
  ASSUME NEW T, NEW e \in NodesOver(T)
  PROVE  /\ e = With(e, e.ty, e.cs, e.a, e.r)
         /\ e.k \in STRING /\ e.op \in STRING /\ e.n \in Nat /\ e.ty \in Expected
         /\ e.cs \in Seq(T) /\ e.a \in Seq(T) /\ e.r \in Expected /\ Shaped(e)
BY DEF NodesOver, With

LEMMA WithIs ==
  ASSUME NEW e, NEW ty, NEW cs, NEW a, NEW r
  PROVE  LET f == With(e, ty, cs, a, r)
         IN  /\ f.k = e.k /\ f.op = e.op /\ f.n = e.n /\ f.ty = ty
             /\ f.cs = cs /\ f.a = a /\ f.r = r
BY DEF With

\* Parts of the same kinds make a node of the same shape.
SameKinds(as, bs) == Len(as) = Len(bs) /\ \A i \in DOMAIN bs : as[i].k = bs[i].k

LEMMA WithShaped ==
  ASSUME NEW T, NEW e \in NodesOver(T), NEW ty \in Expected, NEW cs \in Seq(T), NEW a \in Seq(T),
         NEW r \in Expected, ty = e.ty \/ e.k = "switch", SameKinds(cs, e.cs), SameKinds(a, e.a)
  PROVE  With(e, ty, cs, a, r) \in NodesOver(T)
<1> DEFINE f == With(e, ty, cs, a, r)
<1>1. f \in [k : STRING, op : STRING, n : Nat, ty : Expected, cs : Seq(T), a : Seq(T), r : Expected]
  BY NodeIs DEF With
<1>2. f.k = e.k /\ f.op = e.op /\ f.ty = ty /\ f.cs = cs /\ f.a = a
  BY WithIs
<1>3. DOMAIN cs = DOMAIN e.cs /\ DOMAIN a = DOMAIN e.a /\ Len(cs) = Len(e.cs) /\ Len(a) = Len(e.a)
  BY NodeIs DEF SameKinds
<1>4. \A kinds : (All(e.cs, kinds) => All(cs, kinds)) /\ (All(e.a, kinds) => All(a, kinds))
  BY <1>3 DEF All, SameKinds
<1>5. (e.cs = << >> => cs = << >>) /\ (e.a = << >> => a = << >>)
  BY <1>3, NodeIs
<1>6. Shaped(e)
  BY NodeIs
<1> HIDE DEF f
<1>7. Shaped(f)
  BY <1>2, <1>3, <1>4, <1>5, <1>6 DEF Shaped
<1> QED BY <1>1, <1>7 DEF NodesOver, f

-----------------------------------------------------------------------------
(***************************************************************************)
(* What an accepted node looks like.  T is the set of the parts, sub the    *)
(* checker of the parts; an annotated node keeps its kind, its name and its *)
(* number, and carries the type that the checker returned.                  *)
(***************************************************************************)
Bodied == {"block", "case", "default", "named"}

\* The type of a block that was checked.
BlockType(b) == IF b.a = << >> THEN Unit ELSE TypeOf(LastOf(b))

\* What a pattern that was checked binds.
BindsFields(f, fields) ==
  \A j \in DOMAIN f.cs : f.cs[j].op \in NamesOf(fields) /\ f.cs[j].r = TypeIn(fields, f.cs[j].op)

Regular(T, r, d, x) ==
  r.ok => /\ r.e \in T /\ r.e.k = d.k /\ r.e.op = d.op /\ r.e.n = d.n
          /\ d.k # "switch" => r.e.ty = d.ty
          /\ SameKinds(r.e.a, d.a)
          /\ r.t \in Types
          /\ d.k # "block" => TypeOf(r.e) = r.t
          /\ d.k = "block" => r.t = BlockType(r.e)
          /\ d.k \in {"case", "default"} => /\ SameKinds(r.e.a[1].a, d.a[1].a)
                                           /\ r.t = BlockType(r.e.a[1])
          /\ d.k = "case" => BindsFields(r.e, FieldsOf(d.ty, d.op))
          /\ d.k \in Bodied /\ x # Untyped => r.t \in {x, Never}

RegularAt(T, sub) ==
  \A d \in T : \A x \in Expected, c \in Contexts : Apt(d) => Regular(T, sub[d][x][c], d, x)

\* p is what the checker says of part d where y is expected, in context c.
Fine(T, sub, d, y, c, p) ==
  /\ y \in Expected /\ p = sub[d][y][c] /\ p.ok
  /\ p.e \in T /\ p.e.k = d.k /\ p.e.op = d.op /\ p.e.n = d.n
  /\ d.k # "switch" => p.e.ty = d.ty
  /\ SameKinds(p.e.a, d.a)
  /\ p.t \in Types /\ TypeOf(p.e) = p.t

LEMMA BadIsBad == Bad.ok = FALSE /\ \A t, e : Typed(t, e).ok /\ Typed(t, e).t = t /\ Typed(t, e).e = e
BY DEF Bad, Typed

LEMMA Checked ==
  ASSUME NEW T, NEW sub, RegularAt(T, sub), NEW d \in T, d.k \in Expression,
         NEW x \in Expected \cup {AnyT}, NEW c \in Contexts, Check(sub, d, x, c).ok
  PROVE  /\ Fine(T, sub, d, IF x = AnyT THEN Untyped ELSE x, c, Check(sub, d, x, c))
         /\ x \in {Untyped, AnyT} \/ Check(sub, d, x, c).t \in {x, Never}
<1> DEFINE y == IF x = AnyT THEN Untyped ELSE x
           p == sub[d][y][c]
<1>1. y \in Expected
  BY BasicTypes
<1>2. Apt(d) /\ d.k \notin Bodied
  BY DEF Apt, Expression, Bodied
<1>3. Regular(T, p, d, y)
  BY <1>1, <1>2 DEF RegularAt
<1>4. Check(sub, d, x, c) = Against(p, x)
  BY DEF Check
<1> HIDE DEF p
<1>5. p.ok /\ Check(sub, d, x, c) = p /\ (x \in {Untyped, AnyT} \/ p.t \in {x, Never})
  BY <1>4, BadIsBad DEF Against
<1>6. p.e \in T /\ p.e.k = d.k /\ p.e.op = d.op /\ p.e.n = d.n /\ (d.k # "switch" => p.e.ty = d.ty)
  BY <1>3, <1>5 DEF Regular
<1>7. SameKinds(p.e.a, d.a) /\ p.t \in Types /\ TypeOf(p.e) = p.t
  BY <1>2, <1>3, <1>5 DEF Regular, Bodied
<1> QED BY <1>1, <1>5, <1>6, <1>7 DEF Fine, p

\* The same for a part that is not compared with what is expected.
LEMMA CheckedRaw ==
  ASSUME NEW T, NEW sub, RegularAt(T, sub), NEW d \in T, Apt(d), d.k # "block",
         NEW x \in Expected, NEW c \in Contexts, sub[d][x][c].ok
  PROVE  Fine(T, sub, d, x, c, sub[d][x][c])
<1> DEFINE p == sub[d][x][c]
<1>3. Regular(T, p, d, x) /\ p.ok
  BY DEF RegularAt
<1> HIDE DEF p
<1>6. p.e \in T /\ p.e.k = d.k /\ p.e.op = d.op /\ p.e.n = d.n /\ (d.k # "switch" => p.e.ty = d.ty)
  BY <1>3 DEF Regular
<1>7. SameKinds(p.e.a, d.a) /\ p.t \in Types /\ TypeOf(p.e) = p.t
  BY <1>3 DEF Regular
<1> QED BY <1>3, <1>6, <1>7 DEF Fine, p


\* The same for a block, a case or a default.
Body(T, sub, d, y, c, p) ==
  /\ y \in Expected /\ p = sub[d][y][c] /\ p.ok
  /\ p.e \in T /\ p.e.k = d.k /\ p.e.op = d.op /\ p.e.n = d.n /\ p.e.ty = d.ty
  /\ SameKinds(p.e.a, d.a)
  /\ p.t \in Types /\ (y # Untyped => p.t \in {y, Never})
  /\ d.k = "block" => p.t = BlockType(p.e)
  /\ d.k \in {"case", "default"} => /\ TypeOf(p.e) = p.t /\ p.t = BlockType(p.e.a[1])
                                   /\ SameKinds(p.e.a[1].a, d.a[1].a)
  /\ d.k = "case" => BindsFields(p.e, FieldsOf(d.ty, d.op))

LEMMA CheckedBody ==
  ASSUME NEW T, NEW sub, RegularAt(T, sub), NEW d \in T, Apt(d), d.k \in {"block", "case", "default"},
         NEW x \in Expected, NEW c \in Contexts, sub[d][x][c].ok
  PROVE  Body(T, sub, d, x, c, sub[d][x][c])
<1> DEFINE p == sub[d][x][c]
<1>1. Regular(T, p, d, x) /\ p.ok
  BY DEF RegularAt
<1> HIDE DEF p
<1>2. d.k # "switch" /\ d.k \in Bodied
  BY DEF Bodied
<1>3. p.e \in T /\ p.e.k = d.k /\ p.e.op = d.op /\ p.e.n = d.n /\ p.e.ty = d.ty /\ SameKinds(p.e.a, d.a)
  BY <1>1, <1>2 DEF Regular
<1>4. p.t \in Types /\ (x # Untyped => p.t \in {x, Never})
  BY <1>1, <1>2 DEF Regular
<1>5. /\ d.k = "block" => p.t = BlockType(p.e)
      /\ d.k \in {"case", "default"} => /\ TypeOf(p.e) = p.t /\ p.t = BlockType(p.e.a[1])
                                       /\ SameKinds(p.e.a[1].a, d.a[1].a)
      /\ d.k = "case" => BindsFields(p.e, FieldsOf(d.ty, d.op))
  BY <1>1 DEF Regular
<1> QED BY <1>1, <1>3, <1>4, <1>5 DEF Body, p

LEMMA CheckedNamed ==
  ASSUME NEW T, NEW sub, RegularAt(T, sub), NEW d \in T, d.k = "named",
         NEW x \in Expected, x # Untyped, NEW c \in Contexts, sub[d][x][c].ok
  PROVE  Fine(T, sub, d, x, c, sub[d][x][c]) /\ sub[d][x][c].t \in {x, Never}
<1>1. Apt(d)
  BY DEF Apt
<1>2. Regular(T, sub[d][x][c], d, x)
  BY <1>1 DEF RegularAt
<1> QED BY <1>1, <1>2, CheckedRaw DEF Regular, Bodied

-----------------------------------------------------------------------------
(* What it takes for a node of each kind to be accepted. *)

LEMMA PartsOf ==
  ASSUME NEW T, NEW e \in NodesOver(T)
  PROVE  /\ e.a \in Seq(T) /\ e.cs \in Seq(T)
         /\ e.k \in OverOne => Len(e.a) = 1 /\ 1 \in DOMAIN e.a /\ e.a[1] \in T /\ e.a[1].k \in Expression
         /\ e.k \in {"binary", "tuple"} =>
              /\ Len(e.a) = 2 /\ {1, 2} \subseteq DOMAIN e.a /\ {e.a[1], e.a[2]} \subseteq T
              /\ e.a[1].k \in Expression /\ e.a[2].k \in Expression
         /\ e.k \in {"case", "default", "while"} => Len(e.a) = 1 /\ 1 \in DOMAIN e.a /\ e.a[1] \in T /\ e.a[1].k = "block"
         /\ e.k \in {"switch", "while"} => Len(e.cs) = 1 /\ 1 \in DOMAIN e.cs /\ e.cs[1] \in T /\ e.cs[1].k \in Expression
         /\ e.k \in {"block", "list", "call"} => \A i \in DOMAIN e.a : e.a[i] \in T /\ e.a[i].k \in Expression
         /\ e.k \in {"struct", "variant"} => \A i \in DOMAIN e.a : e.a[i] \in T /\ e.a[i].k = "named"
         /\ e.k = "if" => /\ \A i \in DOMAIN e.a : e.a[i] \in T /\ e.a[i].k = "block"
                          /\ \A i \in DOMAIN e.cs : e.cs[i] \in T /\ e.cs[i].k \in Expression
                          /\ e.cs # << >> /\ Len(e.a) \in {Len(e.cs), Len(e.cs) + 1} /\ e.a # << >>
         /\ e.k = "switch" => \A i \in DOMAIN e.a : e.a[i] \in T /\ e.a[i].k \in {"case", "default"}
<1>1. e.a \in Seq(T) /\ e.cs \in Seq(T) /\ Shaped(e)
  BY NodeIs
<1>2. /\ DOMAIN e.a = 1 .. Len(e.a) /\ Len(e.a) \in Nat /\ \A i \in DOMAIN e.a : e.a[i] \in T
      /\ DOMAIN e.cs = 1 .. Len(e.cs) /\ Len(e.cs) \in Nat /\ \A i \in DOMAIN e.cs : e.cs[i] \in T
      /\ e.a # << >> <=> Len(e.a) # 0
  BY <1>1
<1> DEFINE others == {"binary", "tuple", "case", "default", "while", "switch", "block", "list", "call",
                      "struct", "variant", "if"}
<1>3. CASE e.k \in OverOne
  <2>1. Len(e.a) = 1 /\ All(e.a, Expression)
    BY <1>1, <1>3 DEF Shaped
  <2>2. e.k \notin others \cup {"return"}
    BY <1>3 DEF OverOne
  <2>3. 1 \in DOMAIN e.a /\ e.a[1] \in T /\ e.a[1].k \in Expression
    BY <1>2, <2>1 DEF All
  <2> QED BY <1>1, <2>1, <2>2, <2>3
<1>4. CASE e.k \in {"binary", "tuple"}
  BY <1>1, <1>2, <1>4 DEF Shaped, All, OverOne
<1>5. CASE e.k \in {"case", "default"}
  <2>1. Len(e.a) = 1 /\ All(e.a, {"block"})
    BY <1>1, <1>5 DEF Shaped
  <2>2. e.k \notin OverOne
    BY <1>5 DEF OverOne
  <2>3. 1 \in DOMAIN e.a /\ e.a[1] \in T /\ e.a[1].k = "block"
    BY <1>2, <2>1 DEF All
  <2> QED BY <1>1, <1>5, <2>1, <2>2, <2>3
<1>11. CASE e.k = "while"
  BY <1>1, <1>2, <1>11 DEF Shaped, All, OverOne
<1>12. CASE e.k = "switch"
  BY <1>1, <1>2, <1>12 DEF Shaped, All, OverOne
<1>6. CASE e.k \in {"block", "list", "call", "struct", "variant"}
  BY <1>1, <1>2, <1>6 DEF Shaped, All, OverOne
<1>7. CASE e.k = "if"
  BY <1>1, <1>2, <1>7 DEF Shaped, All, OverOne
<1>8. CASE e.k \in {"return", "int", "var", "bound", "break", "continue"}
  <2>1. e.k \notin OverOne \cup {"binary", "tuple", "case", "default", "while", "switch",
                                 "block", "list", "call", "struct", "variant", "if"}
    BY <1>8 DEF OverOne
  <2> QED BY <1>1, <2>1
<1>9. e.k \in OverOne \cup {"return", "binary", "tuple", "case", "default", "while", "switch", "block",
                            "list", "call", "struct", "variant", "if", "int", "var", "bound", "break", "continue"}
  BY <1>1 DEF Shaped, Expression, OverOne
<1> QED
  <2> HIDE <1>1, <1>2
  <2> QED BY <1>3, <1>4, <1>5, <1>6, <1>7, <1>8, <1>9, <1>11, <1>12

LEMMA ReturnPart ==
  ASSUME NEW T, NEW e \in NodesOver(T), e.k = "return", e.a # << >>
  PROVE  e.a \in Seq(T) /\ Len(e.a) = 1 /\ 1 \in DOMAIN e.a /\ e.a[1] \in T /\ e.a[1].k \in Expression
<1>1. e.a \in Seq(T) /\ Shaped(e)
  BY NodeIs
<1>2. DOMAIN e.a = 1 .. Len(e.a) /\ Len(e.a) # 0 /\ \A i \in DOMAIN e.a : e.a[i] \in T
  BY <1>1
<1>3. Len(e.a) \in {0, 1} /\ All(e.a, Expression)
  BY <1>1 DEF Shaped
<1>4. Len(e.a) = 1
  BY <1>2, <1>3
<1>5. 1 \in DOMAIN e.a
  BY <1>2, <1>4
<1> QED BY <1>1, <1>2, <1>3, <1>4, <1>5 DEF All

LEMMA LiteralTaken ==
  ASSUME NEW e, NEW n, NEW negated \in BOOLEAN, NEW x \in Expected, Literal(e, n, negated, x).ok
  PROVE  LET r == Literal(e, n, negated, x)
         IN  /\ IsInt(r.t) /\ r.t \in ValueTypes
             /\ n <= IF negated THEN NegatedLimit(r.t) ELSE MaxOf(r.t)
             /\ r.e = Annotated(e, e.a, r.t)
             /\ x = Untyped \/ r.t = x
<1> DEFINE t == IF x = Untyped THEN Named("Int64") ELSE x
<1>1. IsInt(t) /\ n <= (IF negated THEN NegatedLimit(t) ELSE MaxOf(t))
  BY BadIsBad DEF Literal
<1>2. Literal(e, n, negated, x) = Typed(t, Annotated(e, e.a, t))
  BY BadIsBad DEF Literal
<1>3. Named("Int64") \in ValueTypes
  BY TypesAssumption DEF Signed
<1>4. t \in ValueTypes
  BY <1>1, <1>3, IntTypes
<1> HIDE DEF t
<1>5. Typed(t, Annotated(e, e.a, t)).t = t /\ Typed(t, Annotated(e, e.a, t)).e = Annotated(e, e.a, t)
  BY BadIsBad
<1> QED BY <1>1, <1>2, <1>4, <1>5 DEF t

LEMMA OverTaken ==
  ASSUME NEW e, NEW p, NEW legal \in BOOLEAN, NEW t, Over(e, p, legal, t).ok
  PROVE  p.ok /\ legal /\ Over(e, p, legal, t).t = t /\ Over(e, p, legal, t).e = Annotated(e, <<p.e>>, t)
BY BadIsBad DEF Over

LEMMA SinkTaken ==
  ASSUME NEW e, NEW p, NEW refused, NEW t, Sink(e, p, refused, t).ok
  PROVE  /\ p.ok /\ p.t \notin refused
         /\ Sink(e, p, refused, t).t = t /\ Sink(e, p, refused, t).e = Annotated(e, <<p.e>>, p.t)
BY BadIsBad DEF Sink

LEMMA BinaryTaken ==
  ASSUME NEW e, NEW p, NEW q, NEW legal \in BOOLEAN, NEW r, NEW t, Binary(e, p, q, legal, r, t).ok
  PROVE  /\ p.ok /\ q.ok /\ legal
         /\ Binary(e, p, q, legal, r, t).t = t /\ Binary(e, p, q, legal, r, t).e = Annotated(e, <<p.e, q.e>>, r)
BY BadIsBad DEF Binary

LEMMA ResolvedTaken ==
  ASSUME NEW e, NEW rs, NEW legal \in BOOLEAN, NEW t, Resolved(e, rs, legal, t).ok
  PROVE  /\ legal /\ \A i \in DOMAIN rs : rs[i].ok
         /\ Resolved(e, rs, legal, t).t = t /\ Resolved(e, rs, legal, t).e = Annotated(e, Trees(rs), t)
BY BadIsBad DEF Resolved, AllOk

LEMMA BranchingTaken ==
  ASSUME NEW e, NEW ty, NEW cs, NEW bs, NEW t, Branching(e, ty, cs, bs, t).ok
  PROVE  /\ \A i \in DOMAIN cs : cs[i].ok
         /\ \A i \in DOMAIN bs : bs[i].ok
         /\ Branching(e, ty, cs, bs, t).t = t
         /\ Branching(e, ty, cs, bs, t).e = With(e, ty, Trees(cs), Trees(bs), t)
BY BadIsBad DEF Branching, AllOk

\* The trees of the parts that were accepted are parts again.
LEMMA TreesFit ==
  ASSUME NEW T, NEW ds \in Seq(T), NEW rs, DOMAIN rs = DOMAIN ds,
         \A i \in DOMAIN ds : rs[i].e \in T /\ rs[i].e.k = ds[i].k
  PROVE  /\ Trees(rs) \in Seq(T) /\ SameKinds(Trees(rs), ds)
         /\ DOMAIN Trees(rs) = DOMAIN ds /\ \A i \in DOMAIN ds : Trees(rs)[i] = rs[i].e
<1>1. Trees(rs) = [i \in 1 .. Len(ds) |-> rs[i].e] /\ Len(ds) \in Nat /\ DOMAIN ds = 1 .. Len(ds)
  BY DEF Trees
<1>2. Trees(rs) \in Seq(T) /\ Len(Trees(rs)) = Len(ds)
  BY <1>1
<1> QED BY <1>1, <1>2 DEF SameKinds

LEMMA OneFits ==
  ASSUME NEW T, NEW as \in Seq(T), Len(as) = 1, NEW f \in T, f.k = as[1].k
  PROVE  <<f>> \in Seq(T) /\ SameKinds(<<f>>, as) /\ <<f>>[1] = f
<1>1. DOMAIN as = {1}
  BY SeqElement
<1>2. <<f>> \in Seq(T) /\ Len(<<f>>) = 1 /\ <<f>>[1] = f
  OBVIOUS
<1> QED BY <1>1, <1>2 DEF SameKinds

LEMMA TwoFit ==
  ASSUME NEW T, NEW as \in Seq(T), Len(as) = 2, NEW f \in T, NEW g \in T, f.k = as[1].k, g.k = as[2].k
  PROVE  <<f, g>> \in Seq(T) /\ SameKinds(<<f, g>>, as) /\ <<f, g>>[1] = f /\ <<f, g>>[2] = g
<1>1. DOMAIN as = {1, 2}
  BY SeqElement
<1>2. <<f, g>> \in Seq(T) /\ Len(<<f, g>>) = 2 /\ <<f, g>>[1] = f /\ <<f, g>>[2] = g
  OBVIOUS
<1> QED BY <1>1, <1>2 DEF SameKinds

LEMMA KindsOfItself ==
  ASSUME NEW T, NEW as \in Seq(T)
  PROVE  SameKinds(as, as)
BY DEF SameKinds

\* An annotated node has the shape of the node.
LEMMA AnnotatedFits ==
  ASSUME NEW T, NEW e \in NodesOver(T), NEW a \in Seq(T), SameKinds(a, e.a), NEW r \in Expected
  PROVE  LET f == Annotated(e, a, r)
         IN  /\ f \in NodesOver(T) /\ f.k = e.k /\ f.op = e.op /\ f.n = e.n /\ f.ty = e.ty
             /\ f.cs = e.cs /\ f.a = a /\ f.r = r
<1>1. e.ty \in Expected /\ e.cs \in Seq(T) /\ SameKinds(e.cs, e.cs)
  BY NodeIs, KindsOfItself
<1>2. Annotated(e, a, r) \in NodesOver(T)
  BY <1>1, WithShaped DEF Annotated
<1> QED BY <1>2, WithIs DEF Annotated

(* The kinds of one part. *)

LEMMA ExpectedTypes ==
  /\ Untyped \in Expected /\ Bool \in Expected /\ ErrorT \in Expected
  /\ AnyT \notin Expected
  /\ \A T : \A e \in NodesOver(T) : e.ty \in Expected
  /\ \A c \in Contexts : c.ret \in Expected /\ c.ret # Untyped
<1>1. ASSUME NEW c \in Contexts PROVE c.ret \in Expected /\ c.ret # Untyped
  <2>1. c.ret \in ValueTypes \cup {Unit}
    BY DEF Contexts
  <2> QED BY <2>1, BasicTypes
<1> QED BY <1>1, BasicTypes, NodeIs DEF Expected

LEMMA NotTaken ==
  ASSUME NEW T, NEW sub, RegularAt(T, sub), NEW e \in NodesOver(T), NEW x \in Expected,
         NEW c \in Contexts, e.k = "unary", e.op = "!", Resolve(sub, e, x, c).ok
  PROVE  LET r == Resolve(sub, e, x, c)
             p == Check(sub, e.a[1], Bool, c)
         IN  /\ Fine(T, sub, e.a[1], Bool, c, p) /\ p.t \in {Bool, Never}
             /\ r.t = Bool /\ r.e = Annotated(e, <<p.e>>, Bool)
<1> DEFINE p == Check(sub, e.a[1], Bool, c)
<1>1. e.a[1] \in T /\ e.a[1].k \in Expression
  BY PartsOf DEF OverOne
<1>2. Resolve(sub, e, x, c) = Over(e, p, TRUE, Bool)
  BY DEF Resolve, ResolveUnary
<1> HIDE DEF p
<1>3. p.ok /\ Over(e, p, TRUE, Bool).t = Bool /\ Over(e, p, TRUE, Bool).e = Annotated(e, <<p.e>>, Bool)
  BY <1>2, BadIsBad DEF Over
<1>4. Fine(T, sub, e.a[1], Bool, c, p) /\ p.t \in {Bool, Never}
  <2>1. Bool \in Expected /\ Bool \notin {Untyped, AnyT}
    BY BasicTypes, ExpectedTypes
  <2> QED BY <1>1, <1>3, <2>1, Checked DEF p
<1> QED BY <1>2, <1>3, <1>4 DEF p

LEMMA MinusLiteralTaken ==
  ASSUME NEW T, NEW sub, RegularAt(T, sub), NEW e \in NodesOver(T), NEW x \in Expected,
         NEW c \in Contexts, e.k = "unary", e.op = "-", IsLit(e.a[1]), Resolve(sub, e, x, c).ok
  PROVE  LET r == Resolve(sub, e, x, c)
         IN  /\ IsInt(r.t) /\ r.t \in ValueTypes /\ e.a[1].n <= NegatedLimit(r.t)
             /\ r.e = Annotated(e, e.a, r.t)
<1>1. Resolve(sub, e, x, c) = Literal(e, e.a[1].n, TRUE, x)
  BY DEF Resolve, ResolveUnary
<1> DEFINE r == Literal(e, e.a[1].n, TRUE, x)
<1>2. TRUE \in BOOLEAN
  OBVIOUS
<1>3. r.ok
  BY <1>1
<1>4. /\ IsInt(r.t) /\ r.t \in ValueTypes
      /\ e.a[1].n <= IF TRUE THEN NegatedLimit(r.t) ELSE MaxOf(r.t)
      /\ r.e = Annotated(e, e.a, r.t)
  BY <1>2, <1>3, LiteralTaken, Zenon
<1> QED BY <1>1, <1>4

LEMMA MinusTaken ==
  ASSUME NEW T, NEW sub, RegularAt(T, sub), NEW e \in NodesOver(T), NEW x \in Expected,
         NEW c \in Contexts, e.k = "unary", e.op = "-", ~IsLit(e.a[1]), Resolve(sub, e, x, c).ok
  PROVE  LET r == Resolve(sub, e, x, c)
             p == Check(sub, e.a[1], x, c)
         IN  /\ Fine(T, sub, e.a[1], x, c, p) /\ IsInt(p.t)
             /\ r.t = p.t /\ r.e = Annotated(e, <<p.e>>, p.t)
<1> DEFINE p == Check(sub, e.a[1], x, c)
<1>1. e.a[1] \in T /\ e.a[1].k \in Expression
  BY PartsOf DEF OverOne
<1>2. Resolve(sub, e, x, c) = Over(e, p, IsInt(p.t), p.t)
  BY DEF Resolve, ResolveUnary, Negation
<1>3. IsInt(p.t) \in BOOLEAN
  BY DEF IsInt
<1> HIDE DEF p
<1>4. p.ok /\ IsInt(p.t) /\ Over(e, p, IsInt(p.t), p.t).t = p.t
      /\ Over(e, p, IsInt(p.t), p.t).e = Annotated(e, <<p.e>>, p.t)
  BY <1>2, <1>3, OverTaken
<1>5. Fine(T, sub, e.a[1], x, c, p)
  BY <1>1, <1>4, Checked, ExpectedTypes DEF p
<1> QED BY <1>2, <1>4, <1>5 DEF p

LEMMA NamedTaken ==
  ASSUME NEW T, NEW sub, RegularAt(T, sub), NEW e \in NodesOver(T), NEW x \in Expected,
         NEW c \in Contexts, e.k = "named", Resolve(sub, e, x, c).ok
  PROVE  LET r == Resolve(sub, e, x, c)
             p == Check(sub, e.a[1], x, c)
         IN  /\ Fine(T, sub, e.a[1], x, c, p) /\ (x = Untyped \/ p.t \in {x, Never})
             /\ r.t = p.t /\ r.e = Annotated(e, <<p.e>>, p.t)
<1> DEFINE p == Check(sub, e.a[1], x, c)
<1>1. e.a[1] \in T /\ e.a[1].k \in Expression
  BY PartsOf DEF OverOne
<1>2. Resolve(sub, e, x, c) = Over(e, p, TRUE, p.t)
  BY DEF Resolve, NamedOf
<1> HIDE DEF p
<1>4. p.ok /\ Over(e, p, TRUE, p.t).t = p.t /\ Over(e, p, TRUE, p.t).e = Annotated(e, <<p.e>>, p.t)
  BY <1>2, BadIsBad DEF Over
<1>5. Fine(T, sub, e.a[1], x, c, p) /\ (x = Untyped \/ p.t \in {x, Never})
  BY <1>1, <1>4, Checked, ExpectedTypes DEF p
<1> QED BY <1>2, <1>4, <1>5 DEF p

LEMMA FieldTaken ==
  ASSUME NEW T, NEW sub, RegularAt(T, sub), NEW e \in NodesOver(T), NEW x \in Expected,
         NEW c \in Contexts, e.k = "field", Resolve(sub, e, x, c).ok
  PROVE  LET r == Resolve(sub, e, x, c)
             p == Check(sub, e.a[1], Untyped, c)
         IN  /\ Fine(T, sub, e.a[1], Untyped, c, p)
             /\ e.op \in NamesOf(Readable(p.t))
             /\ r.t = TypeIn(Readable(p.t), e.op) /\ r.e = Annotated(e, <<p.e>>, r.t)
<1> DEFINE p == Check(sub, e.a[1], Untyped, c)
           legal == e.op \in NamesOf(Readable(p.t))
           t == TypeIn(Readable(p.t), e.op)
<1>1. e.a[1] \in T /\ e.a[1].k \in Expression
  BY PartsOf DEF OverOne
<1>2. Resolve(sub, e, x, c) = Over(e, p, legal, t)
  BY DEF Resolve, FieldOf
<1>3. legal \in BOOLEAN
  OBVIOUS
<1> HIDE DEF p, legal, t
<1>4. p.ok /\ legal /\ Over(e, p, legal, t).t = t /\ Over(e, p, legal, t).e = Annotated(e, <<p.e>>, t)
  BY <1>2, <1>3, OverTaken
<1>5. Fine(T, sub, e.a[1], Untyped, c, p)
  BY <1>1, <1>4, Checked, ExpectedTypes DEF p
<1> QED BY <1>2, <1>4, <1>5 DEF p, legal, t

LEMMA TryTaken ==
  ASSUME NEW T, NEW sub, RegularAt(T, sub), NEW e \in NodesOver(T), NEW x \in Expected,
         NEW c \in Contexts, e.k = "try", Resolve(sub, e, x, c).ok
  PROVE  LET r == Resolve(sub, e, x, c)
             p == Check(sub, e.a[1], Untyped, c)
         IN  /\ Fine(T, sub, e.a[1], Untyped, c, p)
             /\ p.t = ErrorT \/ IsFallible(p.t)
             /\ c.ret = ErrorT \/ IsFallible(c.ret)
             /\ r.t = (IF p.t = ErrorT THEN Unit ELSE p.t.fst) /\ r.e = Annotated(e, <<p.e>>, r.t)
<1> DEFINE p == Check(sub, e.a[1], Untyped, c)
           legal == (p.t = ErrorT \/ IsFallible(p.t)) /\ TryAllowed(c.ret)
           t == IF p.t = ErrorT THEN Unit ELSE p.t.fst
<1>1. e.a[1] \in T /\ e.a[1].k \in Expression
  BY PartsOf DEF OverOne
<1>2. Resolve(sub, e, x, c) = Over(e, p, legal, t)
  BY DEF Resolve, TryOf
<1>3. legal \in BOOLEAN
  BY DEF IsFallible, TryAllowed
<1>4. legal => (p.t = ErrorT \/ IsFallible(p.t)) /\ (c.ret = ErrorT \/ IsFallible(c.ret))
  BY DEF TryAllowed
<1> HIDE DEF p, legal, t
<1>5. p.ok /\ legal /\ Over(e, p, legal, t).t = t /\ Over(e, p, legal, t).e = Annotated(e, <<p.e>>, t)
  BY <1>2, <1>3, OverTaken
<1>6. Fine(T, sub, e.a[1], Untyped, c, p)
  BY <1>1, <1>5, Checked, ExpectedTypes DEF p
<1> QED BY <1>2, <1>4, <1>5, <1>6 DEF p, t

LEMMA LetTaken ==
  ASSUME NEW T, NEW sub, RegularAt(T, sub), NEW e \in NodesOver(T), NEW x \in Expected,
         NEW c \in Contexts, e.k = "let", Resolve(sub, e, x, c).ok
  PROVE  LET r == Resolve(sub, e, x, c)
             p == Check(sub, e.a[1], e.ty, c)
         IN  /\ Fine(T, sub, e.a[1], e.ty, c, p)
             /\ p.t # Never /\ (e.ty = Untyped \/ p.t = e.ty)
             /\ r.t = Unit /\ r.e = Annotated(e, <<p.e>>, p.t)
<1> DEFINE p == Check(sub, e.a[1], e.ty, c)
<1>1. e.a[1] \in T /\ e.a[1].k \in Expression /\ e.ty \in Expected
  BY PartsOf, NodeIs DEF OverOne
<1>2. Resolve(sub, e, x, c) = Sink(e, p, {Unit, Never}, Unit)
  BY DEF Resolve
<1> HIDE DEF p
<1>4. /\ p.ok /\ p.t \notin {Unit, Never}
      /\ Sink(e, p, {Unit, Never}, Unit).t = Unit /\ Sink(e, p, {Unit, Never}, Unit).e = Annotated(e, <<p.e>>, p.t)
  BY <1>2, SinkTaken
<1>5. Fine(T, sub, e.a[1], e.ty, c, p) /\ (e.ty = Untyped \/ p.t \in {e.ty, Never})
  BY <1>1, <1>4, Checked, ExpectedTypes DEF p
<1> QED BY <1>2, <1>4, <1>5 DEF p

LEMMA AssignTaken ==
  ASSUME NEW T, NEW sub, RegularAt(T, sub), NEW e \in NodesOver(T), NEW x \in Expected,
         NEW c \in Contexts, e.k = "assign", Resolve(sub, e, x, c).ok
  PROVE  LET r == Resolve(sub, e, x, c)
             p == Check(sub, e.a[1], e.ty, c)
         IN  /\ Fine(T, sub, e.a[1], e.ty, c, p)
             /\ p.t = e.ty
             /\ r.t = Unit /\ r.e = Annotated(e, <<p.e>>, p.t)
<1> DEFINE p == Check(sub, e.a[1], e.ty, c)
<1>1. e.a[1] \in T /\ e.a[1].k \in Expression /\ e.ty \in Expected
  BY PartsOf, NodeIs DEF OverOne
<1>2. Resolve(sub, e, x, c) = Sink(e, p, {Never}, Unit)
  BY DEF Resolve
<1>3. e.ty # Untyped
  <2>1. e.ty \in ValueTypes
    BY NodeIs DEF Shaped
  <2> QED BY <2>1, BasicTypes
<1> HIDE DEF p
<1>4. /\ p.ok /\ p.t \notin {Never}
      /\ Sink(e, p, {Never}, Unit).t = Unit /\ Sink(e, p, {Never}, Unit).e = Annotated(e, <<p.e>>, p.t)
  BY <1>2, SinkTaken
<1>5. Fine(T, sub, e.a[1], e.ty, c, p) /\ (e.ty = Untyped \/ p.t \in {e.ty, Never})
  BY <1>1, <1>4, Checked, ExpectedTypes DEF p
<1> QED BY <1>2, <1>3, <1>4, <1>5 DEF p

LEMMA DiscardTaken ==
  ASSUME NEW T, NEW sub, RegularAt(T, sub), NEW e \in NodesOver(T), NEW x \in Expected,
         NEW c \in Contexts, e.k = "discard", Resolve(sub, e, x, c).ok
  PROVE  LET r == Resolve(sub, e, x, c)
             p == Check(sub, e.a[1], Untyped, c)
         IN  /\ Fine(T, sub, e.a[1], Untyped, c, p)
             /\ r.t = Unit /\ r.e = Annotated(e, <<p.e>>, p.t)
<1> DEFINE p == Check(sub, e.a[1], Untyped, c)
<1>1. e.a[1] \in T /\ e.a[1].k \in Expression
  BY PartsOf DEF OverOne
<1>2. Resolve(sub, e, x, c) = Sink(e, p, {}, Unit)
  BY DEF Resolve
<1> HIDE DEF p
<1>4. p.ok /\ Sink(e, p, {}, Unit).t = Unit /\ Sink(e, p, {}, Unit).e = Annotated(e, <<p.e>>, p.t)
  BY <1>2, SinkTaken
<1>5. Fine(T, sub, e.a[1], Untyped, c, p)
  BY <1>1, <1>4, Checked, ExpectedTypes DEF p
<1> QED BY <1>2, <1>4, <1>5 DEF p

LEMMA ReturnTaken ==
  ASSUME NEW T, NEW sub, RegularAt(T, sub), NEW e \in NodesOver(T), NEW x \in Expected,
         NEW c \in Contexts, e.k = "return", e.a # << >>, Resolve(sub, e, x, c).ok
  PROVE  LET r == Resolve(sub, e, x, c)
             p == Check(sub, e.a[1], c.ret, c)
         IN  /\ Fine(T, sub, e.a[1], c.ret, c, p) /\ p.t \in {c.ret, Never}
             /\ r.t = Never /\ r.e = Annotated(e, <<p.e>>, p.t)
<1> DEFINE p == Check(sub, e.a[1], c.ret, c)
<1>1. e.a[1] \in T /\ e.a[1].k \in Expression /\ c.ret \in Expected /\ c.ret # Untyped
  BY ReturnPart, ExpectedTypes
<1>2. Resolve(sub, e, x, c) = Sink(e, p, {}, Never)
  BY DEF Resolve
<1> HIDE DEF p
<1>4. p.ok /\ Sink(e, p, {}, Never).t = Never /\ Sink(e, p, {}, Never).e = Annotated(e, <<p.e>>, p.t)
  BY <1>2, SinkTaken
<1>5. Fine(T, sub, e.a[1], c.ret, c, p) /\ p.t \in {c.ret, Never}
  BY <1>1, <1>4, Checked, ExpectedTypes DEF p
<1> QED BY <1>2, <1>4, <1>5 DEF p

-----------------------------------------------------------------------------
(* The leaves. *)

LEMMA IntTaken ==
  ASSUME NEW T, NEW sub, NEW e \in NodesOver(T), NEW x \in Expected,
         NEW c \in Contexts, e.k = "int", Resolve(sub, e, x, c).ok
  PROVE  LET r == Resolve(sub, e, x, c)
         IN  /\ IsInt(r.t) /\ r.t \in ValueTypes /\ e.n <= MaxOf(r.t)
             /\ r.e = Annotated(e, e.a, r.t)
<1>1. Resolve(sub, e, x, c) = Literal(e, e.n, FALSE, x)
  BY DEF Resolve
<1> DEFINE r == Literal(e, e.n, FALSE, x)
<1>2. FALSE \in BOOLEAN
  OBVIOUS
<1>3. r.ok
  BY <1>1
<1>4. /\ IsInt(r.t) /\ r.t \in ValueTypes
      /\ e.n <= IF FALSE THEN NegatedLimit(r.t) ELSE MaxOf(r.t)
      /\ r.e = Annotated(e, e.a, r.t)
  BY <1>2, <1>3, LiteralTaken, Zenon
<1> QED BY <1>1, <1>4

LEMMA VarTaken ==
  ASSUME NEW T, NEW sub, NEW e \in NodesOver(T), NEW x, NEW c, e.k = "var"
  PROVE  LET r == Resolve(sub, e, x, c)
         IN  r.t = e.ty /\ e.ty \in ValueTypes /\ r.e = Annotated(e, e.a, e.ty)
<1>1. Resolve(sub, e, x, c) = Typed(e.ty, Annotated(e, e.a, e.ty))
  BY DEF Resolve
<1>2. e.ty \in ValueTypes
  BY NodeIs DEF Shaped
<1> QED BY <1>1, <1>2, BadIsBad

LEMMA BoundTaken ==
  ASSUME NEW T, NEW sub, NEW e \in NodesOver(T), NEW x, NEW c \in Contexts,
         e.k = "bound", Resolve(sub, e, x, c).ok
  PROVE  LET r == Resolve(sub, e, x, c)
         IN  /\ e.op \in Bindable /\ r.t = c.bound[e.op] /\ r.t \in ValueTypes
             /\ r.e = Annotated(e, e.a, r.t)
<1> DEFINE t == c.bound[e.op]
<1>1. Resolve(sub, e, x, c) = IF e.op \in Bindable /\ t # Untyped THEN Typed(t, Annotated(e, e.a, t)) ELSE Bad
  BY DEF Resolve
<1>2. e.op \in Bindable => t \in ValueTypes \cup {Untyped}
  BY DEF Contexts
<1> HIDE DEF t
<1>3. e.op \in Bindable /\ t # Untyped /\ Resolve(sub, e, x, c) = Typed(t, Annotated(e, e.a, t))
  BY <1>1, BadIsBad
<1> QED BY <1>2, <1>3, BadIsBad DEF t

LEMMA JumpTaken ==
  ASSUME NEW T, NEW sub, NEW e \in NodesOver(T), NEW x, NEW c \in Contexts,
         e.k \in {"break", "continue"}, Resolve(sub, e, x, c).ok
  PROVE  c.loop > 0 /\ Resolve(sub, e, x, c) = Typed(Never, e)
<1>1. Resolve(sub, e, x, c) = IF c.loop = 0 THEN Bad ELSE Typed(Never, e)
  BY DEF Resolve
<1>2. c.loop \in Nat
  BY DEF Contexts
<1> QED BY <1>1, <1>2, BadIsBad

LEMMA EmptyReturnTaken ==
  ASSUME NEW T, NEW sub, NEW e \in NodesOver(T), NEW x, NEW c \in Contexts,
         e.k = "return", e.a = << >>, Resolve(sub, e, x, c).ok
  PROVE  c.ret = Unit /\ Resolve(sub, e, x, c) = Typed(Never, e)
<1>1. Resolve(sub, e, x, c) = IF c.ret = Unit THEN Typed(Never, e) ELSE Bad
  BY DEF Resolve
<1> QED BY <1>1, BadIsBad

-----------------------------------------------------------------------------
(* The kinds of two parts. *)

LEMMA LogicalTaken ==
  ASSUME NEW T, NEW sub, RegularAt(T, sub), NEW e \in NodesOver(T), NEW x \in Expected,
         NEW c \in Contexts, e.k = "binary", e.op = "&&", Resolve(sub, e, x, c).ok
  PROVE  LET r == Resolve(sub, e, x, c)
             p == Check(sub, e.a[1], Bool, c)
             q == Check(sub, e.a[2], Bool, c)
         IN  /\ Fine(T, sub, e.a[1], Bool, c, p) /\ p.t \in {Bool, Never}
             /\ Fine(T, sub, e.a[2], Bool, c, q) /\ q.t \in {Bool, Never}
             /\ r.t = Bool /\ r.e = Annotated(e, <<p.e, q.e>>, Bool)
<1> DEFINE p == Check(sub, e.a[1], Bool, c)
           q == Check(sub, e.a[2], Bool, c)
<1>1. {e.a[1], e.a[2]} \subseteq T /\ e.a[1].k \in Expression /\ e.a[2].k \in Expression
  BY PartsOf
<1>2. Resolve(sub, e, x, c) = ResolveBinary(sub, e, x, c)
  BY DEF Resolve
<1>3. Resolve(sub, e, x, c) = Binary(e, p, q, TRUE, Bool, Bool)
  BY <1>2 DEF ResolveBinary, Logical
<1>4. Bool \in Expected /\ Bool \notin {Untyped, AnyT}
  BY BasicTypes, ExpectedTypes
<1> HIDE DEF p, q
<1>5. /\ p.ok /\ q.ok
      /\ Binary(e, p, q, TRUE, Bool, Bool).t = Bool
      /\ Binary(e, p, q, TRUE, Bool, Bool).e = Annotated(e, <<p.e, q.e>>, Bool)
  BY <1>3, BadIsBad DEF Binary
<1>6. Fine(T, sub, e.a[1], Bool, c, p) /\ p.t \in {Bool, Never}
  BY <1>1, <1>4, <1>5, Checked DEF p
<1>7. Fine(T, sub, e.a[2], Bool, c, q) /\ q.t \in {Bool, Never}
  BY <1>1, <1>4, <1>5, Checked DEF q
<1> QED BY <1>3, <1>5, <1>6, <1>7 DEF p, q

LEMMA ShiftTaken ==
  ASSUME NEW T, NEW sub, RegularAt(T, sub), NEW e \in NodesOver(T), NEW x \in Expected,
         NEW c \in Contexts, e.k = "binary", e.op = "<<", Resolve(sub, e, x, c).ok
  PROVE  LET r == Resolve(sub, e, x, c)
             p == Check(sub, e.a[1], x, c)
             q == sub[e.a[2]][Named("UInt64")][c]
         IN  /\ Fine(T, sub, e.a[1], x, c, p) /\ IsInt(p.t)
             /\ Fine(T, sub, e.a[2], Named("UInt64"), c, q) /\ IsUInt(q.t)
             /\ r.t = p.t /\ r.e = Annotated(e, <<p.e, q.e>>, p.t)
<1> DEFINE u == Named("UInt64")
           p == Check(sub, e.a[1], x, c)
           q == sub[e.a[2]][u][c]
           legal == IsInt(p.t) /\ IsUInt(q.t)
<1>1. {e.a[1], e.a[2]} \subseteq T /\ e.a[1].k \in Expression /\ e.a[2].k \in Expression
  BY PartsOf
<1>2. Resolve(sub, e, x, c) = ResolveBinary(sub, e, x, c)
  BY DEF Resolve
<1>3. Resolve(sub, e, x, c) = Binary(e, p, q, legal, p.t, p.t)
  BY <1>2 DEF ResolveBinary, Shift
<1>4. u \in Expected
  <2>1. u \in ValueTypes
    BY TypesAssumption DEF Unsigned
  <2> QED BY <2>1, BasicTypes
<1>5. Apt(e.a[2]) /\ e.a[2].k # "block"
  BY <1>1 DEF Apt, Expression
<1>6. legal \in BOOLEAN
  BY DEF IsInt, IsUInt
<1> HIDE DEF p, q, legal, u
<1>7. /\ p.ok /\ q.ok /\ legal
      /\ Binary(e, p, q, legal, p.t, p.t).t = p.t
      /\ Binary(e, p, q, legal, p.t, p.t).e = Annotated(e, <<p.e, q.e>>, p.t)
  BY <1>3, <1>6, BadIsBad DEF Binary
<1>8. Fine(T, sub, e.a[1], x, c, p)
  BY <1>1, <1>7, Checked, ExpectedTypes DEF p
<1>9. Fine(T, sub, e.a[2], u, c, q)
  BY <1>1, <1>4, <1>5, <1>7, CheckedRaw DEF q
<1> QED BY <1>3, <1>7, <1>8, <1>9 DEF p, q, legal, u

\* The two operands, resolved in one order or the other.
OperandsFine(T, sub, e, x, c, p, q) ==
  /\ \E y \in {x, Untyped, q.t} : Fine(T, sub, e.a[1], y, c, p)
  /\ \E z \in {x, Untyped, p.t} : Fine(T, sub, e.a[2], z, c, q)

LEMMA OperandsTaken ==
  ASSUME NEW T, NEW sub, RegularAt(T, sub), NEW e \in NodesOver(T), e.k = "binary",
         NEW x \in Expected, NEW c \in Contexts,
         Operands(sub, e, x, c)[1].ok, Operands(sub, e, x, c)[2].ok
  PROVE  OperandsFine(T, sub, e, x, c, Operands(sub, e, x, c)[1], Operands(sub, e, x, c)[2])
<1> DEFINE p == Operands(sub, e, x, c)[1]
           q == Operands(sub, e, x, c)[2]
<1>1. {e.a[1], e.a[2]} \subseteq T /\ e.a[1].k \in Expression /\ e.a[2].k \in Expression
  BY PartsOf
<1>2. CASE ResolvedFirst(e.a[1], e.a[2])
  <2>1. p = Check(sub, e.a[1], x, c) /\ q = Check(sub, e.a[2], p.t, c)
    BY <1>2 DEF Operands, WithRight
  <2> HIDE DEF p, q
  <2>2. Fine(T, sub, e.a[1], x, c, p)
    BY <1>1, <2>1, Checked, ExpectedTypes DEF p
  <2>3. p.t \in Expected /\ p.t # AnyT
    BY <2>2, BasicTypes DEF Fine
  <2>4. Fine(T, sub, e.a[2], p.t, c, q)
    BY <1>1, <2>1, <2>3, Checked DEF q
  <2> QED BY <2>2, <2>4 DEF OperandsFine, p, q
<1>3. CASE ~ResolvedFirst(e.a[1], e.a[2])
  <2>1. q = Check(sub, e.a[2], x, c) /\ p = Check(sub, e.a[1], q.t, c)
    BY <1>3 DEF Operands, WithLeft
  <2> HIDE DEF p, q
  <2>2. Fine(T, sub, e.a[2], x, c, q)
    BY <1>1, <2>1, Checked, ExpectedTypes DEF q
  <2>3. q.t \in Expected /\ q.t # AnyT
    BY <2>2, BasicTypes DEF Fine
  <2>4. Fine(T, sub, e.a[1], q.t, c, p)
    BY <1>1, <2>1, <2>3, Checked DEF p
  <2> QED BY <2>2, <2>4 DEF OperandsFine, p, q
<1> QED BY <1>2, <1>3

LEMMA SumTaken ==
  ASSUME NEW T, NEW sub, RegularAt(T, sub), NEW e \in NodesOver(T), NEW x \in Expected,
         NEW c \in Contexts, e.k = "binary", e.op = "+", Resolve(sub, e, x, c).ok
  PROVE  LET r == Resolve(sub, e, x, c)
             p == Operands(sub, e, x, c)[1]
             q == Operands(sub, e, x, c)[2]
         IN  /\ OperandsFine(T, sub, e, x, c, p, q) /\ p.t = q.t /\ IsInt(p.t)
             /\ r.t = p.t /\ r.e = Annotated(e, <<p.e, q.e>>, p.t)
<1> DEFINE p == Operands(sub, e, x, c)[1]
           q == Operands(sub, e, x, c)[2]
           legal == p.t = q.t /\ IsInt(p.t)
<1>2. Resolve(sub, e, x, c) = ResolveBinary(sub, e, x, c)
  BY DEF Resolve
<1>3. Resolve(sub, e, x, c) = Binary(e, p, q, legal, p.t, p.t)
  BY <1>2 DEF ResolveBinary, Sum
<1>6. legal \in BOOLEAN
  BY DEF IsInt
<1> HIDE DEF p, q, legal
<1>7. /\ p.ok /\ q.ok /\ legal
      /\ Binary(e, p, q, legal, p.t, p.t).t = p.t
      /\ Binary(e, p, q, legal, p.t, p.t).e = Annotated(e, <<p.e, q.e>>, p.t)
  BY <1>3, <1>6, BadIsBad DEF Binary
<1>8. OperandsFine(T, sub, e, x, c, p, q)
  BY <1>7, OperandsTaken DEF p, q
<1> QED BY <1>3, <1>7, <1>8 DEF p, q, legal

LEMMA EqualityTaken ==
  ASSUME NEW T, NEW sub, RegularAt(T, sub), NEW e \in NodesOver(T), NEW x \in Expected,
         NEW c \in Contexts, e.k = "binary", e.op = "==", Resolve(sub, e, x, c).ok
  PROVE  LET r == Resolve(sub, e, x, c)
             p == Operands(sub, e, Untyped, c)[1]
             q == Operands(sub, e, Untyped, c)[2]
         IN  /\ OperandsFine(T, sub, e, Untyped, c, p, q) /\ p.t = q.t /\ ~IsList(p.t) /\ ~IsEnum(p.t)
             /\ r.t = Bool /\ r.e = Annotated(e, <<p.e, q.e>>, p.t)
<1> DEFINE p == Operands(sub, e, Untyped, c)[1]
           q == Operands(sub, e, Untyped, c)[2]
           legal == p.t = q.t /\ ~IsList(p.t) /\ ~IsEnum(p.t)
<1>2. Resolve(sub, e, x, c) = ResolveBinary(sub, e, x, c)
  BY DEF Resolve
<1>3. Resolve(sub, e, x, c) = Binary(e, p, q, legal, p.t, Bool)
  BY <1>2 DEF ResolveBinary, Equality
<1>6. legal \in BOOLEAN
  BY DEF IsList, IsEnum
<1> HIDE DEF p, q, legal
<1>7. /\ p.ok /\ q.ok /\ legal
      /\ Binary(e, p, q, legal, p.t, Bool).t = Bool
      /\ Binary(e, p, q, legal, p.t, Bool).e = Annotated(e, <<p.e, q.e>>, p.t)
  BY <1>3, <1>6, BadIsBad DEF Binary
<1>8. OperandsFine(T, sub, e, Untyped, c, p, q)
  BY <1>7, OperandsTaken, ExpectedTypes DEF p, q
<1> QED BY <1>3, <1>7, <1>8 DEF p, q, legal

LEMMA TupleTaken ==
  ASSUME NEW T, NEW sub, RegularAt(T, sub), NEW e \in NodesOver(T), NEW x \in Expected,
         NEW c \in Contexts, e.k = "tuple", Resolve(sub, e, x, c).ok
  PROVE  LET r == Resolve(sub, e, x, c)
             p == Check(sub, e.a[1], Untyped, c)
             q == Check(sub, e.a[2], Untyped, c)
         IN  /\ Fine(T, sub, e.a[1], Untyped, c, p) /\ Fine(T, sub, e.a[2], Untyped, c, q)
             /\ r.t = Pair(p.t, q.t) /\ r.t \in Types
             /\ r.e = Annotated(e, <<p.e, q.e>>, r.t)
<1> DEFINE p == Check(sub, e.a[1], Untyped, c)
           q == Check(sub, e.a[2], Untyped, c)
           t == Pair(p.t, q.t)
           legal == t \in Types /\ \A s \in {p.t, q.t} : s # Unit /\ ~IsTuple(s)
<1>1. {e.a[1], e.a[2]} \subseteq T /\ e.a[1].k \in Expression /\ e.a[2].k \in Expression
  BY PartsOf
<1>2. Resolve(sub, e, x, c) = TupleOf(e, p, q)
  BY DEF Resolve, ResolveTuple
<1>3. TupleOf(e, p, q) = Resolved(e, <<p, q>>, legal, t)
  BY DEF TupleOf
<1>4. legal \in BOOLEAN /\ (legal => t \in Types)
  OBVIOUS
<1> HIDE DEF p, q, legal, t
<1>5. /\ legal /\ \A i \in DOMAIN <<p, q>> : <<p, q>>[i].ok
      /\ Resolved(e, <<p, q>>, legal, t).t = t /\ Resolved(e, <<p, q>>, legal, t).e = Annotated(e, Trees(<<p, q>>), t)
  BY <1>2, <1>3, <1>4, ResolvedTaken
<1>6. p.ok /\ q.ok
  BY <1>5
<1>7. Trees(<<p, q>>) = <<p.e, q.e>>
  BY DEF Trees
<1>8. Fine(T, sub, e.a[1], Untyped, c, p)
  BY <1>1, <1>6, Checked, ExpectedTypes DEF p
<1>9. Fine(T, sub, e.a[2], Untyped, c, q)
  BY <1>1, <1>6, Checked, ExpectedTypes DEF q
<1> QED BY <1>2, <1>3, <1>4, <1>5, <1>7, <1>8, <1>9 DEF p, q, t

-----------------------------------------------------------------------------
(* The kinds of many parts. *)

LEMMA FirstIs ==
  ASSUME NEW S \in SUBSET Nat, S # {}
  PROVE  First(S) \in S
<1> DEFINE R == {ss \in Nat \X Nat : ss[1] < ss[2]}
<1>1. IsWellFoundedOn(R, Nat)
  BY NatLessThanWellFounded DEF OpToRel
<1>2. PICK m \in S : \A y \in S : <<y, m>> \notin R
  <2> HIDE DEF R
  <2> QED BY <1>1, WFMin
<1>3. \A y \in S : m <= y
  <2> SUFFICES ASSUME NEW y \in S PROVE m <= y
    OBVIOUS
  <2>1. y \in Nat /\ m \in Nat /\ ~(y < m)
    BY <1>2
  <2> QED BY <2>1
<1> QED BY <1>3 DEF First

LEMMA AnchorIs ==
  ASSUME NEW bs, NEW n \in Nat, n # 0, DOMAIN bs = 1 .. n
  PROVE  Anchor(bs) \in 1 .. n
<1> DEFINE fixed == {i \in DOMAIN bs : ~EndsInLit(bs[i]) /\ ~EndsInNever(bs[i])}
           lives == {i \in DOMAIN bs : ~EndsInNever(bs[i])}
<1>1. fixed \in SUBSET (1 .. n) /\ lives \in SUBSET (1 .. n) /\ 1 .. n \in SUBSET Nat
  OBVIOUS
<1>2. Anchor(bs) = IF fixed # {} THEN First(fixed) ELSE IF lives # {} THEN First(lives) ELSE 1
  BY DEF Anchor
<1> HIDE DEF fixed, lives
<1>3. (fixed # {} => First(fixed) \in fixed) /\ (lives # {} => First(lives) \in lives)
  BY <1>1, FirstIs
<1>4. 1 \in 1 .. n
  OBVIOUS
<1> QED BY <1>1, <1>2, <1>3, <1>4

LEMMA FirstFixedIs ==
  ASSUME NEW es, NEW n \in Nat, n # 0, DOMAIN es = 1 .. n
  PROVE  FirstFixed(es) \in DOMAIN es
<1> DEFINE S == {i \in DOMAIN es : ~IsLit(es[i])}
<1>1. S \in SUBSET Nat /\ S \subseteq DOMAIN es
  OBVIOUS
<1>2. FirstFixed(es) = IF S # {} THEN First(S) ELSE 1
  BY DEF FirstFixed
<1> HIDE DEF S
<1>3. S # {} => First(S) \in S
  BY <1>1, FirstIs
<1>4. 1 \in 1 .. n
  OBVIOUS
<1> QED BY <1>1, <1>2, <1>3, <1>4

\* What the checker says of each of the branches, the anchor first.
BodiesFine(T, sub, ds, x, c, rs, t) ==
  /\ DOMAIN rs = DOMAIN ds
  /\ \A i \in DOMAIN ds : rs[i].t \in {t, Never} /\ \E y \in {x, t} : Body(T, sub, ds[i], y, c, rs[i])
  /\ \E k \in DOMAIN ds : rs[k].t = t /\ Body(T, sub, ds[k], x, c, rs[k])

LEMMA BranchesTaken ==
  ASSUME NEW T, NEW sub, RegularAt(T, sub), NEW ds \in Seq(T), ds # << >>,
         \A i \in DOMAIN ds : ds[i].k \in {"block", "case", "default"} /\ Apt(ds[i]),
         NEW live, DOMAIN live = DOMAIN ds, NEW x \in Expected, NEW c \in Contexts,
         \A i \in DOMAIN Branches(sub, ds, live, x, c) : Branches(sub, ds, live, x, c)[i].ok
  PROVE  /\ Anchor(live) \in DOMAIN ds
         /\ BodiesFine(T, sub, ds, x, c, Branches(sub, ds, live, x, c),
                       Branches(sub, ds, live, x, c)[Anchor(live)].t)
         /\ Branches(sub, ds, live, x, c)[Anchor(live)].t \in Types
         /\ x # Untyped => Branches(sub, ds, live, x, c)[Anchor(live)].t \in {x, Never}
<1> DEFINE k == Anchor(live)
           a == sub[ds[k]][x][c]
           rs == Branches(sub, ds, live, x, c)
<1>1. k \in DOMAIN ds
  <2>1. DOMAIN ds = 1 .. Len(ds) /\ Len(ds) \in Nat /\ Len(ds) # 0
    OBVIOUS
  <2> QED BY <2>1, AnchorIs
<1>2. rs = [i \in DOMAIN ds |-> IF i = k THEN a ELSE sub[ds[i]][a.t][c]]
  BY DEF Branches, BesideAnchor
<1>3. \A i \in DOMAIN ds : ds[i] \in T
  OBVIOUS
<1>4. \A i \in DOMAIN ds : rs[i].ok
  BY <1>2
<1>5. rs[k] = a
  BY <1>1, <1>2
<1> HIDE DEF rs, k
<1>6. Body(T, sub, ds[k], x, c, a)
  BY <1>1, <1>3, <1>4, <1>5, CheckedBody
<1> HIDE DEF a
<1>7. a.t \in Types /\ a.t \in Expected /\ a.t # Untyped /\ (x # Untyped => a.t \in {x, Never})
  BY <1>6, BasicTypes DEF Body
<1>8. ASSUME NEW i \in DOMAIN ds PROVE rs[i].t \in {a.t, Never} /\ \E y \in {x, a.t} : Body(T, sub, ds[i], y, c, rs[i])
  <2>1. CASE i = k
    BY <2>1, <1>5, <1>6
  <2>2. CASE i # k
    <3>1. rs[i] = sub[ds[i]][a.t][c]
      BY <1>2, <2>2
    <3>2. Body(T, sub, ds[i], a.t, c, rs[i])
      BY <1>3, <1>4, <1>7, <3>1, CheckedBody
    <3>3. rs[i].t \in {a.t, Never}
      BY <1>7, <3>2 DEF Body
    <3> QED BY <3>2, <3>3
  <2> QED BY <2>1, <2>2
<1>9. DOMAIN rs = DOMAIN ds
  BY <1>2
<1>10. rs[k].t = a.t /\ Body(T, sub, ds[k], x, c, rs[k])
  BY <1>5, <1>6
<1>11. BodiesFine(T, sub, ds, x, c, rs, a.t)
  BY <1>1, <1>8, <1>9, <1>10 DEF BodiesFine
<1> QED BY <1>1, <1>5, <1>7, <1>11 DEF rs, k

LEMMA IfTaken ==
  ASSUME NEW T, NEW sub, RegularAt(T, sub), NEW e \in NodesOver(T), NEW x \in Expected,
         NEW c \in Contexts, e.k = "if", Resolve(sub, e, x, c).ok
  PROVE  LET r  == Resolve(sub, e, x, c)
             ps == [i \in DOMAIN e.cs |-> Check(sub, e.cs[i], Bool, c)]
             bs == Branches(sub, e.a, e.a, BranchContext(e, x), c)
         IN  /\ \A i \in DOMAIN e.cs : Fine(T, sub, e.cs[i], Bool, c, ps[i]) /\ ps[i].t \in {Bool, Never}
             /\ BodiesFine(T, sub, e.a, BranchContext(e, x), c, bs, r.t)
             /\ BranchContext(e, x) \in {x, Unit}
             /\ BranchContext(e, x) # Untyped => r.t \in {BranchContext(e, x), Never}
             /\ r.t \in Types /\ r.e = With(e, e.ty, Trees(ps), Trees(bs), r.t)
<1> DEFINE y == BranchContext(e, x)
           ps == [i \in DOMAIN e.cs |-> Check(sub, e.cs[i], Bool, c)]
           bs == Branches(sub, e.a, e.a, y, c)
           t == bs[Anchor(e.a)].t
<1>1. /\ e.a \in Seq(T) /\ e.a # << >>
      /\ \A i \in DOMAIN e.a : e.a[i] \in T /\ e.a[i].k = "block"
      /\ \A i \in DOMAIN e.cs : e.cs[i] \in T /\ e.cs[i].k \in Expression
  BY PartsOf
<1>2. Resolve(sub, e, x, c) = Branching(e, e.ty, ps, bs, t)
  BY DEF Resolve, ResolveIf, IfOf
<1>3. y \in Expected /\ y \in {x, Unit}
  BY BasicTypes DEF BranchContext
<1>4. \A i \in DOMAIN e.cs : ps[i] = Check(sub, e.cs[i], Bool, c)
  OBVIOUS
<1>5. DOMAIN ps = DOMAIN e.cs
  OBVIOUS
<1>6. \A i \in DOMAIN e.a : e.a[i].k \in {"block", "case", "default"} /\ Apt(e.a[i])
  BY <1>1 DEF Apt
<1>7. Bool \in Expected /\ Bool \notin {Untyped, AnyT}
  BY BasicTypes, ExpectedTypes
<1> HIDE DEF ps, bs, y, t
<1>8. /\ \A i \in DOMAIN ps : ps[i].ok
      /\ \A i \in DOMAIN bs : bs[i].ok
      /\ Branching(e, e.ty, ps, bs, t).t = t
      /\ Branching(e, e.ty, ps, bs, t).e = With(e, e.ty, Trees(ps), Trees(bs), t)
  BY <1>2, BranchingTaken
<1>9. ASSUME NEW i \in DOMAIN e.cs PROVE Fine(T, sub, e.cs[i], Bool, c, ps[i]) /\ ps[i].t \in {Bool, Never}
  BY <1>1, <1>4, <1>5, <1>7, <1>8, Checked
<1>10. /\ BodiesFine(T, sub, e.a, y, c, bs, t) /\ t \in Types
       /\ y # Untyped => t \in {y, Never}
  BY <1>1, <1>3, <1>6, <1>8, BranchesTaken DEF bs, t
<1> QED BY <1>2, <1>3, <1>8, <1>9, <1>10 DEF ps, bs, y

LEMMA EnumHasVariants ==
  ASSUME NEW n \in DOMAIN Enum
  PROVE  NamesOf(Enum[n]) # {} /\ DOMAIN Enum[n] # {}
<1>1. Enum[n] # << >>
  BY DeclaredAssumption
<1> QED BY <1>1 DEF NamesOf

LEMMA SwitchTaken ==
  ASSUME NEW T, NEW sub, RegularAt(T, sub), NEW e \in NodesOver(T), NEW x \in Expected,
         NEW c \in Contexts, e.k = "switch", Resolve(sub, e, x, c).ok
  PROVE  LET r  == Resolve(sub, e, x, c)
             p  == Check(sub, e.cs[1], Untyped, c)
             bs == Branches(sub, e.a, Bodies(e), x, c)
         IN  /\ Fine(T, sub, e.cs[1], Untyped, c, p) /\ LegalSwitch(e, p.t)
             /\ BodiesFine(T, sub, e.a, x, c, bs, r.t) /\ e.a # << >>
             /\ r.t \in Types /\ r.e = With(e, p.t, <<p.e>>, Trees(bs), r.t)
<1> DEFINE p  == Check(sub, e.cs[1], Untyped, c)
           bs == Branches(sub, e.a, Bodies(e), x, c)
           t == bs[Anchor(Bodies(e))].t
<1>1. /\ e.a \in Seq(T) /\ e.cs[1] \in T /\ e.cs[1].k \in Expression
      /\ \A i \in DOMAIN e.a : e.a[i] \in T /\ e.a[i].k \in {"case", "default"}
  BY PartsOf
<1>2. Resolve(sub, e, x, c) = SwitchOf(sub, e, p, x, c)
  BY DEF Resolve
<1>3. DOMAIN Bodies(e) = DOMAIN e.a
  BY DEF Bodies
<1>4. SwitchOf(sub, e, p, x, c) =
        IF p.ok /\ LegalSwitch(e, p.t) THEN Branching(e, p.t, <<p>>, bs, t) ELSE Bad
  BY DEF SwitchOf
<1> HIDE DEF p, bs, t
<1>5. p.ok /\ LegalSwitch(e, p.t) /\ Resolve(sub, e, x, c) = Branching(e, p.t, <<p>>, bs, t)
  BY <1>2, <1>4, BadIsBad
<1>6. /\ \A i \in DOMAIN bs : bs[i].ok
      /\ Branching(e, p.t, <<p>>, bs, t).t = t
      /\ Branching(e, p.t, <<p>>, bs, t).e = With(e, p.t, Trees(<<p>>), Trees(bs), t)
  BY <1>5, BranchingTaken
<1>7. Trees(<<p>>) = <<p.e>>
  BY DEF Trees
<1>8. Fine(T, sub, e.cs[1], Untyped, c, p)
  BY <1>1, <1>5, Checked, ExpectedTypes DEF p
<1>9. e.a # << >>
  <2>1. IsEnum(p.t) /\ Covers(e.a, p.t)
    BY <1>5 DEF LegalSwitch
  <2>2. Enum[p.t.con] # << >> /\ p.t.con \in DOMAIN Enum
    BY <2>1, DeclaredAssumption DEF IsEnum
  <2> QED BY <2>1, <2>2, EnumHasVariants DEF Covers
<1>10. \A i \in DOMAIN e.a : Apt(e.a[i])
  <2>1. \A i \in Patterns(e) : Fitting(e.a[i], p.t)
    BY <1>5 DEF LegalSwitch
  <2> QED BY <2>1 DEF Apt, Patterns, Fitting
<1>11. BodiesFine(T, sub, e.a, x, c, bs, t) /\ t \in Types
  BY <1>1, <1>3, <1>6, <1>9, <1>10, BranchesTaken DEF bs, t
<1> QED BY <1>5, <1>6, <1>7, <1>8, <1>9, <1>11 DEF p, bs

LEMMA WhileTaken ==
  ASSUME NEW T, NEW sub, RegularAt(T, sub), NEW e \in NodesOver(T), NEW x \in Expected,
         NEW c \in Contexts, e.k = "while", Resolve(sub, e, x, c).ok
  PROVE  LET r == Resolve(sub, e, x, c)
             p == Check(sub, e.cs[1], Bool, c)
             l == [c EXCEPT !.loop = @ + 1]
             b == sub[e.a[1]][Unit][l]
         IN  /\ Fine(T, sub, e.cs[1], Bool, c, p) /\ p.t \in {Bool, Never}
             /\ l \in Contexts /\ Body(T, sub, e.a[1], Unit, l, b) /\ b.t \in {Unit, Never}
             /\ r.t = Unit /\ r.e = With(e, e.ty, <<p.e>>, <<b.e>>, Unit)
<1> DEFINE p == Check(sub, e.cs[1], Bool, c)
           l == [c EXCEPT !.loop = @ + 1]
           b == sub[e.a[1]][Unit][l]
<1>1. e.cs[1] \in T /\ e.cs[1].k \in Expression /\ e.a[1] \in T /\ e.a[1].k = "block"
  BY PartsOf
<1>2. Resolve(sub, e, x, c) = Branching(e, e.ty, <<p>>, <<b>>, Unit)
  BY DEF Resolve, ResolveWhile
<1>3. l \in Contexts
  BY DEF Contexts
<1>4. Bool \in Expected /\ Bool \notin {Untyped, AnyT}
  BY BasicTypes, ExpectedTypes
<1> HIDE DEF p, b, l
<1>5. /\ \A i \in DOMAIN <<p>> : <<p>>[i].ok
      /\ \A i \in DOMAIN <<b>> : <<b>>[i].ok
      /\ Branching(e, e.ty, <<p>>, <<b>>, Unit).t = Unit
      /\ Branching(e, e.ty, <<p>>, <<b>>, Unit).e = With(e, e.ty, Trees(<<p>>), Trees(<<b>>), Unit)
  BY <1>2, BranchingTaken
<1>6. Trees(<<p>>) = <<p.e>> /\ Trees(<<b>>) = <<b.e>>
  BY DEF Trees
<1>7. p.ok /\ b.ok
  BY <1>5
<1>8. Fine(T, sub, e.cs[1], Bool, c, p) /\ p.t \in {Bool, Never}
  BY <1>1, <1>4, <1>7, Checked DEF p
<1>9. Unit \in Expected /\ Apt(e.a[1]) /\ Unit # Untyped
  BY <1>1, BasicTypes DEF Apt
<1>10. Body(T, sub, e.a[1], Unit, l, b)
  BY <1>1, <1>3, <1>7, <1>9, CheckedBody DEF b
<1>11. b.t \in {Unit, Never}
  BY <1>9, <1>10 DEF Body
<1> QED BY <1>2, <1>3, <1>5, <1>6, <1>8, <1>10, <1>11 DEF p, b, l

LEMMA CaseTaken ==
  ASSUME NEW T, NEW sub, RegularAt(T, sub), NEW e \in NodesOver(T), NEW x \in Expected,
         NEW c \in Contexts, e.k \in {"case", "default"}, Apt(e), Resolve(sub, e, x, c).ok
  PROVE  LET r == Resolve(sub, e, x, c)
             b == sub[e.a[1]][x][Within(e, c)]
             named == [i \in DOMAIN e.cs |-> Annotated(e.cs[i], e.cs[i].a, FieldsOf(e.ty, e.op)[i].type)]
         IN  /\ Within(e, c) \in Contexts /\ Body(T, sub, e.a[1], x, Within(e, c), b)
             /\ r.t = b.t /\ r.e = With(e, e.ty, named, <<b.e>>, b.t)
<1> DEFINE b == sub[e.a[1]][x][Within(e, c)]
           named == [i \in DOMAIN e.cs |-> Annotated(e.cs[i], e.cs[i].a, FieldsOf(e.ty, e.op)[i].type)]
<1>1. e.a[1] \in T /\ e.a[1].k = "block" /\ Apt(e.a[1])
  BY PartsOf DEF Apt
<1>2. Resolve(sub, e, x, c) = CaseOf(e, b)
  BY DEF Resolve
<1>3. CaseOf(e, b) = IF b.ok THEN Typed(b.t, With(e, e.ty, named, <<b.e>>, b.t)) ELSE Bad
  BY DEF CaseOf
<1>4. Within(e, c) \in Contexts
  BY WithinTyped
<1> HIDE DEF b, named
<1>5. b.ok /\ Resolve(sub, e, x, c) = Typed(b.t, With(e, e.ty, named, <<b.e>>, b.t))
  BY <1>2, <1>3, BadIsBad
<1>6. Body(T, sub, e.a[1], x, Within(e, c), b)
  BY <1>1, <1>4, <1>5, CheckedBody DEF b
<1>7. Resolve(sub, e, x, c).t = b.t /\ Resolve(sub, e, x, c).e = With(e, e.ty, named, <<b.e>>, b.t)
  BY <1>5, BadIsBad
<1> QED BY <1>4, <1>6, <1>7 DEF b, named

\* Every part accepted against a type of its own.
PartsFine(T, sub, ds, ys, c, rs) ==
  /\ DOMAIN rs = DOMAIN ds
  /\ \A i \in DOMAIN ds : /\ Fine(T, sub, ds[i], ys[i], c, rs[i])
                          /\ ys[i] # Untyped => rs[i].t \in {ys[i], Never}

LEMMA BlockTaken ==
  ASSUME NEW T, NEW sub, RegularAt(T, sub), NEW e \in NodesOver(T), NEW x \in Expected,
         NEW c \in Contexts, e.k = "block", e.a # << >>, Resolve(sub, e, x, c).ok
  PROVE  LET r  == Resolve(sub, e, x, c)
             ys == [i \in DOMAIN e.a |-> IF i = Len(e.a) THEN x ELSE Untyped]
             rs == [i \in DOMAIN e.a |-> Check(sub, e.a[i], IF i = Len(e.a) THEN x ELSE Untyped, c)]
         IN  /\ PartsFine(T, sub, e.a, ys, c, rs)
             /\ \A i \in 1 .. Len(e.a) - 1 : rs[i].t \in {Unit, Never}
             /\ r.t = rs[Len(e.a)].t /\ r.e = Annotated(e, Trees(rs), e.r)
<1> DEFINE ys == [i \in DOMAIN e.a |-> IF i = Len(e.a) THEN x ELSE Untyped]
           rs == [i \in DOMAIN e.a |-> Check(sub, e.a[i], IF i = Len(e.a) THEN x ELSE Untyped, c)]
<1>1. e.a \in Seq(T) /\ \A i \in DOMAIN e.a : e.a[i] \in T /\ e.a[i].k \in Expression
  BY PartsOf
<1>2. Resolve(sub, e, x, c) = CheckBlock(sub, e, x, c)
  BY DEF Resolve
<1>3. Resolve(sub, e, x, c) = BlockOf(e, x, rs)
  BY <1>2 DEF CheckBlock
<1>4. DOMAIN rs = DOMAIN e.a /\ \A i \in DOMAIN e.a : /\ rs[i] = Check(sub, e.a[i], ys[i], c)
                                                      /\ ys[i] \in {x, Untyped}
  OBVIOUS
<1>5. rs \in Seq({rs[i] : i \in DOMAIN e.a}) /\ Len(rs) = Len(e.a) /\ rs # << >>
  <2>1. DOMAIN e.a = 1 .. Len(e.a) /\ Len(e.a) \in Nat /\ Len(e.a) # 0
    BY <1>1
  <2>2. rs = [i \in 1 .. Len(e.a) |-> rs[i]]
    BY <2>1
  <2> HIDE DEF rs
  <2>3. \A i \in 1 .. Len(e.a) : rs[i] \in {rs[j] : j \in DOMAIN e.a}
    BY <2>1
  <2>4. rs \in Seq({rs[i] : i \in DOMAIN e.a}) /\ Len(rs) = Len(e.a)
    BY <2>1, <2>2, <2>3
  <2> QED BY <2>1, <2>4
<1> HIDE DEF rs, ys
<1>6. BlockOf(e, x, rs) = IF AllOk(rs) /\ \A i \in 1 .. Len(rs) - 1 : rs[i].t \in {Unit, Never}
                          THEN Typed(rs[Len(rs)].t, Annotated(e, Trees(rs), e.r)) ELSE Bad
  BY <1>5 DEF BlockOf
<1>7. /\ AllOk(rs) /\ \A i \in 1 .. Len(rs) - 1 : rs[i].t \in {Unit, Never}
      /\ BlockOf(e, x, rs) = Typed(rs[Len(rs)].t, Annotated(e, Trees(rs), e.r))
  BY <1>3, <1>6, BadIsBad
<1>8. ASSUME NEW i \in DOMAIN e.a
      PROVE  /\ Fine(T, sub, e.a[i], ys[i], c, rs[i])
             /\ ys[i] # Untyped => rs[i].t \in {ys[i], Never}
  <2>1. rs[i].ok
    BY <1>4, <1>7 DEF AllOk
  <2>2. ys[i] \in Expected /\ ys[i] # AnyT
    BY <1>4, ExpectedTypes
  <2> QED BY <1>1, <1>4, <2>1, <2>2, Checked
<1>9. PartsFine(T, sub, e.a, ys, c, rs)
  BY <1>4, <1>8 DEF PartsFine
<1>10. \A i \in 1 .. Len(e.a) - 1 : rs[i].t \in {Unit, Never}
  BY <1>5, <1>7
<1>11. /\ Resolve(sub, e, x, c).t = rs[Len(e.a)].t
       /\ Resolve(sub, e, x, c).e = Annotated(e, Trees(rs), e.r)
  BY <1>3, <1>5, <1>7, BadIsBad
<1> QED BY <1>9, <1>10, <1>11 DEF rs, ys

LEMMA EmptyBlockTaken ==
  ASSUME NEW T, NEW sub, NEW e \in NodesOver(T), NEW x, NEW c,
         e.k = "block", e.a = << >>, Resolve(sub, e, x, c).ok
  PROVE  x \in {Untyped, Unit} /\ Resolve(sub, e, x, c) = Typed(Unit, e)
<1> DEFINE rs == [i \in DOMAIN e.a |-> Check(sub, e.a[i], IF i = Len(e.a) THEN x ELSE Untyped, c)]
<1>1. Resolve(sub, e, x, c) = CheckBlock(sub, e, x, c)
  BY DEF Resolve
<1>2. Resolve(sub, e, x, c) = BlockOf(e, x, rs)
  BY <1>1 DEF CheckBlock
<1>3. rs = << >>
  OBVIOUS
<1> HIDE DEF rs
<1>4. Resolve(sub, e, x, c) = IF x \in {Untyped, Unit} THEN Typed(Unit, e) ELSE Bad
  BY <1>2, <1>3 DEF BlockOf
<1> QED BY <1>4, BadIsBad

\* The elements of a list, against a type or an element that fixes it.
ElementsFine(T, sub, e, c, t, rs) ==
  /\ DOMAIN rs = DOMAIN e.a
  /\ \A i \in DOMAIN e.a : /\ rs[i].t \in {t, Never}
                           /\ \E y \in {Untyped, t} : Fine(T, sub, e.a[i], y, c, rs[i])

LEMMA ListAgainstTaken ==
  ASSUME NEW T, NEW sub, RegularAt(T, sub), NEW e \in NodesOver(T), NEW x \in Expected, IsList(x),
         NEW c \in Contexts, e.k = "list", Resolve(sub, e, x, c).ok
  PROVE  LET r  == Resolve(sub, e, x, c)
             rs == [i \in DOMAIN e.a |-> Check(sub, e.a[i], x.of, c)]
         IN  /\ r.t = x /\ x \in Types /\ ElementsFine(T, sub, e, c, x.of, rs)
             /\ r.e = Annotated(e, Trees(rs), x)
<1> DEFINE rs == [i \in DOMAIN e.a |-> Check(sub, e.a[i], x.of, c)]
<1>1. \A i \in DOMAIN e.a : e.a[i] \in T /\ e.a[i].k \in Expression
  BY PartsOf
<1>2. Resolve(sub, e, x, c) = ResolveList(sub, e, x, c)
  BY DEF Resolve
<1>3. Resolve(sub, e, x, c) = Resolved(e, rs, TRUE, x)
  BY <1>2 DEF ResolveList
<1>4. x \in Types /\ x.of \in Types
  <2>1. x # Untyped
    <3>1. Untyped.con = ""
      BY DEF Untyped, Named
    <3> QED BY <3>1 DEF IsList
  <2> QED BY <2>1, TypesAssumption DEF Expected, IsList
<1>5. x.of \in Expected /\ x.of \notin {Untyped, AnyT}
  BY <1>4, BasicTypes
<1>6. DOMAIN rs = DOMAIN e.a /\ \A i \in DOMAIN e.a : rs[i] = Check(sub, e.a[i], x.of, c)
  OBVIOUS
<1> HIDE DEF rs
<1>7. /\ \A i \in DOMAIN rs : rs[i].ok
      /\ Resolved(e, rs, TRUE, x).t = x /\ Resolved(e, rs, TRUE, x).e = Annotated(e, Trees(rs), x)
  BY <1>3, BadIsBad DEF Resolved, AllOk
<1>8. ASSUME NEW i \in DOMAIN e.a
      PROVE  rs[i].t \in {x.of, Never} /\ Fine(T, sub, e.a[i], x.of, c, rs[i])
  BY <1>1, <1>5, <1>6, <1>7, Checked
<1>9. ElementsFine(T, sub, e, c, x.of, rs)
  BY <1>6, <1>8 DEF ElementsFine
<1> QED BY <1>3, <1>4, <1>7, <1>9 DEF rs

LEMMA ListAroundTaken ==
  ASSUME NEW T, NEW sub, RegularAt(T, sub), NEW e \in NodesOver(T), NEW x \in Expected, ~IsList(x),
         NEW c \in Contexts, e.k = "list", Resolve(sub, e, x, c).ok
  PROVE  LET r  == Resolve(sub, e, x, c)
             t  == Check(sub, e.a[FirstFixed(e.a)], Untyped, c).t
             rs == [i \in DOMAIN e.a |->
                      IF i = FirstFixed(e.a) THEN Check(sub, e.a[FirstFixed(e.a)], Untyped, c)
                      ELSE Check(sub, e.a[i], t, c)]
         IN  /\ r.t = ListOf(t) /\ r.t \in Types /\ ElementsFine(T, sub, e, c, t, rs)
             /\ r.e = Annotated(e, Trees(rs), ListOf(t)) /\ e.a # << >>
             /\ FirstFixed(e.a) \in DOMAIN e.a /\ rs[FirstFixed(e.a)].t = t
<1> DEFINE k == FirstFixed(e.a)
           p == Check(sub, e.a[k], Untyped, c)
           rs == [i \in DOMAIN e.a |-> IF i = k THEN p ELSE Check(sub, e.a[i], p.t, c)]
           legal == ListOf(p.t) \in Types
<1>1. e.a \in Seq(T) /\ \A i \in DOMAIN e.a : e.a[i] \in T /\ e.a[i].k \in Expression
  BY PartsOf
<1>2. Resolve(sub, e, x, c) = ResolveList(sub, e, x, c)
  BY DEF Resolve
<1>3. e.a # << >>
  <2>1. SUFFICES ASSUME e.a = << >> PROVE FALSE
    OBVIOUS
  <2>2. ResolveList(sub, e, x, c) = Bad
    BY <2>1 DEF ResolveList
  <2> QED BY <1>2, <2>2, BadIsBad
<1>4. ResolveList(sub, e, x, c) = ListAround(sub, p, e, c)
  BY <1>3 DEF ResolveList
<1>5. ListAround(sub, p, e, c) = Resolved(e, rs, legal, ListOf(p.t))
  BY DEF ListAround
<1>6. k \in DOMAIN e.a
  <2>1. DOMAIN e.a = 1 .. Len(e.a) /\ Len(e.a) \in Nat /\ Len(e.a) # 0
    BY <1>1, <1>3
  <2> QED BY <2>1, FirstFixedIs
<1>7. DOMAIN rs = DOMAIN e.a /\ \A i \in DOMAIN e.a : rs[i] = IF i = k THEN p ELSE Check(sub, e.a[i], p.t, c)
  OBVIOUS
<1>8. legal \in BOOLEAN
  OBVIOUS
<1> HIDE DEF rs, k, p, legal
<1>9. /\ legal /\ \A i \in DOMAIN rs : rs[i].ok
      /\ Resolved(e, rs, legal, ListOf(p.t)).t = ListOf(p.t)
      /\ Resolved(e, rs, legal, ListOf(p.t)).e = Annotated(e, Trees(rs), ListOf(p.t))
  <2>1. Resolved(e, rs, legal, ListOf(p.t)).ok
    BY <1>2, <1>4, <1>5
  <2> QED BY <1>8, <2>1, BadIsBad DEF Resolved, AllOk
<1>10. Fine(T, sub, e.a[k], Untyped, c, p)
  <2>1. p.ok
    BY <1>6, <1>7, <1>9
  <2> QED BY <1>1, <1>6, <2>1, Checked, ExpectedTypes DEF p
<1>11. p.t \in Types /\ p.t \in Expected /\ p.t \notin {Untyped, AnyT}
  BY <1>10, BasicTypes DEF Fine
<1>12. ASSUME NEW i \in DOMAIN e.a
       PROVE  rs[i].t \in {p.t, Never} /\ \E y \in {Untyped, p.t} : Fine(T, sub, e.a[i], y, c, rs[i])
  <2>1. CASE i = k
    BY <2>1, <1>7, <1>10
  <2>2. CASE i # k
    <3>1. rs[i] = Check(sub, e.a[i], p.t, c) /\ rs[i].ok
      BY <2>2, <1>7, <1>9
    <3> QED BY <1>1, <1>11, <3>1, Checked
  <2> QED BY <2>1, <2>2
<1>13. ElementsFine(T, sub, e, c, p.t, rs)
  BY <1>7, <1>12 DEF ElementsFine
<1>14. /\ Resolve(sub, e, x, c).t = ListOf(p.t) /\ ListOf(p.t) \in Types
       /\ Resolve(sub, e, x, c).e = Annotated(e, Trees(rs), ListOf(p.t))
  BY <1>2, <1>4, <1>5, <1>9 DEF legal
<1>15. rs[k].t = p.t
  BY <1>6, <1>7
<1> QED BY <1>3, <1>6, <1>13, <1>14, <1>15 DEF rs, p, k

LEMMA ListParts ==
  ASSUME NEW t
  PROVE  ListOf(t).of = t /\ IsList(ListOf(t))
BY DEF ListOf, IsList

\* A list of either kind.
LEMMA ListTaken ==
  ASSUME NEW T, NEW sub, RegularAt(T, sub), NEW e \in NodesOver(T), NEW x \in Expected,
         NEW c \in Contexts, e.k = "list", Resolve(sub, e, x, c).ok
  PROVE  /\ IsList(Resolve(sub, e, x, c).t) /\ Resolve(sub, e, x, c).t \in Types
         /\ \E rs : /\ ElementsFine(T, sub, e, c, Resolve(sub, e, x, c).t.of, rs)
                    /\ Resolve(sub, e, x, c).e = Annotated(e, Trees(rs), Resolve(sub, e, x, c).t)
                    /\ \/ Resolve(sub, e, x, c).t = x
                       \/ \E i \in DOMAIN e.a : rs[i].t = Resolve(sub, e, x, c).t.of
<1>1. CASE IsList(x)
  <2> DEFINE rs == [i \in DOMAIN e.a |-> Check(sub, e.a[i], x.of, c)]
  <2>1. /\ Resolve(sub, e, x, c).t = x /\ x \in Types /\ ElementsFine(T, sub, e, c, x.of, rs)
        /\ Resolve(sub, e, x, c).e = Annotated(e, Trees(rs), x)
    BY <1>1, ListAgainstTaken
  <2> HIDE DEF rs
  <2> QED BY <1>1, <2>1
<1>2. CASE ~IsList(x)
  <2> DEFINE k == FirstFixed(e.a)
             p == Check(sub, e.a[k], Untyped, c)
             rs == [i \in DOMAIN e.a |-> IF i = k THEN p ELSE Check(sub, e.a[i], p.t, c)]
  <2>1. /\ Resolve(sub, e, x, c).t = ListOf(p.t) /\ Resolve(sub, e, x, c).t \in Types
        /\ ElementsFine(T, sub, e, c, p.t, rs)
        /\ Resolve(sub, e, x, c).e = Annotated(e, Trees(rs), ListOf(p.t))
        /\ k \in DOMAIN e.a /\ rs[k].t = p.t
    BY <1>2, ListAroundTaken
  <2> HIDE DEF rs, k, p
  <2>2. ListOf(p.t).of = p.t /\ IsList(ListOf(p.t))
    BY ListParts
  <2> QED BY <2>1, <2>2
<1> QED BY <1>1, <1>2

LEMMA CallTaken ==
  ASSUME NEW T, NEW sub, RegularAt(T, sub), NEW e \in NodesOver(T), NEW x \in Expected,
         NEW c \in Contexts, e.k = "call", Resolve(sub, e, x, c).ok
  PROVE  LET r  == Resolve(sub, e, x, c)
             us == Signature[e.op].params
             rs == [i \in DOMAIN e.a |-> Check(sub, e.a[i], us[i], c)]
             ys == [i \in DOMAIN e.a |-> IF us[i] = AnyT THEN Untyped ELSE us[i]]
         IN  /\ DOMAIN us = DOMAIN e.a /\ \A i \in DOMAIN e.a : us[i] \in ValueTypes \cup {AnyT}
             /\ PartsFine(T, sub, e.a, ys, c, rs)
             /\ r.t = Signature[e.op].ret /\ r.t \in ValueTypes \cup {Unit}
             /\ r.e = Annotated(e, Trees(rs), r.t)
<1> DEFINE us == Signature[e.op].params
           rs == [i \in DOMAIN e.a |-> Check(sub, e.a[i], us[i], c)]
           ys == [i \in DOMAIN e.a |-> IF us[i] = AnyT THEN Untyped ELSE us[i]]
           t == Signature[e.op].ret
           legal == Len(e.a) = Len(us)
<1>1. e.a \in Seq(T) /\ \A i \in DOMAIN e.a : e.a[i] \in T /\ e.a[i].k \in Expression
  BY PartsOf
<1>2. us \in Seq(ValueTypes \cup {AnyT}) /\ t \in ValueTypes \cup {Unit}
  <2>1. e.op \in DOMAIN Signature
    BY NodeIs DEF Shaped
  <2> QED BY <2>1, DeclaredAssumption
<1>3. Resolve(sub, e, x, c) = ResolveCall(sub, e, c)
  BY DEF Resolve
<1>4. Resolve(sub, e, x, c) = Resolved(e, rs, legal, t)
  BY <1>3 DEF ResolveCall
<1>5. /\ DOMAIN rs = DOMAIN e.a
      /\ \A i \in DOMAIN e.a : rs[i] = Check(sub, e.a[i], us[i], c) /\ ys[i] = IF us[i] = AnyT THEN Untyped ELSE us[i]
  OBVIOUS
<1>6. legal \in BOOLEAN
  OBVIOUS
<1> HIDE DEF us, rs, ys, t, legal
<1>7. /\ legal /\ \A i \in DOMAIN rs : rs[i].ok
      /\ Resolved(e, rs, legal, t).t = t /\ Resolved(e, rs, legal, t).e = Annotated(e, Trees(rs), t)
  BY <1>4, <1>6, ResolvedTaken
<1>8. DOMAIN us = DOMAIN e.a /\ \A i \in DOMAIN e.a : us[i] \in ValueTypes \cup {AnyT}
  BY <1>1, <1>2, <1>7 DEF legal
<1>9. ASSUME NEW i \in DOMAIN e.a
      PROVE  Fine(T, sub, e.a[i], ys[i], c, rs[i]) /\ (ys[i] # Untyped => rs[i].t \in {ys[i], Never})
  <2>1. us[i] \in Expected \cup {AnyT} /\ us[i] # Untyped
    BY <1>8, BasicTypes
  <2>2. rs[i] = Check(sub, e.a[i], us[i], c) /\ rs[i].ok
    BY <1>5, <1>7
  <2>3. /\ Fine(T, sub, e.a[i], IF us[i] = AnyT THEN Untyped ELSE us[i], c, rs[i])
        /\ us[i] \in {Untyped, AnyT} \/ rs[i].t \in {us[i], Never}
    <3> DEFINE u == us[i]
               d == e.a[i]
    <3>1. d \in T /\ d.k \in Expression /\ u \in Expected \cup {AnyT}
      BY <1>1, <2>1
    <3>2. rs[i] = Check(sub, d, u, c) /\ Check(sub, d, u, c).ok
      BY <2>2
    <3> HIDE DEF u, d
    <3>3. /\ Fine(T, sub, d, IF u = AnyT THEN Untyped ELSE u, c, Check(sub, d, u, c))
          /\ u \in {Untyped, AnyT} \/ Check(sub, d, u, c).t \in {u, Never}
      BY <3>1, <3>2, Checked
    <3> QED BY <3>2, <3>3 DEF u, d
  <2>4. ys[i] = IF us[i] = AnyT THEN Untyped ELSE us[i]
    BY <1>5
  <2> QED BY <2>3, <2>4
<1>10. PartsFine(T, sub, e.a, ys, c, rs)
  BY <1>5, <1>9 DEF PartsFine
<1>11. Resolve(sub, e, x, c).t = t /\ Resolve(sub, e, x, c).e = Annotated(e, Trees(rs), t)
  BY <1>4, <1>7
<1> QED BY <1>2, <1>8, <1>10, <1>11 DEF us, rs, ys, t

\* What a struct or a variant is made of.
FieldsAt(e) == IF e.k = "struct" THEN Struct[e.ty.con] ELSE FieldsOf(e.ty, e.op)

LEMMA FieldsTaken ==
  ASSUME NEW T, NEW sub, RegularAt(T, sub), NEW e \in NodesOver(T), NEW x \in Expected,
         NEW c \in Contexts, e.k \in {"struct", "variant"}, Resolve(sub, e, x, c).ok
  PROVE  LET r  == Resolve(sub, e, x, c)
             fields == FieldsAt(e)
             ys == [i \in DOMAIN e.a |-> TypeIn(fields, e.a[i].op)]
             rs == [i \in DOMAIN e.a |-> sub[e.a[i]][TypeIn(fields, e.a[i].op)][c]]
         IN  /\ Declared(fields) /\ Len(e.a) = Len(fields)
             /\ {e.a[i].op : i \in DOMAIN e.a} = NamesOf(fields)
             /\ e.k = "variant" => HasVariant(e.ty, e.op)
             /\ PartsFine(T, sub, e.a, ys, c, rs)
             /\ \A i \in DOMAIN e.a : ys[i] \in ValueTypes
             /\ r.t = e.ty /\ r.t \in ValueTypes /\ r.e = Annotated(e, Trees(rs), r.t)
<1> DEFINE fields == FieldsAt(e)
           ys == [i \in DOMAIN e.a |-> TypeIn(fields, e.a[i].op)]
           rs == [i \in DOMAIN e.a |-> sub[e.a[i]][TypeIn(fields, e.a[i].op)][c]]
           legal == Len(e.a) = Len(fields) /\ {e.a[i].op : i \in DOMAIN e.a} = NamesOf(fields)
<1>1. e.a \in Seq(T) /\ \A i \in DOMAIN e.a : e.a[i] \in T /\ e.a[i].k = "named"
  BY PartsOf
<1>2. e.ty \in ValueTypes /\ (e.k = "struct" => IsStruct(e.ty))
  BY NodeIs DEF Shaped
<1>3. /\ Resolve(sub, e, x, c) = ResolveFields(sub, e, e.ty, fields, c)
      /\ e.k = "variant" => HasVariant(e.ty, e.op)
  <2>1. CASE e.k = "struct"
    BY <2>1 DEF Resolve, FieldsAt
  <2>2. CASE e.k = "variant"
    <3>1. Resolve(sub, e, x, c) = IF HasVariant(e.ty, e.op)
                                  THEN ResolveFields(sub, e, e.ty, FieldsOf(e.ty, e.op), c) ELSE Bad
      BY <2>2 DEF Resolve
    <3>2. HasVariant(e.ty, e.op)
      BY <3>1, BadIsBad
    <3> QED BY <2>2, <3>1, <3>2 DEF FieldsAt
  <2> QED BY <2>1, <2>2
<1>4. Declared(fields)
  <2>1. CASE e.k = "struct"
    BY <2>1, <1>2, DeclaredAssumption DEF FieldsAt, IsStruct
  <2>2. CASE e.k = "variant"
    BY <2>2, <1>3, VariantFields DEF FieldsAt
  <2> QED BY <2>1, <2>2
<1>5. ResolveFields(sub, e, e.ty, fields, c) = Resolved(e, rs, legal, e.ty)
  BY DEF ResolveFields
<1>6. /\ DOMAIN rs = DOMAIN e.a
      /\ \A i \in DOMAIN e.a : rs[i] = sub[e.a[i]][ys[i]][c] /\ ys[i] = TypeIn(fields, e.a[i].op)
  OBVIOUS
<1>7. legal \in BOOLEAN
  OBVIOUS
<1> HIDE DEF fields, rs, ys, legal
<1>8. /\ legal /\ \A i \in DOMAIN rs : rs[i].ok
      /\ Resolved(e, rs, legal, e.ty).t = e.ty
      /\ Resolved(e, rs, legal, e.ty).e = Annotated(e, Trees(rs), e.ty)
  <2>1. Resolved(e, rs, legal, e.ty).ok
    BY <1>3, <1>5
  <2> QED BY <1>7, <2>1, ResolvedTaken
<1>9. ASSUME NEW i \in DOMAIN e.a
      PROVE  Fine(T, sub, e.a[i], ys[i], c, rs[i]) /\ rs[i].t \in {ys[i], Never} /\ ys[i] \in ValueTypes
  <2>1. e.a[i].op \in NamesOf(fields)
    BY <1>8 DEF legal
  <2>2. ys[i] \in ValueTypes
    BY <1>4, <1>6, <2>1, FieldsTyped
  <2>3. ys[i] \in Expected /\ ys[i] # Untyped
    BY <2>2, BasicTypes
  <2> QED BY <1>1, <1>6, <1>8, <2>2, <2>3, CheckedNamed
<1>10. PartsFine(T, sub, e.a, ys, c, rs)
  BY <1>6, <1>9 DEF PartsFine
<1>11. Resolve(sub, e, x, c).t = e.ty /\ Resolve(sub, e, x, c).e = Annotated(e, Trees(rs), e.ty)
  BY <1>3, <1>5, <1>8
<1>12. Len(e.a) = Len(fields) /\ {e.a[i].op : i \in DOMAIN e.a} = NamesOf(fields)
  BY <1>8 DEF legal
<1> QED BY <1>2, <1>3, <1>4, <1>9, <1>10, <1>11, <1>12 DEF fields, rs, ys

-----------------------------------------------------------------------------
(* An accepted node is annotated with its type, in the shape it had. *)

OwnType(e, r) ==
  IF e.k \in {"let", "assign", "discard", "while"} THEN Unit
  ELSE IF Diverging(e) THEN Never
  ELSE IF e.k = "binary" /\ e.op = "==" THEN Bool ELSE r

LEMMA MadeRegular ==
  ASSUME NEW T, NEW e \in NodesOver(T), e.k \notin {"block", "case", "default"}, NEW x, NEW res,
         NEW ty \in Expected, ty = e.ty \/ e.k = "switch",
         NEW cs \in Seq(T), SameKinds(cs, e.cs), NEW a \in Seq(T), SameKinds(a, e.a), NEW r \in Expected,
         res.e = With(e, ty, cs, a, r), res.t \in Types, res.t = OwnType(e, r),
         e.k = "named" /\ x # Untyped => res.t \in {x, Never}
  PROVE  Regular(NodesOver(T), res, e, x)
<1>1. res.e \in NodesOver(T)
  BY WithShaped
<1>2. /\ res.e.k = e.k /\ res.e.op = e.op /\ res.e.n = e.n /\ res.e.ty = ty /\ res.e.a = a
      /\ res.e.r = r
  BY WithIs
<1>3. TypeOf(res.e) = res.t
  BY <1>2 DEF TypeOf, OwnType, Diverging
<1> QED BY <1>1, <1>2, <1>3 DEF Regular, Bodied

LEMMA AnnotatedRegular ==
  ASSUME NEW T, NEW e \in NodesOver(T), e.k \notin {"block", "case", "default"}, NEW x, NEW res,
         NEW a \in Seq(T), SameKinds(a, e.a), NEW r \in Expected,
         res.e = Annotated(e, a, r), res.t \in Types, res.t = OwnType(e, r),
         e.k = "named" /\ x # Untyped => res.t \in {x, Never}
  PROVE  Regular(NodesOver(T), res, e, x)
<1>1. e.ty \in Expected /\ e.cs \in Seq(T) /\ SameKinds(e.cs, e.cs)
  BY NodeIs, KindsOfItself
<1>2. res.e = With(e, e.ty, e.cs, a, r)
  BY DEF Annotated
<1> QED BY <1>1, <1>2, MadeRegular

LEMMA SamePartsRegular ==
  ASSUME NEW T, NEW e \in NodesOver(T), e.k \notin {"block", "case", "default", "named"}, NEW x, NEW res,
         NEW r \in Expected,
         res.e = Annotated(e, e.a, r), res.t \in Types, res.t = OwnType(e, r)
  PROVE  Regular(NodesOver(T), res, e, x)
<1>1. e.a \in Seq(T) /\ SameKinds(e.a, e.a)
  BY NodeIs, KindsOfItself
<1> QED BY <1>1, AnnotatedRegular

LEMMA OnePartRegular ==
  ASSUME NEW T, NEW e \in NodesOver(T), e.k \notin {"block", "case", "default"}, NEW x, NEW res,
         e.a \in Seq(T), Len(e.a) = 1, NEW f \in T, f.k = e.a[1].k, NEW r \in Expected,
         res.e = Annotated(e, <<f>>, r), res.t \in Types, res.t = OwnType(e, r),
         e.k = "named" /\ x # Untyped => res.t \in {x, Never}
  PROVE  Regular(NodesOver(T), res, e, x)
<1>1. <<f>> \in Seq(T) /\ SameKinds(<<f>>, e.a)
  BY OneFits
<1> QED BY <1>1, AnnotatedRegular

LEMMA TwoPartsRegular ==
  ASSUME NEW T, NEW e \in NodesOver(T), e.k \in {"binary", "tuple"}, NEW x, NEW res,
         NEW f \in T, f.k = e.a[1].k, NEW g \in T, g.k = e.a[2].k, NEW r \in Expected,
         res.e = Annotated(e, <<f, g>>, r), res.t \in Types, res.t = OwnType(e, r)
  PROVE  Regular(NodesOver(T), res, e, x)
<1>1. e.a \in Seq(T) /\ Len(e.a) = 2
  BY PartsOf
<1>2. <<f, g>> \in Seq(T) /\ SameKinds(<<f, g>>, e.a)
  BY <1>1, TwoFit
<1> QED BY <1>2, AnnotatedRegular

LEMMA ManyPartsRegular ==
  ASSUME NEW T, NEW e \in NodesOver(T), e.k \in {"list", "call", "struct", "variant"}, NEW x, NEW res,
         NEW rs, DOMAIN rs = DOMAIN e.a, \A i \in DOMAIN e.a : rs[i].e \in T /\ rs[i].e.k = e.a[i].k,
         res.e = Annotated(e, Trees(rs), res.t), res.t \in Types
  PROVE  Regular(NodesOver(T), res, e, x)
<1>1. e.a \in Seq(T)
  BY NodeIs
<1>2. Trees(rs) \in Seq(T) /\ SameKinds(Trees(rs), e.a)
  BY <1>1, TreesFit
<1>3. res.t = OwnType(e, res.t)
  BY DEF OwnType, Diverging
<1>4. res.t \in Expected
  BY BasicTypes
<1> QED BY <1>2, <1>3, <1>4, AnnotatedRegular

LEMMA LeavesRegular ==
  ASSUME NEW T, NEW sub, NEW e \in NodesOver(T), NEW x \in Expected, NEW c \in Contexts,
         e.k \in {"int", "var", "bound"}, Resolve(sub, e, x, c).ok
  PROVE  Regular(NodesOver(T), Resolve(sub, e, x, c), e, x)
<1> DEFINE r == Resolve(sub, e, x, c)
<1>1. r.t \in ValueTypes /\ r.e = Annotated(e, e.a, r.t)
  <2>1. CASE e.k = "int"
    BY <2>1, IntTaken
  <2>2. CASE e.k = "var"
    BY <2>2, VarTaken
  <2>3. CASE e.k = "bound"
    BY <2>3, BoundTaken
  <2> QED BY <2>1, <2>2, <2>3
<1> HIDE DEF r
<1>2. r.t \in Types /\ r.t \in Expected
  BY <1>1, BasicTypes
<1>3. r.t = OwnType(e, r.t)
  BY DEF OwnType, Diverging
<1> QED BY <1>1, <1>2, <1>3, SamePartsRegular DEF r

LEMMA JumpsRegular ==
  ASSUME NEW T, NEW sub, NEW e \in NodesOver(T), NEW x \in Expected, NEW c \in Contexts,
         e.k \in {"break", "continue"} \/ (e.k = "return" /\ e.a = << >>), Resolve(sub, e, x, c).ok
  PROVE  Regular(NodesOver(T), Resolve(sub, e, x, c), e, x)
<1> DEFINE r == Resolve(sub, e, x, c)
<1>1. r = Typed(Never, e)
  BY JumpTaken, EmptyReturnTaken
<1> HIDE DEF r
<1>2. r.t = Never /\ r.e = e
  BY <1>1, BadIsBad
<1>3. r.e = Annotated(e, e.a, e.r) /\ e.r \in Expected
  BY <1>2, NodeIs DEF Annotated
<1>4. r.t = OwnType(e, e.r) /\ Never \in Types
  BY <1>2, TypesAssumption DEF OwnType, Diverging
<1> QED BY <1>2, <1>3, <1>4, SamePartsRegular DEF r

LEMMA OneRegular ==
  ASSUME NEW T, NEW sub, RegularAt(T, sub), NEW e \in NodesOver(T), NEW x \in Expected,
         NEW c \in Contexts, e.k \in OverOne \/ (e.k = "return" /\ e.a # << >>), Resolve(sub, e, x, c).ok
  PROVE  Regular(NodesOver(T), Resolve(sub, e, x, c), e, x)
<1> DEFINE r == Resolve(sub, e, x, c)
           f == e.a[1]
<1> SUFFICES Regular(NodesOver(T), r, e, x)
  OBVIOUS
<1>0. e.k = "unary" => e.op \in {"!", "-"}
  BY NodeIs DEF Shaped
<1>1. e.a \in Seq(T) /\ Len(e.a) = 1 /\ f \in T
  BY PartsOf, ReturnPart
<1>2. CASE e.k = "unary" /\ e.op = "-" /\ IsLit(f)
  <2>1. r.t \in ValueTypes /\ r.e = Annotated(e, e.a, r.t)
    BY <1>2, MinusLiteralTaken
  <2> HIDE DEF r
  <2>2. r.t \in Types /\ r.t \in Expected
    BY <2>1, BasicTypes
  <2>3. r.t = OwnType(e, r.t)
    BY <1>2 DEF OwnType, Diverging
  <2> QED BY <1>2, <2>1, <2>2, <2>3, SamePartsRegular
<1>3. ASSUME NEW p, p.e \in T, p.e.k = f.k, NEW t \in Expected, r.e = Annotated(e, <<p.e>>, t),
             r.t \in Types, r.t = OwnType(e, t), e.k = "named" /\ x # Untyped => r.t \in {x, Never}
      PROVE  Regular(NodesOver(T), r, e, x)
  <2>1. e.k \notin {"block", "case", "default"}
    BY DEF OverOne
  <2> HIDE DEF r
  <2> QED BY <1>1, <1>3, <2>1, OnePartRegular
<1>4. \A y, p : Fine(T, sub, f, y, c, p) => p.e \in T /\ p.e.k = f.k /\ p.t \in Types /\ p.t \in Expected
  BY BasicTypes DEF Fine
<1>5. CASE e.k = "unary" /\ e.op = "!"
  <2> DEFINE p == Check(sub, f, Bool, c)
  <2>1. Fine(T, sub, f, Bool, c, p) /\ r.t = Bool /\ r.e = Annotated(e, <<p.e>>, Bool)
    BY <1>5, NotTaken
  <2>2. Bool = OwnType(e, Bool) /\ Bool \in Types /\ Bool \in Expected
    BY <1>5, BasicTypes DEF OwnType, Diverging
  <2> HIDE DEF r, f, p
  <2> QED BY <1>3, <1>4, <1>5, <2>1, <2>2
<1>6. CASE e.k = "unary" /\ e.op = "-" /\ ~IsLit(f)
  <2> DEFINE p == Check(sub, f, x, c)
  <2>1. Fine(T, sub, f, x, c, p) /\ r.t = p.t /\ r.e = Annotated(e, <<p.e>>, p.t)
    BY <1>6, MinusTaken
  <2> HIDE DEF r, f, p
  <2>2. p.t = OwnType(e, p.t)
    BY <1>6 DEF OwnType, Diverging
  <2> QED BY <1>3, <1>4, <1>6, <2>1, <2>2
<1>7. CASE e.k = "named"
  <2> DEFINE p == Check(sub, f, x, c)
  <2>1. Fine(T, sub, f, x, c, p) /\ r.t = p.t /\ r.e = Annotated(e, <<p.e>>, p.t) /\ (x = Untyped \/ p.t \in {x, Never})
    BY <1>7, NamedTaken
  <2> HIDE DEF r, f, p
  <2>2. p.t = OwnType(e, p.t)
    BY <1>7 DEF OwnType, Diverging
  <2> QED BY <1>3, <1>4, <1>7, <2>1, <2>2
<1>8. CASE e.k = "field"
  <2> DEFINE p == Check(sub, f, Untyped, c)
  <2>1. /\ Fine(T, sub, f, Untyped, c, p) /\ r.e = Annotated(e, <<p.e>>, r.t)
        /\ e.op \in NamesOf(Readable(p.t)) /\ r.t = TypeIn(Readable(p.t), e.op)
    BY <1>8, FieldTaken
  <2> HIDE DEF r, f, p
  <2>2. r.t \in Types /\ r.t \in Expected
    BY <1>4, <2>1, ReadableIn, BasicTypes
  <2>3. r.t = OwnType(e, r.t)
    BY <1>8 DEF OwnType, Diverging
  <2> QED BY <1>3, <1>4, <1>8, <2>1, <2>2, <2>3
<1>9. CASE e.k = "try"
  <2> DEFINE p == Check(sub, f, Untyped, c)
  <2>1. /\ Fine(T, sub, f, Untyped, c, p) /\ r.e = Annotated(e, <<p.e>>, r.t)
        /\ p.t = ErrorT \/ IsFallible(p.t)
        /\ r.t = IF p.t = ErrorT THEN Unit ELSE p.t.fst
    BY <1>9, TryTaken
  <2> HIDE DEF r, f, p
  <2>2. r.t \in Types
    <3>1. p.t \in Types
      BY <1>4, <2>1
    <3>2. IsFallible(p.t) => p.t.fst \in Types
      BY <3>1, TypesAssumption DEF IsFallible, IsTuple
    <3> QED BY <2>1, <3>2, BasicTypes, TypesAssumption
  <2>3. r.t = OwnType(e, r.t) /\ r.t \in Expected
    BY <1>9, <2>2, BasicTypes DEF OwnType, Diverging
  <2> QED BY <1>3, <1>4, <1>9, <2>1, <2>2, <2>3
<1>10. CASE e.k \in {"let", "assign", "discard"}
  <2>1. PICK y, p : Fine(T, sub, f, y, c, p) /\ r.t = Unit /\ r.e = Annotated(e, <<p.e>>, p.t)
    <3>1. CASE e.k = "let"
      BY <3>1, LetTaken
    <3>2. CASE e.k = "assign"
      BY <3>2, AssignTaken
    <3>3. CASE e.k = "discard"
      BY <3>3, DiscardTaken
    <3> QED BY <1>10, <3>1, <3>2, <3>3
  <2> HIDE DEF r, f
  <2>2. r.t = OwnType(e, p.t) /\ Unit \in Types
    BY <1>10, <2>1, TypesAssumption DEF OwnType, Diverging
  <2> QED BY <1>3, <1>4, <1>10, <2>1, <2>2
<1>11. CASE e.k = "return" /\ e.a # << >>
  <2> DEFINE p == Check(sub, f, c.ret, c)
  <2>1. Fine(T, sub, f, c.ret, c, p) /\ r.t = Never /\ r.e = Annotated(e, <<p.e>>, p.t)
    BY <1>11, ReturnTaken
  <2> HIDE DEF r, f, p
  <2>2. r.t = OwnType(e, p.t) /\ Never \in Types
    BY <1>11, <2>1, TypesAssumption DEF OwnType, Diverging
  <2> QED BY <1>3, <1>4, <1>11, <2>1, <2>2
<1> HIDE DEF r, f
<1> QED BY <1>0, <1>2, <1>5, <1>6, <1>7, <1>8, <1>9, <1>10, <1>11 DEF OverOne

LEMMA TwoRegular ==
  ASSUME NEW T, NEW sub, RegularAt(T, sub), NEW e \in NodesOver(T), NEW x \in Expected,
         NEW c \in Contexts, e.k \in {"binary", "tuple"}, Resolve(sub, e, x, c).ok
  PROVE  Regular(NodesOver(T), Resolve(sub, e, x, c), e, x)
<1> DEFINE r == Resolve(sub, e, x, c)
           f == e.a[1]
           g == e.a[2]
<1> SUFFICES Regular(NodesOver(T), r, e, x)
  OBVIOUS
<1>1. ASSUME NEW p, NEW q, NEW y, NEW z, Fine(T, sub, f, y, c, p), Fine(T, sub, g, z, c, q), NEW t \in Types,
             r.e = Annotated(e, <<p.e, q.e>>, t), r.t \in Types, r.t = OwnType(e, t)
      PROVE  Regular(NodesOver(T), r, e, x)
  <2>1. p.e \in T /\ p.e.k = f.k /\ q.e \in T /\ q.e.k = g.k
    BY <1>1 DEF Fine
  <2>2. t \in Expected
    BY BasicTypes
  <2> HIDE DEF r
  <2> QED BY <1>1, <2>1, <2>2, TwoPartsRegular
<1>2. \A y, p, d : Fine(T, sub, d, y, c, p) => p.t \in Types
  BY DEF Fine
<1>3. CASE e.k = "tuple"
  <2> DEFINE p == Check(sub, f, Untyped, c)
             q == Check(sub, g, Untyped, c)
  <2>1. /\ Fine(T, sub, f, Untyped, c, p) /\ Fine(T, sub, g, Untyped, c, q)
        /\ r.t \in Types /\ r.e = Annotated(e, <<p.e, q.e>>, r.t)
    BY <1>3, TupleTaken
  <2> HIDE DEF r, f, g, p, q
  <2>2. r.t = OwnType(e, r.t)
    BY <1>3 DEF OwnType, Diverging
  <2> QED BY <1>1, <2>1, <2>2
<1>4. CASE e.k = "binary" /\ e.op = "&&"
  <2> DEFINE p == Check(sub, f, Bool, c)
             q == Check(sub, g, Bool, c)
  <2>1. /\ Fine(T, sub, f, Bool, c, p) /\ Fine(T, sub, g, Bool, c, q)
        /\ r.t = Bool /\ r.e = Annotated(e, <<p.e, q.e>>, Bool)
    BY <1>4, LogicalTaken
  <2> HIDE DEF r, f, g, p, q
  <2>2. r.t = OwnType(e, Bool) /\ Bool \in Types
    BY <1>4, <2>1, BasicTypes DEF OwnType, Diverging
  <2> QED BY <1>1, <2>1, <2>2
<1>5. CASE e.k = "binary" /\ e.op = "<<"
  <2> DEFINE u == Named("UInt64")
             p == Check(sub, f, x, c)
             q == sub[g][u][c]
  <2>1. /\ Fine(T, sub, f, x, c, p) /\ Fine(T, sub, g, u, c, q)
        /\ r.t = p.t /\ r.e = Annotated(e, <<p.e, q.e>>, p.t)
    BY <1>5, ShiftTaken
  <2> HIDE DEF r, f, g, p, q, u
  <2>2. r.t = OwnType(e, p.t)
    BY <1>5, <2>1 DEF OwnType, Diverging
  <2> QED BY <1>1, <1>2, <2>1, <2>2
<1>6. CASE e.k = "binary" /\ e.op \in {"+", "=="}
  <2>1. PICK p, q, w : /\ OperandsFine(T, sub, e, w, c, p, q) /\ r.e = Annotated(e, <<p.e, q.e>>, p.t)
                       /\ r.t = IF e.op = "+" THEN p.t ELSE Bool
    <3>1. CASE e.op = "+"
      BY <1>6, <3>1, SumTaken
    <3>2. CASE e.op = "=="
      BY <1>6, <3>2, EqualityTaken
    <3> QED BY <1>6, <3>1, <3>2
  <2>2. PICK y, z : Fine(T, sub, f, y, c, p) /\ Fine(T, sub, g, z, c, q)
    BY <2>1 DEF OperandsFine
  <2> HIDE DEF r, f, g
  <2>3. r.t = OwnType(e, p.t) /\ p.t \in Types /\ r.t \in Types
    BY <1>2, <1>6, <2>1, <2>2, BasicTypes DEF OwnType, Diverging
  <2> QED BY <1>1, <2>1, <2>2, <2>3
<1>7. e.k = "binary" => e.op \in {"&&", "<<", "+", "=="}
  BY NodeIs DEF Shaped
<1> HIDE DEF r, f, g
<1> QED BY <1>3, <1>4, <1>5, <1>6, <1>7

LEMMA ManyRegular ==
  ASSUME NEW T, NEW sub, RegularAt(T, sub), NEW e \in NodesOver(T), NEW x \in Expected,
         NEW c \in Contexts, e.k \in {"list", "call", "struct", "variant"}, Resolve(sub, e, x, c).ok
  PROVE  Regular(NodesOver(T), Resolve(sub, e, x, c), e, x)
<1> DEFINE r == Resolve(sub, e, x, c)
<1> SUFFICES Regular(NodesOver(T), r, e, x)
  OBVIOUS
<1>1. PICK rs : /\ DOMAIN rs = DOMAIN e.a
                /\ \A i \in DOMAIN e.a : \E y : Fine(T, sub, e.a[i], y, c, rs[i])
                /\ r.e = Annotated(e, Trees(rs), r.t) /\ r.t \in Types
  <2>1. CASE e.k = "list"
    <3>1. PICK rs : ElementsFine(T, sub, e, c, r.t.of, rs) /\ r.e = Annotated(e, Trees(rs), r.t) /\ r.t \in Types
      BY <2>1, ListTaken
    <3> HIDE DEF r
    <3> QED BY <3>1 DEF ElementsFine
  <2>2. CASE e.k = "call"
    <3> DEFINE rs == [i \in DOMAIN e.a |-> Check(sub, e.a[i], Signature[e.op].params[i], c)]
               ys == [i \in DOMAIN e.a |-> IF Signature[e.op].params[i] = AnyT THEN Untyped
                                           ELSE Signature[e.op].params[i]]
    <3>1. PartsFine(T, sub, e.a, ys, c, rs) /\ r.e = Annotated(e, Trees(rs), r.t) /\ r.t \in ValueTypes \cup {Unit}
      BY <2>2, CallTaken
    <3> HIDE DEF r, rs, ys
    <3>2. r.t \in Types
      BY <3>1, BasicTypes, TypesAssumption
    <3> QED BY <3>1, <3>2 DEF PartsFine
  <2>3. CASE e.k \in {"struct", "variant"}
    <3> DEFINE ys == [i \in DOMAIN e.a |-> TypeIn(FieldsAt(e), e.a[i].op)]
               rs == [i \in DOMAIN e.a |-> sub[e.a[i]][TypeIn(FieldsAt(e), e.a[i].op)][c]]
    <3>1. PartsFine(T, sub, e.a, ys, c, rs) /\ r.e = Annotated(e, Trees(rs), r.t) /\ r.t \in ValueTypes
      BY <2>3, FieldsTaken
    <3> HIDE DEF r, rs, ys
    <3>2. r.t \in Types
      BY <3>1, BasicTypes
    <3> QED BY <3>1, <3>2 DEF PartsFine
  <2> HIDE DEF r
  <2> QED BY <2>1, <2>2, <2>3
<1> HIDE DEF r
<1>2. \A i \in DOMAIN e.a : rs[i].e \in T /\ rs[i].e.k = e.a[i].k
  BY <1>1 DEF Fine
<1> QED BY <1>1, <1>2, ManyPartsRegular

LEMMA IfRegular ==
  ASSUME NEW T, NEW sub, RegularAt(T, sub), NEW e \in NodesOver(T), NEW x \in Expected,
         NEW c \in Contexts, e.k = "if", Resolve(sub, e, x, c).ok
  PROVE  Regular(NodesOver(T), Resolve(sub, e, x, c), e, x)
<1> DEFINE r  == Resolve(sub, e, x, c)
           y  == BranchContext(e, x)
           ps == [i \in DOMAIN e.cs |-> Check(sub, e.cs[i], Bool, c)]
           bs == Branches(sub, e.a, e.a, y, c)
<1> SUFFICES Regular(NodesOver(T), r, e, x)
  OBVIOUS
<1>1. /\ \A i \in DOMAIN e.cs : Fine(T, sub, e.cs[i], Bool, c, ps[i])
      /\ BodiesFine(T, sub, e.a, y, c, bs, r.t)
      /\ r.t \in Types /\ r.e = With(e, e.ty, Trees(ps), Trees(bs), r.t)
  BY IfTaken
<1>2. DOMAIN ps = DOMAIN e.cs
  OBVIOUS
<1> HIDE DEF r, y, ps, bs
<1>3. e.a \in Seq(T) /\ e.cs \in Seq(T) /\ e.ty \in Expected
  BY NodeIs
<1>4. Trees(ps) \in Seq(T) /\ SameKinds(Trees(ps), e.cs)
  <2>1. \A i \in DOMAIN e.cs : ps[i].e \in T /\ ps[i].e.k = e.cs[i].k
    BY <1>1 DEF Fine
  <2> QED BY <1>2, <1>3, <2>1, TreesFit
<1>5. Trees(bs) \in Seq(T) /\ SameKinds(Trees(bs), e.a)
  <2>1. DOMAIN bs = DOMAIN e.a /\ \A i \in DOMAIN e.a : bs[i].e \in T /\ bs[i].e.k = e.a[i].k
    BY <1>1 DEF BodiesFine, Body
  <2> QED BY <1>3, <2>1, TreesFit
<1>6. r.t = OwnType(e, r.t) /\ r.t \in Expected
  BY <1>1, BasicTypes DEF OwnType, Diverging
<1> QED BY <1>1, <1>3, <1>4, <1>5, <1>6, MadeRegular

LEMMA SwitchRegular ==
  ASSUME NEW T, NEW sub, RegularAt(T, sub), NEW e \in NodesOver(T), NEW x \in Expected,
         NEW c \in Contexts, e.k = "switch", Resolve(sub, e, x, c).ok
  PROVE  Regular(NodesOver(T), Resolve(sub, e, x, c), e, x)
<1> DEFINE r  == Resolve(sub, e, x, c)
           p  == Check(sub, e.cs[1], Untyped, c)
           bs == Branches(sub, e.a, Bodies(e), x, c)
<1> SUFFICES Regular(NodesOver(T), r, e, x)
  OBVIOUS
<1>1. /\ Fine(T, sub, e.cs[1], Untyped, c, p)
      /\ BodiesFine(T, sub, e.a, x, c, bs, r.t)
      /\ r.t \in Types /\ r.e = With(e, p.t, <<p.e>>, Trees(bs), r.t)
  BY SwitchTaken
<1> HIDE DEF r, p, bs
<1>2. e.a \in Seq(T) /\ e.cs \in Seq(T) /\ Len(e.cs) = 1
  BY PartsOf
<1>3. p.e \in T /\ p.e.k = e.cs[1].k /\ p.t \in Expected
  BY <1>1, BasicTypes DEF Fine
<1>4. <<p.e>> \in Seq(T) /\ SameKinds(<<p.e>>, e.cs)
  BY <1>2, <1>3, OneFits
<1>5. Trees(bs) \in Seq(T) /\ SameKinds(Trees(bs), e.a)
  <2>1. DOMAIN bs = DOMAIN e.a /\ \A i \in DOMAIN e.a : bs[i].e \in T /\ bs[i].e.k = e.a[i].k
    BY <1>1 DEF BodiesFine, Body
  <2> QED BY <1>2, <2>1, TreesFit
<1>6. r.t = OwnType(e, r.t) /\ r.t \in Expected
  BY <1>1, BasicTypes DEF OwnType, Diverging
<1> QED BY <1>1, <1>3, <1>4, <1>5, <1>6, MadeRegular

LEMMA WhileRegular ==
  ASSUME NEW T, NEW sub, RegularAt(T, sub), NEW e \in NodesOver(T), NEW x \in Expected,
         NEW c \in Contexts, e.k = "while", Resolve(sub, e, x, c).ok
  PROVE  Regular(NodesOver(T), Resolve(sub, e, x, c), e, x)
<1> DEFINE r == Resolve(sub, e, x, c)
           p == Check(sub, e.cs[1], Bool, c)
           l == [c EXCEPT !.loop = @ + 1]
           b == sub[e.a[1]][Unit][l]
<1> SUFFICES Regular(NodesOver(T), r, e, x)
  OBVIOUS
<1>1. /\ Fine(T, sub, e.cs[1], Bool, c, p)
      /\ Body(T, sub, e.a[1], Unit, l, b)
      /\ r.t = Unit /\ r.e = With(e, e.ty, <<p.e>>, <<b.e>>, Unit)
  BY WhileTaken
<1> HIDE DEF r, p, b, l
<1>2. e.a \in Seq(T) /\ e.cs \in Seq(T) /\ Len(e.cs) = 1 /\ Len(e.a) = 1 /\ e.ty \in Expected
  BY PartsOf, NodeIs
<1>3. p.e \in T /\ p.e.k = e.cs[1].k /\ b.e \in T /\ b.e.k = e.a[1].k
  BY <1>1 DEF Fine, Body
<1>4. <<p.e>> \in Seq(T) /\ SameKinds(<<p.e>>, e.cs)
  BY <1>2, <1>3, OneFits
<1>5. <<b.e>> \in Seq(T) /\ SameKinds(<<b.e>>, e.a)
  BY <1>2, <1>3, OneFits
<1>6. r.t = OwnType(e, Unit) /\ Unit \in Expected /\ r.t \in Types
  BY <1>1, BasicTypes, TypesAssumption DEF OwnType, Diverging
<1> QED BY <1>1, <1>2, <1>4, <1>5, <1>6, MadeRegular

LEMMA MadeSeq ==
  ASSUME NEW S, NEW n \in Nat, NEW f, f = [i \in 1 .. n |-> f[i]], \A i \in 1 .. n : f[i] \in S
  PROVE  f \in Seq(S) /\ Len(f) = n
<1>1. [i \in 1 .. n |-> f[i]] \in Seq(S) /\ Len([i \in 1 .. n |-> f[i]]) = n
  OBVIOUS
<1> QED BY <1>1

\* The names that a pattern binds are parts like the others.
Renotable(T) == \A d \in T : d.k = "bound" => \A r \in Expected : Annotated(d, d.a, r) \in T

LEMMA PatternTaken ==
  ASSUME NEW T, Renotable(T), NEW e \in NodesOver(T), e.k \in {"case", "default"}, Apt(e)
  PROVE  LET fields == FieldsOf(e.ty, e.op)
             named == [i \in DOMAIN e.cs |-> Annotated(e.cs[i], e.cs[i].a, fields[i].type)]
         IN  /\ named \in Seq(T) /\ SameKinds(named, e.cs)
             /\ e.k = "case" => \A i \in DOMAIN e.cs : /\ named[i].op = e.cs[i].op
                                                       /\ e.cs[i].op \in NamesOf(fields)
                                                       /\ named[i].r = TypeIn(fields, e.cs[i].op)
<1> DEFINE fields == FieldsOf(e.ty, e.op)
           named == [i \in DOMAIN e.cs |-> Annotated(e.cs[i], e.cs[i].a, fields[i].type)]
<1>1. e.cs \in Seq(T) /\ Shaped(e)
  BY NodeIs
<1>2. CASE e.k = "default"
  <2>1. e.cs = << >>
    BY <1>1, <1>2 DEF Shaped
  <2>2. named = << >>
    BY <2>1
  <2> QED BY <1>2, <2>1, <2>2 DEF SameKinds
<1>3. CASE e.k = "case"
  <2>1. \A i \in DOMAIN e.cs : e.cs[i] \in T /\ e.cs[i].k = "bound"
    BY <1>1, <1>3 DEF Shaped, All
  <2>2. HasVariant(e.ty, e.op) /\ Len(e.cs) = Len(fields) /\ \A i \in DOMAIN e.cs : e.cs[i].op = fields[i].name
    BY <1>3 DEF Apt, Fitting
  <2>3. Declared(fields)
    BY <2>2, VariantFields
  <2>4. \A i \in DOMAIN e.cs : named[i] = Annotated(e.cs[i], e.cs[i].a, fields[i].type)
    OBVIOUS
  <2>5. DOMAIN e.cs = 1 .. Len(e.cs) /\ Len(e.cs) \in Nat /\ named = [i \in 1 .. Len(e.cs) |-> named[i]]
    BY <1>1
  <2>6. DOMAIN fields = 1 .. Len(fields)
    BY <2>3 DEF Declared
  <2> HIDE DEF named, fields
  <2>7. ASSUME NEW i \in DOMAIN e.cs
        PROVE  /\ named[i] \in T /\ named[i].k = e.cs[i].k /\ named[i].op = e.cs[i].op
               /\ e.cs[i].op \in NamesOf(fields) /\ named[i].r = TypeIn(fields, e.cs[i].op)
    <3>1. i \in DOMAIN fields
      BY <2>2, <2>5, <2>6
    <3>2. fields[i].type \in Expected /\ TypeIn(fields, e.cs[i].op) = fields[i].type
      BY <2>2, <2>3, <3>1, FieldsTyped, BasicTypes
    <3>3. e.cs[i].op \in NamesOf(fields)
      BY <2>2, <3>1 DEF NamesOf
    <3>4. named[i] \in T
      BY <2>1, <2>4, <3>2 DEF Renotable
    <3> QED BY <2>4, <3>2, <3>3, <3>4, WithIs DEF Annotated
  <2>8. named \in Seq(T) /\ Len(named) = Len(e.cs)
    <3>1. \A i \in 1 .. Len(e.cs) : named[i] \in T
      BY <2>5, <2>7
    <3> QED BY <2>5, <3>1, MadeSeq
  <2> QED BY <2>7, <2>8 DEF SameKinds, named, fields
<1> QED BY <1>2, <1>3

LEMMA CaseRegular ==
  ASSUME NEW T, Renotable(T), NEW sub, RegularAt(T, sub), NEW e \in NodesOver(T), NEW x \in Expected,
         NEW c \in Contexts, e.k \in {"case", "default"}, Apt(e), Resolve(sub, e, x, c).ok
  PROVE  Regular(NodesOver(T), Resolve(sub, e, x, c), e, x)
<1> DEFINE r == Resolve(sub, e, x, c)
           fields == FieldsOf(e.ty, e.op)
           b == sub[e.a[1]][x][Within(e, c)]
           w == Within(e, c)
           named == [i \in DOMAIN e.cs |-> Annotated(e.cs[i], e.cs[i].a, fields[i].type)]
<1> SUFFICES Regular(NodesOver(T), r, e, x)
  OBVIOUS
<1>1. Body(T, sub, e.a[1], x, w, b) /\ r.t = b.t /\ r.e = With(e, e.ty, named, <<b.e>>, b.t)
  BY CaseTaken
<1>2. /\ named \in Seq(T) /\ SameKinds(named, e.cs)
      /\ e.k = "case" => \A i \in DOMAIN e.cs : /\ named[i].op = e.cs[i].op
                                                /\ e.cs[i].op \in NamesOf(fields)
                                                /\ named[i].r = TypeIn(fields, e.cs[i].op)
  BY PatternTaken
<1>3. DOMAIN named = DOMAIN e.cs
  OBVIOUS
<1> HIDE DEF r, b, named, w, fields
<1>4. e.a \in Seq(T) /\ Len(e.a) = 1 /\ e.a[1].k = "block" /\ e.ty \in Expected
  BY PartsOf, NodeIs
<1>5. /\ b.e \in T /\ b.e.k = e.a[1].k /\ SameKinds(b.e.a, e.a[1].a)
      /\ b.t \in Types /\ (x # Untyped => b.t \in {x, Never}) /\ b.t = BlockType(b.e)
  BY <1>1, <1>4 DEF Body
<1>6. <<b.e>> \in Seq(T) /\ SameKinds(<<b.e>>, e.a)
  BY <1>4, <1>5, OneFits
<1>7. b.t \in Expected
  BY <1>5, BasicTypes
<1>8. r.e \in NodesOver(T)
  BY <1>1, <1>2, <1>4, <1>6, <1>7, WithShaped
<1>9. /\ r.e.k = e.k /\ r.e.op = e.op /\ r.e.n = e.n /\ r.e.ty = e.ty /\ r.e.cs = named
      /\ r.e.a = <<b.e>> /\ r.e.r = b.t
  BY <1>1, WithIs
<1>10. TypeOf(r.e) = b.t
  BY <1>9 DEF TypeOf, Diverging
<1>11. r.e.a[1] = b.e
  BY <1>9
<1>12. e.k = "case" => BindsFields(r.e, fields)
  BY <1>2, <1>3, <1>9 DEF BindsFields
<1> QED BY <1>1, <1>5, <1>6, <1>8, <1>9, <1>10, <1>11, <1>12 DEF Regular, fields

LEMMA BlockRegular ==
  ASSUME NEW T, NEW sub, RegularAt(T, sub), NEW e \in NodesOver(T), NEW x \in Expected,
         NEW c \in Contexts, e.k = "block", Resolve(sub, e, x, c).ok
  PROVE  Regular(NodesOver(T), Resolve(sub, e, x, c), e, x)
<1> DEFINE r == Resolve(sub, e, x, c)
<1> SUFFICES Regular(NodesOver(T), r, e, x)
  OBVIOUS
<1>1. e.a \in Seq(T)
  BY NodeIs
<1>2. CASE e.a = << >>
  <2>1. x \in {Untyped, Unit} /\ r = Typed(Unit, e)
    BY <1>2, EmptyBlockTaken
  <2> HIDE DEF r
  <2>2. r.t = Unit /\ r.e = e
    BY <2>1, BadIsBad
  <2>3. BlockType(e) = Unit /\ SameKinds(e.a, e.a) /\ Unit \in Types
    BY <1>1, <1>2, KindsOfItself, TypesAssumption DEF BlockType
  <2> QED BY <2>1, <2>2, <2>3 DEF Regular
<1>3. CASE e.a # << >>
  <2> DEFINE ys == [i \in DOMAIN e.a |-> IF i = Len(e.a) THEN x ELSE Untyped]
             rs == [i \in DOMAIN e.a |-> Check(sub, e.a[i], IF i = Len(e.a) THEN x ELSE Untyped, c)]
             k  == Len(e.a)
  <2>1. PartsFine(T, sub, e.a, ys, c, rs) /\ r.t = rs[k].t /\ r.e = Annotated(e, Trees(rs), e.r)
    BY <1>3, BlockTaken
  <2>2. k \in DOMAIN e.a
    BY <1>1, <1>3
  <2>3. ys[k] = x
    BY <2>2
  <2> HIDE DEF r, ys, rs, k
  <2>4. DOMAIN rs = DOMAIN e.a /\ \A i \in DOMAIN e.a : rs[i].e \in T /\ rs[i].e.k = e.a[i].k
    BY <2>1 DEF PartsFine, Fine
  <2>5. rs[k].t \in Types /\ TypeOf(rs[k].e) = rs[k].t /\ (x # Untyped => rs[k].t \in {x, Never})
    BY <2>1, <2>2, <2>3 DEF PartsFine, Fine
  <2>6. Trees(rs) \in Seq(T) /\ SameKinds(Trees(rs), e.a) /\ Trees(rs)[k] = rs[k].e
    BY <1>1, <2>2, <2>4, TreesFit
  <2>7. e.r \in Expected
    BY NodeIs
  <2>8. /\ r.e \in NodesOver(T) /\ r.e.k = e.k /\ r.e.op = e.op /\ r.e.n = e.n /\ r.e.ty = e.ty
        /\ r.e.a = Trees(rs)
    BY <2>1, <2>6, <2>7, AnnotatedFits
  <2>9. BlockType(r.e) = r.t
    <3>1. Len(r.e.a) = k /\ r.e.a # << >>
      <4>1. Len(Trees(rs)) = k /\ DOMAIN Trees(rs) = DOMAIN e.a
        BY <1>1, <2>4, <2>6, TreesFit DEF SameKinds, k
      <4> QED BY <2>2, <2>8, <4>1
    <3>2. LastOf(r.e) = rs[k].e
      BY <2>6, <2>8, <3>1 DEF LastOf
    <3> QED BY <2>1, <2>5, <3>1, <3>2 DEF BlockType
  <2> QED BY <2>1, <2>5, <2>6, <2>8, <2>9 DEF Regular
<1> QED BY <1>2, <1>3

LEMMA KindsOfNodes ==
  ASSUME NEW T, NEW e \in NodesOver(T)
  PROVE  \/ e.k \in {"int", "var", "bound"}
         \/ e.k \in {"break", "continue"} \/ (e.k = "return" /\ e.a = << >>)
         \/ e.k \in OverOne \/ (e.k = "return" /\ e.a # << >>)
         \/ e.k \in {"binary", "tuple"}
         \/ e.k \in {"list", "call", "struct", "variant"}
         \/ e.k = "if" \/ e.k = "switch" \/ e.k = "while"
         \/ e.k \in {"case", "default"} \/ e.k = "block"
<1>1. e.k \in Expression \cup {"block", "named", "case", "default"}
  BY NodeIs DEF Shaped
<1> QED BY <1>1 DEF Expression, OverOne

LEMMA ResolveRegular ==
  ASSUME NEW T, Renotable(T), NEW sub, RegularAt(T, sub), NEW e \in NodesOver(T), Apt(e), NEW x \in Expected,
         NEW c \in Contexts
  PROVE  Regular(NodesOver(T), Resolve(sub, e, x, c), e, x)
<1>1. CASE ~Resolve(sub, e, x, c).ok
  BY <1>1 DEF Regular
<1>2. CASE Resolve(sub, e, x, c).ok
  <2>1. CASE e.k \in {"int", "var", "bound"}
    BY <1>2, <2>1, LeavesRegular
  <2>2. CASE e.k \in {"break", "continue"} \/ (e.k = "return" /\ e.a = << >>)
    BY <1>2, <2>2, JumpsRegular
  <2>3. CASE e.k \in OverOne \/ (e.k = "return" /\ e.a # << >>)
    BY <1>2, <2>3, OneRegular
  <2>4. CASE e.k \in {"binary", "tuple"}
    BY <1>2, <2>4, TwoRegular
  <2>5. CASE e.k \in {"list", "call", "struct", "variant"}
    BY <1>2, <2>5, ManyRegular
  <2>6. CASE e.k = "if"
    BY <1>2, <2>6, IfRegular
  <2>7. CASE e.k = "switch"
    BY <1>2, <2>7, SwitchRegular
  <2>8. CASE e.k = "while"
    BY <1>2, <2>8, WhileRegular
  <2>9. CASE e.k \in {"case", "default"}
    BY <1>2, <2>9, CaseRegular
  <2>10. CASE e.k = "block"
    BY <1>2, <2>10, BlockRegular
  <2> QED BY <2>1, <2>2, <2>3, <2>4, <2>5, <2>6, <2>7, <2>8, <2>9, <2>10, KindsOfNodes
<1> QED BY <1>1, <1>2

LEMMA TreesRenotable ==
  \A n \in Levels : Renotable(TreesAt[n])
<1> SUFFICES ASSUME NEW n \in Levels PROVE Renotable(TreesAt[n])
  OBVIOUS
<1>1. CASE n = 0
  BY <1>1, TreesAre DEF Renotable
<1>2. CASE n # 0
  <2> DEFINE T == TreesAt[n - 1]
  <2>1. TreesAt[n] = NodesOver(T)
    BY <1>2, TreesAre
  <2> HIDE DEF T
  <2>2. ASSUME NEW d \in NodesOver(T), NEW r \in Expected PROVE Annotated(d, d.a, r) \in NodesOver(T)
    <3>1. d.a \in Seq(T) /\ SameKinds(d.a, d.a)
      BY NodeIs, KindsOfItself
    <3> QED BY <3>1, AnnotatedFits
  <2> QED BY <2>1, <2>2 DEF Renotable
<1> QED BY <1>1, <1>2

\* Every level of the checker.
LEMMA CheckerRegular ==
  \A n \in Levels : RegularAt(TreesAt[n], Checker[n])
<1> DEFINE K == {n \in Levels : RegularAt(TreesAt[n], Checker[n])}
<1>1. 0 \in K
  BY TreesAre, DepthIsNat DEF RegularAt, Levels
<1>2. ASSUME NEW n \in Levels \ {0}, n - 1 \in K PROVE n \in K
  <2> DEFINE T == TreesAt[n - 1]
             sub == Checker[n - 1]
  <2>1. TreesAt[n] = NodesOver(T) /\ Checker[n] = CheckerStep(sub, NodesOver(T))
    BY TreesAre, CheckerIs
  <2>2. RegularAt(T, sub) /\ Renotable(T)
    BY <1>2, TreesRenotable
  <2> HIDE DEF T, sub
  <2>3. \A d \in NodesOver(T) : \A x \in Expected, c \in Contexts :
          Apt(d) => Regular(NodesOver(T), Resolve(sub, d, x, c), d, x)
    BY <2>2, ResolveRegular
  <2>4. \A d \in NodesOver(T) : \A x \in Expected, c \in Contexts :
          CheckerStep(sub, NodesOver(T))[d][x][c] = Resolve(sub, d, x, c)
    BY DEF CheckerStep
  <2> QED BY <2>1, <2>3, <2>4 DEF RegularAt
<1> HIDE DEF K
<1>3. \A n \in Levels : n \in K
  BY <1>1, <1>2, LevelInduct
<1> QED BY <1>3 DEF K

-----------------------------------------------------------------------------
(***************************************************************************)
(* A claim about all nodes of a tree is one about its root and its parts.  *)
(***************************************************************************)
LEMMA NodesOfParts ==
  ASSUME NEW T, NEW e \in NodesOver(T), NEW nodes
  PROVE  /\ e \in NodesStep(nodes, NodesOver(T))[e]
         /\ \A i \in DOMAIN e.a : nodes[e.a[i]] \subseteq NodesStep(nodes, NodesOver(T))[e]
         /\ \A i \in DOMAIN e.cs : nodes[e.cs[i]] \subseteq NodesStep(nodes, NodesOver(T))[e]
<1>0. NodesStep(nodes, NodesOver(T))[e] =
        {e} \cup (UNION {nodes[e.a[i]] : i \in DOMAIN e.a}) \cup (UNION {nodes[e.cs[i]] : i \in DOMAIN e.cs})
  BY DEF NodesStep
<1>1. e \in NodesStep(nodes, NodesOver(T))[e]
  BY <1>0
<1>2. ASSUME NEW i \in DOMAIN e.a, NEW f \in nodes[e.a[i]] PROVE f \in NodesStep(nodes, NodesOver(T))[e]
  BY <1>0
<1>3. ASSUME NEW i \in DOMAIN e.cs, NEW f \in nodes[e.cs[i]] PROVE f \in NodesStep(nodes, NodesOver(T))[e]
  BY <1>0
<1> QED BY <1>1, <1>2, <1>3

AllValued(S) == \A f \in S : Valued(f)

LEMMA ValuedParts ==
  ASSUME NEW T, NEW e \in NodesOver(T), NEW nodes, AllValued(NodesStep(nodes, NodesOver(T))[e])
  PROVE  /\ Valued(e)
         /\ \A i \in DOMAIN e.a : AllValued(nodes[e.a[i]])
         /\ \A i \in DOMAIN e.cs : AllValued(nodes[e.cs[i]])
<1>1. Valued(e)
  BY NodesOfParts DEF AllValued
<1>2. ASSUME NEW i \in DOMAIN e.a PROVE AllValued(nodes[e.a[i]])
  BY NodesOfParts DEF AllValued
<1>3. ASSUME NEW i \in DOMAIN e.cs PROVE AllValued(nodes[e.cs[i]])
  BY NodesOfParts DEF AllValued
<1> QED BY <1>1, <1>2, <1>3

-----------------------------------------------------------------------------
(* What is found has values, or is the type of what has none. *)

Good == ValueTypes \cup {Unit, Never}

GoodAt(T, sub, nodes) ==
  \A d \in T : \A x \in Good \cup {Untyped}, c \in Contexts :
    Apt(d) /\ sub[d][x][c].ok /\ AllValued(nodes[sub[d][x][c].e]) => sub[d][x][c].t \in Good

LEMMA GoodTypes ==
  /\ Good \subseteq Expected /\ Good \cup {Untyped} \subseteq Expected /\ Good \subseteq Types
  /\ ValueTypes \subseteq Good /\ Unit \in Good /\ Never \in Good /\ Bool \in Good /\ ErrorT \in Good
  /\ AnyT \notin Good /\ Untyped \notin Good
BY BasicTypes, TypesAssumption DEF Good

\* The parts of a pair.
LEMMA PairTypes ==
  /\ \A s, t : Pair(s, t).fst = s /\ Pair(s, t).snd = t /\ IsTuple(Pair(s, t))
  /\ \A t \in Types : IsTuple(t) => /\ t = Pair(t.fst, t.snd) /\ t.fst \in Types /\ t.snd \in Types
                                    /\ t \in ValueTypes <=> t.fst \in ValueTypes /\ t.snd \in ValueTypes
  /\ \A t \in Types : IsList(t) => /\ t = ListOf(t.of) /\ t.of \in Types
                                   /\ t \in ValueTypes <=> t.of \in ValueTypes
<1>1. \A s, t : Pair(s, t).fst = s /\ Pair(s, t).snd = t /\ IsTuple(Pair(s, t))
  BY DEF Pair, IsTuple
<1>2. ASSUME NEW t \in Types, IsTuple(t)
      PROVE  t = Pair(t.fst, t.snd) /\ t.fst \in Types /\ t.snd \in Types
  BY <1>2, TypesAssumption DEF IsTuple
<1>3. ASSUME NEW t \in Types, IsTuple(t)
      PROVE  t \in ValueTypes <=> t.fst \in ValueTypes /\ t.snd \in ValueTypes
  <2>1. t \in ValueTypes <=> {t.fst, t.snd} \subseteq ValueTypes
    BY <1>3, TypesAssumption
  <2> QED BY <2>1
<1>4. ASSUME NEW t \in Types, IsList(t)
      PROVE  t = ListOf(t.of) /\ t.of \in Types /\ (t \in ValueTypes <=> t.of \in ValueTypes)
  BY <1>4, TypesAssumption DEF IsList
<1> QED BY <1>1, <1>2, <1>3, <1>4

\* The operands of a node that has them have values.
LEMMA ValuedOperands ==
  ASSUME NEW e, Valued(e), e.k \notin {"if", "switch", "case", "default", "while", "block", "discard"}
  PROVE  \A i \in DOMAIN e.a : TypeOf(e.a[i]) \in ValueTypes
BY DEF Valued, HasValues

LEMMA ValuedConditions ==
  ASSUME NEW e, Valued(e), e.k # "case"
  PROVE  \A i \in DOMAIN e.cs : TypeOf(e.cs[i]) \in ValueTypes
BY DEF Valued, HasValues

\* A node over one accepted part: its annotated parts, and the part's type.
LEMMA OneAnnotated ==
  ASSUME NEW T, NEW e \in NodesOver(T), NEW f, NEW r, NEW g, g = Annotated(e, <<f>>, r)
  PROVE  g.k = e.k /\ g.op = e.op /\ g.n = e.n /\ g.ty = e.ty /\ g.r = r /\ g.a[1] = f /\ DOMAIN g.a = {1} /\ g.a = <<f>>
<1>1. g.k = e.k /\ g.op = e.op /\ g.n = e.n /\ g.ty = e.ty /\ g.r = r /\ g.a = <<f>>
  BY WithIs DEF Annotated
<1> QED BY <1>1

LEMMA TwoAnnotated ==
  ASSUME NEW T, NEW e \in NodesOver(T), NEW f, NEW h, NEW r, NEW g, g = Annotated(e, <<f, h>>, r)
  PROVE  g.k = e.k /\ g.op = e.op /\ g.n = e.n /\ g.ty = e.ty /\ g.r = r /\ g.a[1] = f /\ g.a[2] = h /\ DOMAIN g.a = {1, 2}
<1>1. g.k = e.k /\ g.op = e.op /\ g.n = e.n /\ g.ty = e.ty /\ g.r = r /\ g.a = <<f, h>>
  BY WithIs DEF Annotated
<1> QED BY <1>1

LEMMA ManyAnnotated ==
  ASSUME NEW T, NEW e \in NodesOver(T), NEW rs, DOMAIN rs = DOMAIN e.a, NEW r, NEW g, g = Annotated(e, Trees(rs), r)
  PROVE  /\ g.k = e.k /\ g.op = e.op /\ g.n = e.n /\ g.ty = e.ty /\ g.r = r
         /\ DOMAIN g.a = DOMAIN e.a /\ \A i \in DOMAIN e.a : g.a[i] = rs[i].e
<1>1. g.k = e.k /\ g.op = e.op /\ g.n = e.n /\ g.ty = e.ty /\ g.r = r /\ g.a = Trees(rs)
  BY WithIs DEF Annotated
<1> QED BY <1>1 DEF Trees

\* The type of the part under a node that uses its value.
LEMMA OneValued ==
  ASSUME NEW T, NEW e \in NodesOver(T), NEW p, NEW r, Valued(Annotated(e, <<p.e>>, r)), TypeOf(p.e) = p.t,
         e.k \notin {"if", "switch", "case", "default", "while", "block", "discard"}
  PROVE  p.t \in ValueTypes
<1> DEFINE g == Annotated(e, <<p.e>>, r)
<1>1. g.k = e.k /\ g.a[1] = p.e /\ DOMAIN g.a = {1}
  BY OneAnnotated
<1> HIDE DEF g
<1>2. \A i \in DOMAIN g.a : TypeOf(g.a[i]) \in ValueTypes
  BY <1>1, ValuedOperands DEF g
<1> QED BY <1>1, <1>2

LEMMA TwoValued ==
  ASSUME NEW T, NEW e \in NodesOver(T), NEW p, NEW q, NEW r, Valued(Annotated(e, <<p.e, q.e>>, r)),
         TypeOf(p.e) = p.t, TypeOf(q.e) = q.t, e.k \in {"binary", "tuple"}
  PROVE  p.t \in ValueTypes /\ q.t \in ValueTypes
<1> DEFINE g == Annotated(e, <<p.e, q.e>>, r)
<1>1. g.k = e.k /\ g.a[1] = p.e /\ g.a[2] = q.e /\ DOMAIN g.a = {1, 2}
  BY TwoAnnotated
<1> HIDE DEF g
<1>2. \A i \in DOMAIN g.a : TypeOf(g.a[i]) \in ValueTypes
  BY <1>1, ValuedOperands DEF g
<1> QED BY <1>1, <1>2

LEMMA ManyValued ==
  ASSUME NEW T, NEW e \in NodesOver(T), NEW rs, DOMAIN rs = DOMAIN e.a, NEW r,
         Valued(Annotated(e, Trees(rs), r)), e.k \in {"list", "call", "struct", "variant"},
         \A i \in DOMAIN e.a : TypeOf(rs[i].e) = rs[i].t
  PROVE  \A i \in DOMAIN e.a : rs[i].t \in ValueTypes
<1> DEFINE g == Annotated(e, Trees(rs), r)
<1>1. g.k = e.k /\ DOMAIN g.a = DOMAIN e.a /\ \A i \in DOMAIN e.a : g.a[i] = rs[i].e
  BY ManyAnnotated
<1> HIDE DEF g
<1>2. \A i \in DOMAIN g.a : TypeOf(g.a[i]) \in ValueTypes
  BY <1>1, ValuedOperands DEF g
<1> QED BY <1>1, <1>2

\* A context for a part of a node that was accepted, and the part.
LEMMA GoodBody ==
  ASSUME NEW T, NEW sub, NEW nodes, GoodAt(T, sub, nodes), NEW d \in T, Apt(d),
         NEW y \in Good \cup {Untyped}, NEW c \in Contexts, NEW p, p = sub[d][y][c], p.ok, AllValued(nodes[p.e])
  PROVE  p.t \in Good
BY DEF GoodAt

LEMMA GoodBodies ==
  ASSUME NEW T, NEW sub, NEW nodes, GoodAt(T, sub, nodes), NEW ds \in Seq(T),
         \A i \in DOMAIN ds : Apt(ds[i]),
         NEW y \in Good \cup {Untyped}, NEW c \in Contexts, NEW bs, NEW t, BodiesFine(T, sub, ds, y, c, bs, t),
         \A i \in DOMAIN ds : AllValued(nodes[bs[i].e])
  PROVE  t \in Good
<1>1. PICK k \in DOMAIN ds : bs[k].t = t /\ Body(T, sub, ds[k], y, c, bs[k])
  BY DEF BodiesFine
<1>2. ds[k] \in T /\ Apt(ds[k]) /\ AllValued(nodes[bs[k].e])
  BY <1>1
<1>3. bs[k] = sub[ds[k]][y][c] /\ bs[k].ok
  BY <1>1 DEF Body
<1> QED BY <1>1, <1>2, <1>3, GoodBody

LEMMA LeafGood ==
  ASSUME NEW T, NEW sub, RegularAt(T, sub), NEW e \in NodesOver(T), NEW x \in Expected, NEW c \in Contexts,
         e.k \in {"int", "var", "bound", "unary", "binary", "call", "struct", "variant", "let", "assign", "discard",
                  "while", "return", "break", "continue"}, Resolve(sub, e, x, c).ok
  PROVE  Resolve(sub, e, x, c).t \in Good
<1> DEFINE r == Resolve(sub, e, x, c)
<1> SUFFICES r.t \in Good
  OBVIOUS
<1>1. CASE e.k \in {"int", "var", "bound"}
  <2>1. r.t \in ValueTypes
    <3>1. CASE e.k = "int"
      BY <3>1, IntTaken
    <3>2. CASE e.k = "var"
      BY <3>2, VarTaken
    <3>3. CASE e.k = "bound"
      BY <3>3, BoundTaken
    <3> QED BY <1>1, <3>1, <3>2, <3>3
  <2> QED BY <2>1 DEF Good
<1>2. CASE e.k = "unary"
  <2>1. e.op \in {"!", "-"}
    BY <1>2, NodeIs DEF Shaped
  <2>2. CASE e.op = "!"
    <3> DEFINE p == Check(sub, e.a[1], Bool, c)
    <3>1. Fine(T, sub, e.a[1], Bool, c, p) /\ r.t = Bool
      BY <1>2, <2>2, NotTaken
    <3> QED BY <3>1, GoodTypes
  <2>3. CASE e.op = "-" /\ IsLit(e.a[1])
    BY <1>2, <2>3, MinusLiteralTaken, GoodTypes
  <2>4. CASE e.op = "-" /\ ~IsLit(e.a[1])
    <3> DEFINE p == Check(sub, e.a[1], x, c)
    <3>1. Fine(T, sub, e.a[1], x, c, p) /\ IsInt(p.t) /\ r.t = p.t
      BY <1>2, <2>4, MinusTaken
    <3> HIDE DEF p, r
    <3>2. IsInt(r.t) /\ r.t \in Types
      BY <3>1 DEF Fine
    <3> QED BY <3>2, IntTypes, BasicTypes, GoodTypes
  <2> QED BY <2>1, <2>2, <2>3, <2>4
<1>3. CASE e.k = "binary"
  <2>1. e.op \in {"&&", "<<", "+", "=="}
    BY <1>3, NodeIs DEF Shaped
  <2>2. CASE e.op = "&&"
    <3> DEFINE p == Check(sub, e.a[1], Bool, c)
    <3>1. Fine(T, sub, e.a[1], Bool, c, p) /\ r.t = Bool
      BY <1>3, <2>2, LogicalTaken
    <3> QED BY <3>1, GoodTypes
  <2>3. CASE e.op = "=="
    BY <1>3, <2>3, EqualityTaken, GoodTypes
  <2>4. CASE e.op = "<<"
    <3> DEFINE p == Check(sub, e.a[1], x, c)
    <3>1. Fine(T, sub, e.a[1], x, c, p) /\ IsInt(p.t) /\ r.t = p.t
      BY <1>3, <2>4, ShiftTaken
    <3> HIDE DEF p, r
    <3>2. IsInt(r.t) /\ r.t \in Types
      BY <3>1 DEF Fine
    <3> QED BY <3>2, IntTypes, BasicTypes, GoodTypes
  <2>5. CASE e.op = "+"
    <3> DEFINE p == Operands(sub, e, x, c)[1]
               q == Operands(sub, e, x, c)[2]
    <3>1. OperandsFine(T, sub, e, x, c, p, q) /\ IsInt(p.t) /\ r.t = p.t
      BY <1>3, <2>5, SumTaken
    <3> HIDE DEF p, q, r
    <3>2. IsInt(r.t) /\ r.t \in Types
      BY <3>1 DEF OperandsFine, Fine
    <3> QED BY <3>2, IntTypes, BasicTypes, GoodTypes
  <2> QED BY <2>1, <2>2, <2>3, <2>4, <2>5
<1>4. CASE e.k = "call"
  <2>1. r.t \in ValueTypes \cup {Unit}
    <3> DEFINE us == Signature[e.op].params
               rs == [i \in DOMAIN e.a |-> Check(sub, e.a[i], us[i], c)]
               ys == [i \in DOMAIN e.a |-> IF us[i] = AnyT THEN Untyped ELSE us[i]]
    <3>1. PartsFine(T, sub, e.a, ys, c, rs) /\ r.t \in ValueTypes \cup {Unit}
      BY <1>4, CallTaken
    <3> QED BY <3>1
  <2> QED BY <2>1 DEF Good
<1>5. CASE e.k \in {"struct", "variant"}
  BY <1>5, FieldsTaken DEF Good
<1>6. CASE e.k \in {"let", "assign", "discard", "while"}
  <2>1. r.t = Unit
    <3>1. CASE e.k = "let"
      BY <3>1, LetTaken
    <3>2. CASE e.k = "assign"
      BY <3>2, AssignTaken
    <3>3. CASE e.k = "discard"
      BY <3>3, DiscardTaken
    <3>4. CASE e.k = "while"
      <4> DEFINE p == Check(sub, e.cs[1], Bool, c)
                 l == [c EXCEPT !.loop = @ + 1]
                 b == sub[e.a[1]][Unit][l]
      <4>1. Body(T, sub, e.a[1], Unit, l, b) /\ r.t = Unit /\ r.e = With(e, e.ty, <<p.e>>, <<b.e>>, Unit)
        BY <3>4, WhileTaken
      <4> QED BY <4>1
    <3> QED BY <1>6, <3>1, <3>2, <3>3, <3>4
  <2> QED BY <2>1, GoodTypes
<1>7. CASE e.k \in {"return", "break", "continue"}
  <2>1. r.t = Never
    <3>1. CASE e.k = "return" /\ e.a # << >>
      BY <3>1, ReturnTaken
    <3>2. CASE e.k = "return" /\ e.a = << >>
      BY <3>2, EmptyReturnTaken, BadIsBad
    <3>3. CASE e.k \in {"break", "continue"}
      BY <3>3, JumpTaken, BadIsBad
    <3> QED BY <1>7, <3>1, <3>2, <3>3
  <2> QED BY <2>1, GoodTypes
<1> QED BY <1>1, <1>2, <1>3, <1>4, <1>5, <1>6, <1>7

LEMMA UsedGood ==
  ASSUME NEW T, NEW sub, RegularAt(T, sub), NEW e \in NodesOver(T), NEW x \in Good \cup {Untyped}, NEW c \in Contexts,
         e.k \in {"named", "field", "try", "tuple", "list"}, Resolve(sub, e, x, c).ok,
         Valued(Resolve(sub, e, x, c).e)
  PROVE  Resolve(sub, e, x, c).t \in Good
<1> DEFINE r == Resolve(sub, e, x, c)
           f == e.a[1]
<1> SUFFICES r.t \in Good
  OBVIOUS
<1>0. x \in Expected
  BY GoodTypes
<1>1. CASE e.k = "named"
  <2> DEFINE p == Check(sub, f, x, c)
  <2>1. Fine(T, sub, f, x, c, p) /\ r.t = p.t /\ r.e = Annotated(e, <<p.e>>, p.t)
    BY <1>0, <1>1, NamedTaken
  <2> HIDE DEF r, f, p
  <2>2. p.t \in ValueTypes
    BY <1>1, <2>1, OneValued DEF Fine, r
  <2> QED BY <2>1, <2>2, GoodTypes
<1>2. CASE e.k = "field"
  <2> DEFINE p == Check(sub, f, Untyped, c)
  <2>1. /\ Fine(T, sub, f, Untyped, c, p) /\ r.e = Annotated(e, <<p.e>>, r.t)
        /\ e.op \in NamesOf(Readable(p.t)) /\ r.t = TypeIn(Readable(p.t), e.op)
    BY <1>0, <1>2, FieldTaken
  <2> HIDE DEF r, f, p
  <2>2. p.t \in ValueTypes
    BY <1>2, <2>1, OneValued DEF Fine, r
  <2> QED BY <2>1, <2>2, ReadableTyped, GoodTypes
<1>3. CASE e.k = "try"
  <2> DEFINE p == Check(sub, f, Untyped, c)
  <2>1. /\ Fine(T, sub, f, Untyped, c, p) /\ r.e = Annotated(e, <<p.e>>, r.t)
        /\ p.t = ErrorT \/ IsFallible(p.t)
        /\ r.t = IF p.t = ErrorT THEN Unit ELSE p.t.fst
    BY <1>0, <1>3, TryTaken
  <2> HIDE DEF r, f, p
  <2>2. p.t \in ValueTypes /\ p.t \in Types
    BY <1>3, <2>1, OneValued DEF Fine, r
  <2>3. IsFallible(p.t) => p.t.fst \in ValueTypes
    BY <2>2, PairTypes DEF IsFallible
  <2> QED BY <2>1, <2>3, GoodTypes
<1>4. CASE e.k = "tuple"
  <2> DEFINE p == Check(sub, e.a[1], Untyped, c)
             q == Check(sub, e.a[2], Untyped, c)
  <2>1. /\ Fine(T, sub, e.a[1], Untyped, c, p) /\ Fine(T, sub, e.a[2], Untyped, c, q)
        /\ r.t = Pair(p.t, q.t) /\ r.t \in Types /\ r.e = Annotated(e, <<p.e, q.e>>, r.t)
    BY <1>0, <1>4, TupleTaken
  <2> HIDE DEF r, f, p, q
  <2>2. p.t \in ValueTypes /\ q.t \in ValueTypes
    <3>1. Valued(Annotated(e, <<p.e, q.e>>, r.t)) /\ TypeOf(p.e) = p.t /\ TypeOf(q.e) = q.t
      BY <2>1 DEF Fine, r
    <3> QED BY <1>4, <3>1, TwoValued
  <2>3. r.t \in ValueTypes
    BY <2>1, <2>2, PairTypes
  <2> QED BY <2>3, GoodTypes
<1>5. CASE e.k = "list"
  <2>1. PICK rs : /\ IsList(r.t) /\ r.t \in Types /\ ElementsFine(T, sub, e, c, r.t.of, rs)
                  /\ r.e = Annotated(e, Trees(rs), r.t)
                  /\ r.t = x \/ \E i \in DOMAIN e.a : rs[i].t = r.t.of
    BY <1>0, <1>5, ListTaken
  <2> HIDE DEF r, f
  <2>2. \A i \in DOMAIN e.a : rs[i].t \in ValueTypes
    BY <1>5, <2>1, ManyValued DEF ElementsFine, Fine, r
  <2>3. r.t.of \in ValueTypes => r.t \in ValueTypes
    BY <2>1, PairTypes
  <2>4. r.t # Untyped
    BY <2>1, BasicTypes
  <2> QED BY <2>1, <2>2, <2>3, <2>4, GoodTypes
<1> QED BY <1>1, <1>2, <1>3, <1>4, <1>5

LEMMA BodiedGood ==
  ASSUME NEW T, NEW sub, RegularAt(T, sub), NEW nodes, GoodAt(T, sub, nodes),
         NEW e \in NodesOver(T), Apt(e), NEW x \in Good \cup {Untyped}, NEW c \in Contexts,
         e.k \in {"if", "switch", "case", "default", "block"}, Resolve(sub, e, x, c).ok,
         \A i \in DOMAIN Resolve(sub, e, x, c).e.a : AllValued(nodes[Resolve(sub, e, x, c).e.a[i]])
  PROVE  Resolve(sub, e, x, c).t \in Good
<1> DEFINE r == Resolve(sub, e, x, c)
<1> SUFFICES r.t \in Good
  OBVIOUS
<1>0. x \in Expected /\ Unit \in Good
  BY GoodTypes
<1>1. CASE e.k = "if"
  <2> DEFINE y  == BranchContext(e, x)
             ps == [i \in DOMAIN e.cs |-> Check(sub, e.cs[i], Bool, c)]
             bs == Branches(sub, e.a, e.a, y, c)
  <2>1. /\ BodiesFine(T, sub, e.a, y, c, bs, r.t) /\ r.e = With(e, e.ty, Trees(ps), Trees(bs), r.t)
        /\ y \in {x, Unit}
    BY <1>0, <1>1, IfTaken
  <2> HIDE DEF y, ps, bs
  <2>2. r.e.a = Trees(bs)
    BY <2>1, WithIs
  <2> HIDE DEF r
  <2>3. e.a \in Seq(T) /\ \A i \in DOMAIN e.a : Apt(e.a[i])
    BY <1>1, PartsOf DEF Apt
  <2>4. DOMAIN bs = DOMAIN e.a
    BY <2>1 DEF BodiesFine
  <2>5. \A i \in DOMAIN e.a : AllValued(nodes[bs[i].e])
    BY <2>2, <2>4 DEF Trees, r
  <2> QED BY <1>0, <2>1, <2>3, <2>5, GoodBodies
<1>2. CASE e.k = "switch"
  <2> DEFINE p  == Check(sub, e.cs[1], Untyped, c)
             bs == Branches(sub, e.a, Bodies(e), x, c)
  <2>1. BodiesFine(T, sub, e.a, x, c, bs, r.t) /\ r.e = With(e, p.t, <<p.e>>, Trees(bs), r.t) /\ LegalSwitch(e, p.t)
    BY <1>0, <1>2, SwitchTaken
  <2> HIDE DEF p, bs
  <2>2. r.e.a = Trees(bs)
    BY <2>1, WithIs
  <2> HIDE DEF r
  <2>3. e.a \in Seq(T) /\ \A i \in DOMAIN e.a : Apt(e.a[i])
    BY <1>2, <2>1, PartsOf DEF Apt, LegalSwitch, Patterns, Fitting
  <2>4. DOMAIN bs = DOMAIN e.a
    BY <2>1 DEF BodiesFine
  <2>5. \A i \in DOMAIN e.a : AllValued(nodes[bs[i].e])
    BY <2>2, <2>4 DEF Trees, r
  <2> QED BY <2>1, <2>3, <2>5, GoodBodies
<1>3. CASE e.k \in {"case", "default"}
  <2> DEFINE w == Within(e, c)
             b == sub[e.a[1]][x][w]
             named == [i \in DOMAIN e.cs |-> Annotated(e.cs[i], e.cs[i].a, FieldsOf(e.ty, e.op)[i].type)]
  <2>1. w \in Contexts /\ Body(T, sub, e.a[1], x, w, b) /\ r.t = b.t /\ r.e = With(e, e.ty, named, <<b.e>>, b.t)
    BY <1>0, <1>3, CaseTaken
  <2>2. e.a[1] \in T /\ Apt(e.a[1])
    BY <1>3, PartsOf DEF Apt
  <2>3. b = sub[e.a[1]][x][w]
    OBVIOUS
  <2> HIDE DEF w, b, named
  <2>4. r.e.a = <<b.e>>
    BY <2>1, WithIs
  <2> HIDE DEF r
  <2>5. AllValued(nodes[b.e])
    <3>1. 1 \in DOMAIN <<b.e>> /\ <<b.e>>[1] = b.e
      OBVIOUS
    <3> QED BY <2>4, <3>1 DEF r
  <2>6. b.ok
    BY <2>1 DEF Body
  <2>7. b.t \in Good
    BY <2>1, <2>2, <2>3, <2>5, <2>6, GoodBody
  <2> QED BY <2>1, <2>7
<1>4. CASE e.k = "block" /\ e.a = << >>
  BY <1>4, EmptyBlockTaken, BadIsBad, GoodTypes
<1>5. CASE e.k = "block" /\ e.a # << >>
  <2> DEFINE ys == [i \in DOMAIN e.a |-> IF i = Len(e.a) THEN x ELSE Untyped]
             rs == [i \in DOMAIN e.a |-> Check(sub, e.a[i], IF i = Len(e.a) THEN x ELSE Untyped, c)]
             k  == Len(e.a)
  <2>1. PartsFine(T, sub, e.a, ys, c, rs) /\ r.t = rs[k].t /\ r.e = Annotated(e, Trees(rs), e.r)
    BY <1>0, <1>5, BlockTaken
  <2>2. k \in DOMAIN e.a
    <3>1. e.a \in Seq(T)
      BY NodeIs
    <3> QED BY <1>5, <3>1
  <2>3. ys[k] = x /\ DOMAIN rs = DOMAIN e.a
    BY <2>2
  <2>4. \A i \in DOMAIN e.a : e.a[i] \in T /\ Apt(e.a[i])
    BY <1>5, PartsOf DEF Apt, Expression
  <2> HIDE DEF ys, rs, k
  <2>5. DOMAIN r.e.a = DOMAIN e.a /\ r.e.a[k] = rs[k].e
    BY <2>1, <2>2, <2>3, ManyAnnotated
  <2> HIDE DEF r
  <2>6. AllValued(nodes[rs[k].e])
    BY <2>2, <2>5 DEF r
  <2>7. rs[k] = sub[e.a[k]][x][c] /\ rs[k].ok
    BY <2>1, <2>2, <2>3 DEF PartsFine, Fine
  <2> QED BY <2>1, <2>2, <2>4, <2>6, <2>7, GoodBody
<1> QED BY <1>1, <1>2, <1>3, <1>4, <1>5

LEMMA CheckerGood ==
  \A n \in Levels : GoodAt(TreesAt[n], Checker[n], Nodes[n])
<1> DEFINE K == {n \in Levels : GoodAt(TreesAt[n], Checker[n], Nodes[n])}
<1>1. 0 \in K
  BY TreesAre, DepthIsNat DEF GoodAt, Levels
<1>2. ASSUME NEW n \in Levels \ {0}, n - 1 \in K PROVE n \in K
  <2> DEFINE T == TreesAt[n - 1]
             sub == Checker[n - 1]
             nodes == Nodes[n - 1]
  <2>1. /\ TreesAt[n] = NodesOver(T) /\ Checker[n] = CheckerStep(sub, NodesOver(T))
        /\ Nodes[n] = NodesStep(nodes, NodesOver(T))
    BY TreesAre, CheckerIs, NodesIs
  <2>2. RegularAt(T, sub) /\ Renotable(T) /\ GoodAt(T, sub, nodes)
    <3>1. n - 1 \in Levels
      BY DepthIsNat DEF Levels
    <3> QED BY <1>2, <3>1, TreesRenotable, CheckerRegular
  <2> HIDE DEF T, sub, nodes
  <2>3. ASSUME NEW d \in NodesOver(T), NEW x \in Good \cup {Untyped}, NEW c \in Contexts, Apt(d),
               Resolve(sub, d, x, c).ok, AllValued(NodesStep(nodes, NodesOver(T))[Resolve(sub, d, x, c).e])
        PROVE  Resolve(sub, d, x, c).t \in Good
    <3> DEFINE r == Resolve(sub, d, x, c)
    <3>1. x \in Expected
      BY GoodTypes
    <3>2. r.e \in NodesOver(T)
      BY <2>2, <2>3, <3>1, ResolveRegular DEF Regular
    <3>3. Valued(r.e) /\ \A i \in DOMAIN r.e.a : AllValued(nodes[r.e.a[i]])
      BY <2>3, <3>2, ValuedParts
    <3>4. d.k \in {"int", "var", "bound", "unary", "binary", "call", "struct", "variant", "let", "assign", "discard",
                   "while", "return", "break", "continue"}
          \/ d.k \in {"named", "field", "try", "tuple", "list"} \/ d.k \in {"if", "switch", "case", "default", "block"}
      BY NodeIs DEF Shaped, Expression
    <3> QED BY <2>2, <2>3, <3>1, <3>3, <3>4, LeafGood, UsedGood, BodiedGood
  <2>4. \A d \in NodesOver(T) : \A x \in Expected, c \in Contexts :
          CheckerStep(sub, NodesOver(T))[d][x][c] = Resolve(sub, d, x, c)
    BY DEF CheckerStep
  <2>5. GoodAt(NodesOver(T), CheckerStep(sub, NodesOver(T)), NodesStep(nodes, NodesOver(T)))
    BY <2>3, <2>4, GoodTypes DEF GoodAt
  <2> QED BY <2>1, <2>5
<1> HIDE DEF K
<1>3. \A n \in Levels : n \in K
  BY <1>1, <1>2, LevelInduct
<1> QED BY <1>3 DEF K

-----------------------------------------------------------------------------
(***************************************************************************)
(* What the checker accepts has a type by the rules of the language.  A     *)
(* node of type Never has no value: it stands where Unit may, and an        *)
(* expression that leaves the block stands anywhere.                        *)
(***************************************************************************)
Leaves(d) ==
  \/ Diverging(d)
  \/ d.k = "block" /\ EndsInNever(d)
  \/ d.k \in {"case", "default"} /\ EndsInNever(d.a[1])

Meant(has, d, c, t) ==
  /\ t \in ValueTypes => has[d][t][c]
  /\ t \in {Unit, Never} => has[d][Unit][c]
  /\ Leaves(d) => \A u \in Types : has[d][u][c]

MeantBy(has, e, c, t) ==
  /\ t \in ValueTypes => Means(has, e, t, c)
  /\ t \in {Unit, Never} => Means(has, e, Unit, c)
  /\ Leaves(e) => \A u \in Types : Means(has, e, u, c)

Clean(S) == \A f \in S : Valued(f) /\ Simple(f)
CleanParts(nodes, f) ==
  /\ \A i \in DOMAIN f.a : Clean(nodes[f.a[i]])
  /\ \A i \in DOMAIN f.cs : Clean(nodes[f.cs[i]])

SoundAt(T, sub, has, nodes) ==
  \A d \in T : \A x \in Expected, c \in Contexts :
    Apt(d) /\ sub[d][x][c].ok /\ Clean(nodes[sub[d][x][c].e]) => Meant(has, d, c, sub[d][x][c].t)

LEMMA CleanOf ==
  ASSUME NEW T, NEW e \in NodesOver(T), NEW nodes, Clean(NodesStep(nodes, NodesOver(T))[e])
  PROVE  Valued(e) /\ Simple(e) /\ CleanParts(nodes, e)
<1>1. Valued(e) /\ Simple(e)
  BY NodesOfParts DEF Clean
<1>2. ASSUME NEW i \in DOMAIN e.a PROVE Clean(nodes[e.a[i]])
  BY NodesOfParts DEF Clean
<1>3. ASSUME NEW i \in DOMAIN e.cs PROVE Clean(nodes[e.cs[i]])
  BY NodesOfParts DEF Clean
<1> QED BY <1>1, <1>2, <1>3 DEF CleanParts

LEMMA CleanIsValued ==
  ASSUME NEW S, Clean(S)
  PROVE  AllValued(S)
BY DEF Clean, AllValued

LEMMA PartMeant ==
  ASSUME NEW T, NEW sub, NEW has, NEW nodes, SoundAt(T, sub, has, nodes), NEW d \in T, Apt(d),
         NEW y, NEW c \in Contexts, NEW p, Fine(T, sub, d, y, c, p), Clean(nodes[p.e])
  PROVE  Meant(has, d, c, p.t)
<1>1. y \in Expected /\ p = sub[d][y][c] /\ p.ok
  BY DEF Fine
<1> QED BY <1>1 DEF SoundAt

LEMMA BodyMeant ==
  ASSUME NEW T, NEW sub, NEW has, NEW nodes, SoundAt(T, sub, has, nodes), NEW d \in T, Apt(d),
         NEW y, NEW c \in Contexts, NEW p, Body(T, sub, d, y, c, p), Clean(nodes[p.e])
  PROVE  Meant(has, d, c, p.t)
<1>1. y \in Expected /\ p = sub[d][y][c] /\ p.ok
  BY DEF Body
<1> QED BY <1>1 DEF SoundAt

\* An expression, or a named field, is no case.
LEMMA ExpressionsApt ==
  \A d : d.k \in Expression \cup {"named", "block", "default"} => Apt(d)
BY DEF Apt, Expression

LEMMA OneUsed ==
  ASSUME NEW T, NEW sub, NEW has, NEW nodes, SoundAt(T, sub, has, nodes), NEW e \in NodesOver(T),
         e.k \in OverOne \cup {"return"}, e.k # "discard", e.a[1] \in T, e.a[1].k \in Expression,
         NEW y, NEW c \in Contexts, NEW p, Fine(T, sub, e.a[1], y, c, p),
         NEW r, NEW f, f = Annotated(e, <<p.e>>, r), Valued(f), CleanParts(nodes, f)
  PROVE  p.t \in ValueTypes /\ has[e.a[1]][p.t][c]
<1>1. f.a[1] = p.e /\ DOMAIN f.a = {1}
  BY OneAnnotated
<1>2. p.t \in ValueTypes
  <2>1. e.k \notin {"if", "switch", "case", "default", "while", "block", "discard"}
    BY DEF OverOne
  <2>2. TypeOf(p.e) = p.t
    BY DEF Fine
  <2> QED BY <2>1, <2>2, OneValued
<1>3. Clean(nodes[p.e])
  BY <1>1 DEF CleanParts
<1>4. Meant(has, e.a[1], c, p.t)
  BY <1>3, PartMeant, ExpressionsApt
<1> QED BY <1>2, <1>4 DEF Meant

LEMMA TwoUsed ==
  ASSUME NEW T, NEW sub, NEW has, NEW nodes, SoundAt(T, sub, has, nodes), NEW e \in NodesOver(T),
         e.k \in {"binary", "tuple"}, NEW y, NEW z, NEW c \in Contexts, NEW p, NEW q,
         Fine(T, sub, e.a[1], y, c, p), Fine(T, sub, e.a[2], z, c, q),
         NEW r, NEW f, f = Annotated(e, <<p.e, q.e>>, r), Valued(f), CleanParts(nodes, f)
  PROVE  p.t \in ValueTypes /\ has[e.a[1]][p.t][c] /\ q.t \in ValueTypes /\ has[e.a[2]][q.t][c]
<1>0. {e.a[1], e.a[2]} \subseteq T /\ Apt(e.a[1]) /\ Apt(e.a[2])
  BY PartsOf, ExpressionsApt
<1>1. f.a[1] = p.e /\ f.a[2] = q.e /\ DOMAIN f.a = {1, 2}
  BY TwoAnnotated
<1>2. TypeOf(p.e) = p.t /\ TypeOf(q.e) = q.t
  BY DEF Fine
<1>3. p.t \in ValueTypes /\ q.t \in ValueTypes
  BY <1>2, TwoValued
<1>4. Clean(nodes[p.e]) /\ Clean(nodes[q.e])
  BY <1>1 DEF CleanParts
<1>5. Meant(has, e.a[1], c, p.t)
  BY <1>0, <1>4, PartMeant
<1>6. Meant(has, e.a[2], c, q.t)
  BY <1>0, <1>4, PartMeant
<1> QED BY <1>3, <1>5, <1>6 DEF Meant

LEMMA ManyUsed ==
  ASSUME NEW T, NEW sub, NEW has, NEW nodes, SoundAt(T, sub, has, nodes), NEW e \in NodesOver(T),
         e.k \in {"list", "call", "struct", "variant"}, NEW c \in Contexts,
         NEW rs, DOMAIN rs = DOMAIN e.a, \A i \in DOMAIN e.a : \E y : Fine(T, sub, e.a[i], y, c, rs[i]),
         NEW r, NEW f, f = Annotated(e, Trees(rs), r), Valued(f), CleanParts(nodes, f)
  PROVE  \A i \in DOMAIN e.a : rs[i].t \in ValueTypes /\ has[e.a[i]][rs[i].t][c]
<1>1. DOMAIN f.a = DOMAIN e.a /\ \A i \in DOMAIN e.a : f.a[i] = rs[i].e
  BY ManyAnnotated
<1>2. \A i \in DOMAIN e.a : TypeOf(rs[i].e) = rs[i].t
  BY DEF Fine
<1>3. \A i \in DOMAIN e.a : rs[i].t \in ValueTypes
  BY <1>2, ManyValued
<1>4. ASSUME NEW i \in DOMAIN e.a PROVE has[e.a[i]][rs[i].t][c]
  <2>1. e.a[i] \in T /\ Apt(e.a[i])
    BY PartsOf, ExpressionsApt
  <2>2. Clean(nodes[rs[i].e])
    BY <1>1 DEF CleanParts
  <2>3. PICK y : Fine(T, sub, e.a[i], y, c, rs[i])
    OBVIOUS
  <2>4. Meant(has, e.a[i], c, rs[i].t)
    BY <2>1, <2>2, <2>3, PartMeant
  <2> QED BY <1>3, <2>4 DEF Meant
<1> QED BY <1>3, <1>4

\* A node without value that leaves nothing behind.
LEMMA MeantOnce ==
  ASSUME NEW has, NEW e, NEW c, NEW t, ~Leaves(e),
         t \in ValueTypes \cup {Unit} /\ Means(has, e, t, c)
  PROVE  MeantBy(has, e, c, t)
BY BasicTypes DEF MeantBy

LEMMA NotLeaving ==
  \A e : e.k \notin {"return", "break", "continue", "block", "case", "default"} => ~Leaves(e)
BY DEF Leaves, Diverging

LEMMA NegatedInRange ==
  ASSUME NEW t, IsInt(t), ~IsUInt(t), NEW n \in Nat, n <= NegatedLimit(t)
  PROVE  -n >= MinOf(t)
<1> DEFINE m == 2 ^ (Bits[t.con] - 1)
<1>1. m \in Int
  <2>1. t.con \in Signed \cup Unsigned
    BY DEF IsInt
  <2>2. Bits[t.con] \in Nat \ {0}
    BY <2>1, TypingAssumption
  <2> QED BY <2>2
<1>2. NegatedLimit(t) = (m - 1) + 1 /\ MinOf(t) = -m
  BY DEF NegatedLimit, MaxOf, MinOf
<1> HIDE DEF m
<1> QED BY <1>1, <1>2

\* What an accepted node and its parts are known to be.
Listed(s) == Len(s) \in Nat /\ s = [i \in 1 .. Len(s) |-> s[i]]
Proper(T) ==
  \A d \in T : /\ d.n \in Nat /\ Listed(d.a)
               /\ d.k \in {"case", "default"} => Listed(d.a[1].a)
Known(T, sub, has, nodes) ==
  /\ Proper(T)
  /\ RegularAt(T, sub) /\ GoodAt(T, sub, nodes) /\ SoundAt(T, sub, has, nodes)
Accepted(nodes, r) == r.ok /\ Valued(r.e) /\ Simple(r.e) /\ CleanParts(nodes, r.e)

LEMMA LeafMeant ==
  ASSUME NEW T, NEW sub, NEW has, NEW nodes, Known(T, sub, has, nodes), NEW e \in NodesOver(T),
         e.k \in {"int", "var", "bound"}, NEW x \in Expected, NEW c \in Contexts,
         Accepted(nodes, Resolve(sub, e, x, c))
  PROVE  MeantBy(has, e, c, Resolve(sub, e, x, c).t)
<1> DEFINE r == Resolve(sub, e, x, c)
<1>1. r.ok
  BY DEF Accepted
<1>2. CASE e.k = "int"
  <2>1. IsInt(r.t) /\ r.t \in ValueTypes /\ e.n <= MaxOf(r.t)
    BY <1>1, <1>2, IntTaken
  <2> HIDE DEF r
  <2>2. Means(has, e, r.t, c)
    BY <1>2, <2>1 DEF Means
  <2> QED BY <1>2, <2>1, <2>2, MeantOnce, NotLeaving DEF r
<1>3. CASE e.k = "var"
  <2>1. r.t \in ValueTypes /\ r.t = e.ty
    BY <1>1, <1>3, VarTaken
  <2> HIDE DEF r
  <2>2. Means(has, e, r.t, c)
    BY <1>3, <2>1 DEF Means
  <2> QED BY <1>3, <2>1, <2>2, MeantOnce, NotLeaving DEF r
<1>4. CASE e.k = "bound"
  <2>1. r.t \in ValueTypes /\ e.op \in Bindable /\ r.t = c.bound[e.op]
    BY <1>1, <1>4, BoundTaken
  <2> HIDE DEF r
  <2>2. Means(has, e, r.t, c)
    BY <1>4, <2>1 DEF Means
  <2> QED BY <1>4, <2>1, <2>2, MeantOnce, NotLeaving DEF r
<1> QED BY <1>2, <1>3, <1>4

LEMMA JumpMeant ==
  ASSUME NEW T, NEW sub, NEW has, NEW nodes, Known(T, sub, has, nodes), NEW e \in NodesOver(T),
         e.k \in {"break", "continue"} \/ (e.k = "return" /\ e.a = << >>), NEW x \in Expected, NEW c \in Contexts,
         Accepted(nodes, Resolve(sub, e, x, c))
  PROVE  MeantBy(has, e, c, Resolve(sub, e, x, c).t)
<1> DEFINE r == Resolve(sub, e, x, c)
<1>1. r.ok
  BY DEF Accepted
<1>2. ASSUME NEW t PROVE Means(has, e, t, c)
  <2>1. CASE e.k \in {"break", "continue"}
    <3>1. c.loop > 0
      BY <1>1, <2>1, JumpTaken
    <3> QED BY <2>1, <3>1 DEF Means
  <2>2. CASE e.k = "return" /\ e.a = << >>
    <3>1. c.ret = Unit
      BY <1>1, <2>2, EmptyReturnTaken
    <3> QED BY <2>2, <3>1 DEF Means
  <2> QED BY <2>1, <2>2
<1> QED BY <1>2 DEF MeantBy

LEMMA ReturnMeant ==
  ASSUME NEW T, NEW sub, NEW has, NEW nodes, Known(T, sub, has, nodes), NEW e \in NodesOver(T),
         e.k = "return", e.a # << >>, NEW x \in Expected, NEW c \in Contexts,
         Accepted(nodes, Resolve(sub, e, x, c))
  PROVE  MeantBy(has, e, c, Resolve(sub, e, x, c).t)
<1> DEFINE r == Resolve(sub, e, x, c)
           p == Check(sub, e.a[1], c.ret, c)
<1>1. r.ok /\ Valued(r.e) /\ CleanParts(nodes, r.e) /\ RegularAt(T, sub) /\ SoundAt(T, sub, has, nodes)
  BY DEF Accepted, Known
<1>2. Fine(T, sub, e.a[1], c.ret, c, p) /\ p.t \in {c.ret, Never} /\ r.e = Annotated(e, <<p.e>>, p.t)
  BY <1>1, ReturnTaken
<1>3. e.a[1] \in T /\ e.a[1].k \in Expression
  BY ReturnPart
<1> HIDE DEF r, p
<1>4. p.t \in ValueTypes /\ has[e.a[1]][p.t][c]
  BY <1>1, <1>2, <1>3, OneUsed
<1>5. has[e.a[1]][c.ret][c]
  BY <1>2, <1>4, BasicTypes
<1>6. ASSUME NEW t PROVE Means(has, e, t, c)
  BY <1>5 DEF Means
<1> QED BY <1>6 DEF MeantBy

\* A node over one part, of which it is enough to say what it means.
LEMMA OneMeant ==
  ASSUME NEW T, NEW sub, NEW has, NEW nodes, Known(T, sub, has, nodes), NEW e \in NodesOver(T),
         e.k \in {"unary", "field", "try", "let", "assign", "named"}, NEW x \in Expected, NEW c \in Contexts,
         Accepted(nodes, Resolve(sub, e, x, c))
  PROVE  MeantBy(has, e, c, Resolve(sub, e, x, c).t)
<1> DEFINE r == Resolve(sub, e, x, c)
           d == e.a[1]
<1>1. /\ r.ok /\ Valued(r.e) /\ Simple(r.e) /\ CleanParts(nodes, r.e)
      /\ RegularAt(T, sub) /\ SoundAt(T, sub, has, nodes)
  BY DEF Accepted, Known
<1>2. e.k \in OverOne \cup {"return"} /\ e.k # "discard" /\ d \in T /\ d.k \in Expression
  BY PartsOf DEF OverOne
<1>3. SUFFICES r.t \in ValueTypes \cup {Unit} /\ Means(has, e, r.t, c)
  BY MeantOnce, NotLeaving
<1>4. ASSUME NEW p, NEW y, NEW t, Fine(T, sub, d, y, c, p), r.e = Annotated(e, <<p.e>>, t)
      PROVE  p.t \in ValueTypes /\ has[d][p.t][c]
  <2> HIDE DEF r
  <2> QED BY <1>1, <1>2, <1>4, OneUsed
<1>5. e.k = "unary" => e.op \in {"!", "-"}
  BY NodeIs DEF Shaped
<1>6. CASE e.k = "unary" /\ e.op = "!"
  <2> DEFINE p == Check(sub, d, Bool, c)
  <2>1. Fine(T, sub, d, Bool, c, p) /\ p.t \in {Bool, Never} /\ r.t = Bool /\ r.e = Annotated(e, <<p.e>>, Bool)
    BY <1>1, <1>6, NotTaken
  <2> HIDE DEF r, p
  <2>2. p.t \in ValueTypes /\ has[d][p.t][c]
    BY <1>4, <2>1
  <2>3. has[e.a[1]][Bool][c] /\ Bool \in ValueTypes
    BY <2>1, <2>2, BasicTypes
  <2> QED BY <1>6, <2>1, <2>3 DEF Means
<1>7. CASE e.k = "unary" /\ e.op = "-" /\ IsLit(d)
  <2>1. /\ IsInt(r.t) /\ r.t \in ValueTypes /\ d.n <= NegatedLimit(r.t)
        /\ r.e = Annotated(e, e.a, r.t)
    BY <1>1, <1>7, MinusLiteralTaken
  <2>2. ~IsUInt(r.t)
    <3>1. r.e.k = e.k /\ r.e.op = e.op /\ r.e.a = e.a /\ r.e.r = r.t
      BY <2>1, WithIs DEF Annotated
    <3> HIDE DEF r
    <3> QED BY <1>1, <1>7, <3>1 DEF Simple, Minus, IsLit
  <2>3. d.n \in Nat
    BY <1>2 DEF Known, Proper
  <2> HIDE DEF r
  <2>4. -d.n >= MinOf(r.t)
    BY <2>1, <2>2, <2>3, NegatedInRange
  <2> QED BY <1>7, <2>1, <2>4 DEF Means
<1>8. CASE e.k = "unary" /\ e.op = "-" /\ ~IsLit(d)
  <2> DEFINE p == Check(sub, d, x, c)
  <2>1. Fine(T, sub, d, x, c, p) /\ IsInt(p.t) /\ r.t = p.t /\ r.e = Annotated(e, <<p.e>>, p.t)
    BY <1>1, <1>8, MinusTaken
  <2> HIDE DEF r, p
  <2>2. p.t \in ValueTypes /\ has[d][p.t][c]
    BY <1>4, <2>1
  <2> QED BY <1>8, <2>1, <2>2 DEF Means
<1>9. CASE e.k = "named"
  <2> DEFINE p == Check(sub, d, x, c)
  <2>1. Fine(T, sub, d, x, c, p) /\ r.t = p.t /\ r.e = Annotated(e, <<p.e>>, p.t)
    BY <1>1, <1>9, NamedTaken
  <2> HIDE DEF r, p
  <2>2. p.t \in ValueTypes /\ has[d][p.t][c]
    BY <1>4, <2>1
  <2> QED BY <1>9, <2>1, <2>2 DEF Means
<1>10. CASE e.k = "field"
  <2> DEFINE p == Check(sub, d, Untyped, c)
  <2>1. /\ Fine(T, sub, d, Untyped, c, p) /\ r.e = Annotated(e, <<p.e>>, r.t)
        /\ e.op \in NamesOf(Readable(p.t)) /\ r.t = TypeIn(Readable(p.t), e.op)
    BY <1>1, <1>10, FieldTaken
  <2> HIDE DEF r, p
  <2>2. p.t \in ValueTypes /\ has[d][p.t][c]
    BY <1>4, <2>1
  <2>3. r.t \in ValueTypes
    BY <2>1, <2>2, ReadableTyped
  <2>4. \E u \in ValueTypes : /\ e.op \in NamesOf(Readable(u))
                              /\ r.t = TypeIn(Readable(u), e.op) /\ has[d][u][c]
    BY <2>1, <2>2
  <2> QED BY <1>10, <2>3, <2>4 DEF Means
<1>11. CASE e.k = "try"
  <2> DEFINE p == Check(sub, d, Untyped, c)
  <2>1. /\ Fine(T, sub, d, Untyped, c, p) /\ r.e = Annotated(e, <<p.e>>, r.t)
        /\ p.t = ErrorT \/ IsFallible(p.t)
        /\ c.ret = ErrorT \/ IsFallible(c.ret)
        /\ r.t = IF p.t = ErrorT THEN Unit ELSE p.t.fst
    BY <1>1, <1>11, TryTaken
  <2> HIDE DEF r, p
  <2>2. p.t \in ValueTypes /\ has[d][p.t][c] /\ p.t \in Types
    BY <1>4, <2>1, BasicTypes
  <2>3. p.t # ErrorT => r.t \in ValueTypes /\ p.t = Pair(r.t, ErrorT)
    BY <2>1, <2>2, PairTypes DEF IsFallible
  <2>4. r.t \in ValueTypes \cup {Unit} /\ p.t = IF r.t = Unit THEN ErrorT ELSE Pair(r.t, ErrorT)
    BY <2>1, <2>3, BasicTypes
  <2>5. \E u \in ValueTypes : u = (IF r.t = Unit THEN ErrorT ELSE Pair(r.t, ErrorT)) /\ has[d][u][c]
    BY <2>2, <2>4
  <2> QED BY <1>11, <2>1, <2>4, <2>5 DEF Means
<1>12. CASE e.k = "let"
  <2> DEFINE p == Check(sub, d, e.ty, c)
  <2>1. /\ Fine(T, sub, d, e.ty, c, p) /\ r.t = Unit /\ r.e = Annotated(e, <<p.e>>, p.t)
        /\ e.ty = Untyped \/ p.t = e.ty
    BY <1>1, <1>12, LetTaken
  <2> HIDE DEF r, p
  <2>2. p.t \in ValueTypes /\ has[d][p.t][c]
    BY <1>4, <2>1
  <2>3. \E u \in ValueTypes : e.ty \in {u, Untyped} /\ has[d][u][c]
    BY <2>1, <2>2
  <2> QED BY <1>12, <2>1, <2>3 DEF Means
<1>13. CASE e.k = "assign"
  <2> DEFINE p == Check(sub, d, e.ty, c)
  <2>1. Fine(T, sub, d, e.ty, c, p) /\ p.t = e.ty /\ r.t = Unit /\ r.e = Annotated(e, <<p.e>>, p.t)
    BY <1>1, <1>13, AssignTaken
  <2> HIDE DEF r, p
  <2>2. has[d][e.ty][c]
    BY <1>4, <2>1
  <2> QED BY <1>13, <2>1, <2>2 DEF Means
<1> HIDE DEF r, d
<1> QED BY <1>5, <1>6, <1>7, <1>8, <1>9, <1>10, <1>11, <1>12, <1>13

\* A node over two parts.
LEMMA TwoMeant ==
  ASSUME NEW T, NEW sub, NEW has, NEW nodes, Known(T, sub, has, nodes), NEW e \in NodesOver(T),
         e.k \in {"binary", "tuple"}, NEW x \in Expected, NEW c \in Contexts,
         Accepted(nodes, Resolve(sub, e, x, c))
  PROVE  MeantBy(has, e, c, Resolve(sub, e, x, c).t)
<1> DEFINE r == Resolve(sub, e, x, c)
           d == e.a[1]
           f == e.a[2]
<1>1. /\ r.ok /\ Valued(r.e) /\ CleanParts(nodes, r.e)
      /\ RegularAt(T, sub) /\ SoundAt(T, sub, has, nodes)
  BY DEF Accepted, Known
<1>2. SUFFICES r.t \in ValueTypes \cup {Unit} /\ Means(has, e, r.t, c)
  BY MeantOnce, NotLeaving
<1>3. ASSUME NEW p, NEW q, NEW y, NEW z, NEW t, Fine(T, sub, d, y, c, p), Fine(T, sub, f, z, c, q),
             r.e = Annotated(e, <<p.e, q.e>>, t)
      PROVE  p.t \in ValueTypes /\ has[d][p.t][c] /\ q.t \in ValueTypes /\ has[f][q.t][c]
  <2> HIDE DEF r
  <2> QED BY <1>1, <1>3, TwoUsed
<1>4. e.k = "binary" => e.op \in {"&&", "<<", "+", "=="}
  BY NodeIs DEF Shaped
<1>5. CASE e.k = "binary" /\ e.op = "&&"
  <2> DEFINE p == Check(sub, e.a[1], Bool, c)
             q == Check(sub, e.a[2], Bool, c)
  <2>1. /\ Fine(T, sub, d, Bool, c, p) /\ p.t \in {Bool, Never}
        /\ Fine(T, sub, f, Bool, c, q) /\ q.t \in {Bool, Never}
        /\ r.t = Bool /\ r.e = Annotated(e, <<p.e, q.e>>, Bool)
    BY <1>1, <1>5, LogicalTaken
  <2> HIDE DEF r, p, q
  <2>2. p.t \in ValueTypes /\ has[d][p.t][c] /\ q.t \in ValueTypes /\ has[f][q.t][c]
    BY <1>3, <2>1
  <2>3. has[e.a[1]][Bool][c] /\ has[e.a[2]][Bool][c] /\ Bool \in ValueTypes
    BY <2>1, <2>2, BasicTypes
  <2> QED BY <1>5, <2>1, <2>3 DEF Means
<1>6. CASE e.k = "binary" /\ e.op = "<<"
  <2> DEFINE p == Check(sub, e.a[1], x, c)
             q == sub[e.a[2]][Named("UInt64")][c]
  <2>1. /\ Fine(T, sub, d, x, c, p) /\ IsInt(p.t)
        /\ Fine(T, sub, f, Named("UInt64"), c, q) /\ IsUInt(q.t)
        /\ r.t = p.t /\ r.e = Annotated(e, <<p.e, q.e>>, p.t)
    BY <1>1, <1>6, ShiftTaken
  <2> HIDE DEF r, p, q
  <2>2. p.t \in ValueTypes /\ has[d][p.t][c] /\ q.t \in ValueTypes /\ has[f][q.t][c]
    BY <1>3, <2>1
  <2> QED BY <1>6, <2>1, <2>2 DEF Means
<1>7. CASE e.k = "binary" /\ e.op = "+"
  <2> DEFINE p == Operands(sub, e, x, c)[1]
             q == Operands(sub, e, x, c)[2]
  <2>1. /\ OperandsFine(T, sub, e, x, c, p, q) /\ p.t = q.t /\ IsInt(p.t)
        /\ r.t = p.t /\ r.e = Annotated(e, <<p.e, q.e>>, p.t)
    BY <1>1, <1>7, SumTaken
  <2> HIDE DEF r, p, q
  <2>2. PICK y, z : Fine(T, sub, d, y, c, p) /\ Fine(T, sub, f, z, c, q)
    BY <2>1 DEF OperandsFine
  <2>3. p.t \in ValueTypes /\ has[d][p.t][c] /\ q.t \in ValueTypes /\ has[f][q.t][c]
    BY <1>3, <2>1, <2>2
  <2> QED BY <1>7, <2>1, <2>3 DEF Means
<1>8. CASE e.k = "binary" /\ e.op = "=="
  <2> DEFINE p == Operands(sub, e, Untyped, c)[1]
             q == Operands(sub, e, Untyped, c)[2]
  <2>1. /\ OperandsFine(T, sub, e, Untyped, c, p, q) /\ p.t = q.t /\ ~IsList(p.t) /\ ~IsEnum(p.t)
        /\ r.t = Bool /\ r.e = Annotated(e, <<p.e, q.e>>, p.t)
    BY <1>1, <1>8, EqualityTaken
  <2> HIDE DEF r, p, q
  <2>2. PICK y, z : Fine(T, sub, d, y, c, p) /\ Fine(T, sub, f, z, c, q)
    BY <2>1 DEF OperandsFine
  <2>3. p.t \in ValueTypes /\ has[d][p.t][c] /\ q.t \in ValueTypes /\ has[f][q.t][c]
    BY <1>3, <2>1, <2>2
  <2> QED BY <1>8, <2>1, <2>3, BasicTypes DEF Means
<1>9. CASE e.k = "tuple"
  <2> DEFINE p == Check(sub, e.a[1], Untyped, c)
             q == Check(sub, e.a[2], Untyped, c)
  <2>1. /\ Fine(T, sub, d, Untyped, c, p) /\ Fine(T, sub, f, Untyped, c, q)
        /\ r.t = Pair(p.t, q.t) /\ r.t \in Types
        /\ r.e = Annotated(e, <<p.e, q.e>>, r.t)
    BY <1>1, <1>9, TupleTaken
  <2> HIDE DEF r, p, q
  <2>2. p.t \in ValueTypes /\ has[d][p.t][c] /\ q.t \in ValueTypes /\ has[f][q.t][c]
    BY <1>3, <2>1
  <2>3. r.t.fst = p.t /\ r.t.snd = q.t /\ IsTuple(r.t) /\ r.t \in ValueTypes
    BY <2>1, <2>2, PairTypes
  <2> QED BY <1>9, <2>2, <2>3 DEF Means
<1> HIDE DEF r, d, f
<1> QED BY <1>4, <1>5, <1>6, <1>7, <1>8, <1>9

\* Every name of the fields is given, by as many operands as there are names.
LEMMA FieldsOnce ==
  ASSUME NEW T, NEW e \in NodesOver(T), NEW fields, Declared(fields), Len(e.a) = Len(fields),
         {e.a[i].op : i \in DOMAIN e.a} = NamesOf(fields)
  PROVE  EachOnce(e, fields)
<1> DEFINE n == Len(fields)
           N == NamesOf(fields)
           g == [i \in 1 .. n |-> e.a[i].op]
<1>1. n \in Nat /\ DOMAIN fields = 1 .. n /\ DOMAIN e.a = 1 .. n
  BY SeqElement, NodeIs DEF Declared
<1>2. IsFiniteSet(1 .. n) /\ Cardinality(1 .. n) = n
  <2>1. n \in Int /\ 1 \in Int /\ (IF 1 > n THEN 0 ELSE n - 1 + 1) = n
    BY <1>1
  <2> HIDE DEF n
  <2> QED BY <2>1, FS_Interval
<1>3. \A i, j \in 1 .. n : fields[i].name = fields[j].name => i = j
  BY <1>1 DEF Declared
<1>4. IsFiniteSet(N) /\ Cardinality(N) = n
  <2> DEFINE h == [i \in 1 .. n |-> fields[i].name]
  <2>1. N = {fields[i].name : i \in 1 .. n}
    BY <1>1 DEF NamesOf
  <2>2. h \in Bijection(1 .. n, N)
    <3>1. h \in [1 .. n -> N] /\ \A v \in N : \E i \in 1 .. n : h[i] = v
      BY <2>1
    <3>2. \A i, j \in 1 .. n : h[i] = h[j] => i = j
      BY <1>3
    <3> HIDE DEF h
    <3> QED BY <3>1, <3>2 DEF Bijection, Injection, IsInjective, Surjection
  <2> HIDE DEF h, n, N
  <2> QED BY <1>2, <2>2, FS_Bijection DEF ExistsBijection
<1>5. g \in Surjection(1 .. n, N)
  <2>1. N = {e.a[i].op : i \in 1 .. n}
    BY <1>1
  <2>2. g \in [1 .. n -> N] /\ \A v \in N : \E i \in 1 .. n : g[i] = v
    BY <2>1
  <2> HIDE DEF g
  <2> QED BY <2>2 DEF Surjection
<1>6. g \in Injection(1 .. n, N)
  <2> HIDE DEF g, n, N
  <2> QED BY <1>2, <1>4, <1>5, FS_SurjSameCardinalityImpliesInj
<1>7. \A i, j \in 1 .. n : e.a[i].op = e.a[j].op => i = j
  BY <1>6 DEF Injection, IsInjective
<1>8. \A v \in N : \E i \in 1 .. n : e.a[i].op = v
  <2>1. N = {e.a[i].op : i \in 1 .. n}
    BY <1>1
  <2> QED BY <2>1
<1> HIDE DEF n, N
<1> QED BY <1>1, <1>7, <1>8 DEF EachOnce, N

\* A node over many parts.
LEMMA ManyMeant ==
  ASSUME NEW T, NEW sub, NEW has, NEW nodes, Known(T, sub, has, nodes), NEW e \in NodesOver(T),
         e.k \in {"list", "call", "struct", "variant"}, NEW x \in Expected, NEW c \in Contexts,
         Accepted(nodes, Resolve(sub, e, x, c))
  PROVE  MeantBy(has, e, c, Resolve(sub, e, x, c).t)
<1> DEFINE r == Resolve(sub, e, x, c)
<1> SUFFICES MeantBy(has, e, c, r.t)
  OBVIOUS
<1>1. /\ r.ok /\ Valued(r.e) /\ CleanParts(nodes, r.e)
      /\ RegularAt(T, sub) /\ SoundAt(T, sub, has, nodes)
  BY DEF Accepted, Known
<1>2. ~Leaves(e)
  BY NotLeaving
<1>3. ASSUME NEW rs, NEW t, DOMAIN rs = DOMAIN e.a, \A i \in DOMAIN e.a : \E y : Fine(T, sub, e.a[i], y, c, rs[i]),
             r.e = Annotated(e, Trees(rs), t)
      PROVE  \A i \in DOMAIN e.a : rs[i].t \in ValueTypes /\ has[e.a[i]][rs[i].t][c]
  <2> DEFINE f == r.e
  <2>1. f = Annotated(e, Trees(rs), t) /\ Valued(f) /\ CleanParts(nodes, f)
    BY <1>1, <1>3
  <2> HIDE DEF r, f
  <2>2. SoundAt(T, sub, has, nodes) /\ e.k \in {"list", "call", "struct", "variant"}
    BY <1>1
  <2> QED BY <1>3, <2>1, <2>2, ManyUsed, Zenon
<1>4. CASE e.k = "list"
  <2>1. PICK rs : /\ IsList(r.t) /\ r.t \in Types /\ ElementsFine(T, sub, e, c, r.t.of, rs)
                  /\ r.e = Annotated(e, Trees(rs), r.t)
    BY <1>1, <1>4, ListTaken
  <2> HIDE DEF r
  <2>2. \A i \in DOMAIN e.a : rs[i].t \in ValueTypes /\ has[e.a[i]][rs[i].t][c]
    BY <1>3, <2>1 DEF ElementsFine
  <2>3. \A i \in DOMAIN e.a : rs[i].t \in {r.t.of, Never}
    BY <2>1 DEF ElementsFine
  <2>4. \A i \in DOMAIN e.a : has[e.a[i]][r.t.of][c]
    BY <2>2, <2>3, BasicTypes
  <2>5. Means(has, e, r.t, c)
    BY <1>4, <2>1, <2>4 DEF Means
  <2>6. r.t \notin {Unit, Never}
    BY <2>1 DEF Unit, Never, Named, IsList
  <2> QED BY <1>2, <2>5, <2>6 DEF MeantBy
<1>5. CASE e.k = "call"
  <2> DEFINE us == Signature[e.op].params
             rs == [i \in DOMAIN e.a |-> Check(sub, e.a[i], us[i], c)]
             ys == [i \in DOMAIN e.a |-> IF us[i] = AnyT THEN Untyped ELSE us[i]]
  <2>1. /\ DOMAIN us = DOMAIN e.a /\ \A i \in DOMAIN e.a : us[i] \in ValueTypes \cup {AnyT}
        /\ PartsFine(T, sub, e.a, ys, c, rs)
        /\ r.t = Signature[e.op].ret /\ r.t \in ValueTypes \cup {Unit}
        /\ r.e = Annotated(e, Trees(rs), r.t)
    BY <1>1, <1>5, CallTaken
  <2>0. \A i \in DOMAIN e.a : ys[i] = IF us[i] = AnyT THEN Untyped ELSE us[i]
    OBVIOUS
  <2>u. us = Signature[e.op].params
    OBVIOUS
  <2> HIDE DEF r, us, rs, ys
  <2>2. DOMAIN rs = DOMAIN e.a /\ \A i \in DOMAIN e.a : \E y : Fine(T, sub, e.a[i], y, c, rs[i])
    BY <2>1 DEF PartsFine
  <2>3. \A i \in DOMAIN e.a : rs[i].t \in ValueTypes /\ has[e.a[i]][rs[i].t][c]
    BY <1>3, <2>1, <2>2
  <2>4. \A i \in DOMAIN e.a : us[i] \in {rs[i].t, AnyT}
    <3> SUFFICES ASSUME NEW i \in DOMAIN e.a, us[i] # AnyT PROVE us[i] = rs[i].t
      OBVIOUS
    <3>1. ys[i] = us[i] /\ us[i] \in ValueTypes
      BY <2>0, <2>1
    <3>2. rs[i].t \in {us[i], Never}
      BY <2>1, <3>1, BasicTypes DEF PartsFine
    <3> QED BY <2>3, <3>2, BasicTypes
  <2>5. \A i \in DOMAIN e.a : \E u \in ValueTypes : us[i] \in {u, AnyT} /\ has[e.a[i]][u][c]
    BY <2>3, <2>4
  <2>6. Means(has, e, r.t, c)
    BY <1>5, <2>1, <2>5 DEF Means, us
  <2> QED BY <1>2, <2>1, <2>6, MeantOnce
<1>6. CASE e.k \in {"struct", "variant"}
  <2> DEFINE fields == FieldsAt(e)
             ys == [i \in DOMAIN e.a |-> TypeIn(fields, e.a[i].op)]
             rs == [i \in DOMAIN e.a |-> sub[e.a[i]][TypeIn(fields, e.a[i].op)][c]]
  <2>1. /\ Declared(fields) /\ Len(e.a) = Len(fields)
        /\ {e.a[i].op : i \in DOMAIN e.a} = NamesOf(fields)
        /\ e.k = "variant" => HasVariant(e.ty, e.op)
        /\ PartsFine(T, sub, e.a, ys, c, rs)
        /\ \A i \in DOMAIN e.a : ys[i] \in ValueTypes
        /\ r.t = e.ty /\ r.t \in ValueTypes /\ r.e = Annotated(e, Trees(rs), r.t)
    BY <1>1, <1>6, FieldsTaken, Zenon
  <2>2. \A i \in DOMAIN e.a : ys[i] = TypeIn(fields, e.a[i].op)
    OBVIOUS
  <2> HIDE DEF r, rs, ys
  <2>3. DOMAIN rs = DOMAIN e.a /\ \A i \in DOMAIN e.a : \E y : Fine(T, sub, e.a[i], y, c, rs[i])
    BY <2>1 DEF PartsFine
  <2>4. \A i \in DOMAIN e.a : rs[i].t \in ValueTypes /\ has[e.a[i]][rs[i].t][c]
    BY <1>3, <2>1, <2>3
  <2>5. \A i \in DOMAIN e.a : rs[i].t = TypeIn(fields, e.a[i].op)
    BY <2>1, <2>2, <2>4, BasicTypes DEF PartsFine
  <2>6. \A i \in DOMAIN e.a : e.a[i].op \in NamesOf(fields) /\ has[e.a[i]][TypeIn(fields, e.a[i].op)][c]
    BY <2>1, <2>4, <2>5
  <2>7. EachOnce(e, fields)
    BY <2>1, FieldsOnce
  <2>8. fields = IF e.k = "struct" THEN Struct[e.ty.con] ELSE FieldsOf(e.ty, e.op)
    BY DEF FieldsAt
  <2> HIDE DEF fields
  <2>9. Means(has, e, r.t, c)
    BY <1>6, <2>1, <2>6, <2>7, <2>8 DEF Means
  <2> QED BY <1>2, <2>1, <2>9, MeantOnce
<1> QED BY <1>4, <1>5, <1>6

LEMMA DiscardMeant ==
  ASSUME NEW T, NEW sub, NEW has, NEW nodes, Known(T, sub, has, nodes), NEW e \in NodesOver(T),
         e.k = "discard", NEW x \in Expected, NEW c \in Contexts, Accepted(nodes, Resolve(sub, e, x, c))
  PROVE  MeantBy(has, e, c, Resolve(sub, e, x, c).t)
<1> DEFINE r == Resolve(sub, e, x, c)
           d == e.a[1]
           p == Check(sub, d, Untyped, c)
<1>1. r.ok /\ CleanParts(nodes, r.e) /\ RegularAt(T, sub) /\ GoodAt(T, sub, nodes) /\ SoundAt(T, sub, has, nodes)
  BY DEF Accepted, Known
<1>2. SUFFICES r.t \in ValueTypes \cup {Unit} /\ Means(has, e, r.t, c)
  BY MeantOnce, NotLeaving
<1>3. Fine(T, sub, d, Untyped, c, p) /\ r.t = Unit /\ r.e = Annotated(e, <<p.e>>, p.t)
  BY <1>1, DiscardTaken
<1>4. d \in T /\ Apt(d)
  BY PartsOf, ExpressionsApt DEF OverOne
<1> HIDE DEF r, d, p
<1>5. Clean(nodes[p.e]) /\ AllValued(nodes[p.e])
  <2>1. r.e.a[1] = p.e /\ DOMAIN r.e.a = {1}
    BY <1>3, OneAnnotated
  <2> QED BY <1>1, <2>1, CleanIsValued DEF CleanParts
<1>6. Meant(has, d, c, p.t)
  BY <1>1, <1>3, <1>4, <1>5, PartMeant
<1>7. p.t \in Good
  <2>1. p = sub[d][Untyped][c] /\ p.ok
    BY <1>3 DEF Fine
  <2> QED BY <1>1, <1>4, <1>5, <2>1, GoodBody
<1>8. \E u \in ValueTypes \cup {Unit} : has[d][u][c]
  BY <1>6, <1>7 DEF Meant, Good
<1> QED BY <1>3, <1>8 DEF Means, d

LEMMA BlockMeant ==
  ASSUME NEW T, NEW sub, NEW has, NEW nodes, Known(T, sub, has, nodes), NEW e \in NodesOver(T),
         e.k = "block", NEW x \in Expected, NEW c \in Contexts, Accepted(nodes, Resolve(sub, e, x, c))
  PROVE  MeantBy(has, e, c, Resolve(sub, e, x, c).t)
<1> DEFINE r == Resolve(sub, e, x, c)
<1> SUFFICES MeantBy(has, e, c, r.t)
  OBVIOUS
<1>1. r.ok /\ CleanParts(nodes, r.e) /\ RegularAt(T, sub) /\ SoundAt(T, sub, has, nodes)
  BY DEF Accepted, Known
<1>2. CASE e.a = << >>
  <2>1. r.t = Unit
    BY <1>1, <1>2, EmptyBlockTaken, BadIsBad
  <2>2. Means(has, e, Unit, c)
    <3>1. 1 .. Len(e.a) - 1 = {}
      BY <1>2
    <3> QED BY <1>2, <3>1 DEF Means
  <2>3. ~Leaves(e)
    BY <1>2 DEF Leaves, Diverging, EndsInNever
  <2> HIDE DEF r
  <2> QED BY <2>1, <2>2, <2>3, MeantOnce
<1>3. CASE e.a # << >>
  <2> DEFINE ys == [i \in DOMAIN e.a |-> IF i = Len(e.a) THEN x ELSE Untyped]
             rs == [i \in DOMAIN e.a |-> Check(sub, e.a[i], IF i = Len(e.a) THEN x ELSE Untyped, c)]
             k  == Len(e.a)
  <2>1. /\ PartsFine(T, sub, e.a, ys, c, rs)
        /\ \A i \in 1 .. k - 1 : rs[i].t \in {Unit, Never}
        /\ r.t = rs[k].t /\ r.e = Annotated(e, Trees(rs), e.r)
    BY <1>1, <1>3, BlockTaken
  <2>2. k \in Nat /\ DOMAIN e.a = 1 .. k /\ k \in DOMAIN e.a
    <3>1. e.a \in Seq(T)
      BY NodeIs
    <3> QED BY <1>3, <3>1
  <2>3. DOMAIN rs = DOMAIN e.a
    OBVIOUS
  <2>4. \A i \in DOMAIN e.a : e.a[i] \in T /\ Apt(e.a[i])
    BY PartsOf, ExpressionsApt
  <2>k. k = Len(e.a)
    OBVIOUS
  <2> HIDE DEF ys, rs, k, r
  <2>5. \A i \in DOMAIN e.a : Clean(nodes[rs[i].e])
    BY <1>1, <2>1, <2>3, ManyAnnotated DEF CleanParts
  <2>6. \A i \in DOMAIN e.a : Meant(has, e.a[i], c, rs[i].t)
    BY <1>1, <2>1, <2>4, <2>5, PartMeant DEF PartsFine
  <2>7. \A i \in 1 .. k - 1 : has[e.a[i]][Unit][c]
    BY <2>1, <2>2, <2>6 DEF Meant
  <2>8. ASSUME NEW t, has[e.a[k]][t][c] PROVE Means(has, e, t, c)
    BY <1>3, <2>7, <2>8, <2>k DEF Means, LastOf
  <2>9. Leaves(e) => Leaves(e.a[k])
    BY <2>k DEF Leaves, EndsInNever, LastOf, Diverging
  <2>10. Meant(has, e.a[k], c, r.t)
    BY <2>1, <2>2, <2>6
  <2> QED BY <2>8, <2>9, <2>10 DEF Meant, MeantBy
<1> QED BY <1>2, <1>3

LEMMA CaseMeant ==
  ASSUME NEW T, NEW sub, NEW has, NEW nodes, Known(T, sub, has, nodes), NEW e \in NodesOver(T),
         e.k \in {"case", "default"}, Apt(e), NEW x \in Expected, NEW c \in Contexts,
         Accepted(nodes, Resolve(sub, e, x, c))
  PROVE  MeantBy(has, e, c, Resolve(sub, e, x, c).t)
<1> DEFINE r == Resolve(sub, e, x, c)
           w == Within(e, c)
           b == sub[e.a[1]][x][w]
           named == [i \in DOMAIN e.cs |-> Annotated(e.cs[i], e.cs[i].a, FieldsOf(e.ty, e.op)[i].type)]
<1> SUFFICES MeantBy(has, e, c, r.t)
  OBVIOUS
<1>1. r.ok /\ CleanParts(nodes, r.e) /\ RegularAt(T, sub) /\ SoundAt(T, sub, has, nodes)
  BY DEF Accepted, Known
<1>2. w \in Contexts /\ Body(T, sub, e.a[1], x, w, b) /\ r.t = b.t /\ r.e = With(e, e.ty, named, <<b.e>>, b.t)
  BY <1>1, CaseTaken
<1>3. e.a[1] \in T /\ Apt(e.a[1]) /\ e.a[1].k = "block"
  BY PartsOf, ExpressionsApt
<1>w. w = Within(e, c)
  OBVIOUS
<1> HIDE DEF w, b, named, r
<1>4. Clean(nodes[b.e])
  <2>1. r.e.a = <<b.e>>
    BY <1>2, WithIs
  <2>2. 1 \in DOMAIN <<b.e>> /\ <<b.e>>[1] = b.e
    OBVIOUS
  <2> QED BY <1>1, <2>1, <2>2 DEF CleanParts
<1>5. Meant(has, e.a[1], w, r.t)
  BY <1>1, <1>2, <1>3, <1>4, BodyMeant
<1>6. ASSUME NEW t, has[e.a[1]][t][w] PROVE Means(has, e, t, c)
  BY <1>6, <1>w DEF Means
<1>7. Leaves(e) => Leaves(e.a[1])
  BY <1>3 DEF Leaves, Diverging
<1> QED BY <1>5, <1>6, <1>7 DEF Meant, MeantBy

LEMMA WhileMeant ==
  ASSUME NEW T, NEW sub, NEW has, NEW nodes, Known(T, sub, has, nodes), NEW e \in NodesOver(T),
         e.k = "while", NEW x \in Expected, NEW c \in Contexts, Accepted(nodes, Resolve(sub, e, x, c))
  PROVE  MeantBy(has, e, c, Resolve(sub, e, x, c).t)
<1> DEFINE r == Resolve(sub, e, x, c)
           p == Check(sub, e.cs[1], Bool, c)
           l == [c EXCEPT !.loop = @ + 1]
           b == sub[e.a[1]][Unit][l]
<1>1. r.ok /\ Valued(r.e) /\ CleanParts(nodes, r.e) /\ RegularAt(T, sub) /\ SoundAt(T, sub, has, nodes)
  BY DEF Accepted, Known
<1>2. SUFFICES r.t \in ValueTypes \cup {Unit} /\ Means(has, e, r.t, c)
  BY MeantOnce, NotLeaving
<1>3. /\ Fine(T, sub, e.cs[1], Bool, c, p) /\ p.t \in {Bool, Never}
      /\ l \in Contexts /\ Body(T, sub, e.a[1], Unit, l, b) /\ b.t \in {Unit, Never}
      /\ r.t = Unit /\ r.e = With(e, e.ty, <<p.e>>, <<b.e>>, Unit)
  BY <1>1, WhileTaken
<1>4. /\ e.a[1] \in T /\ Apt(e.a[1]) /\ e.cs[1] \in T /\ Apt(e.cs[1])
  BY PartsOf, ExpressionsApt
<1>l. l = [c EXCEPT !.loop = @ + 1]
  OBVIOUS
<1> HIDE DEF r, p, l, b
<1>5. r.e.k = e.k /\ r.e.a = <<b.e>> /\ r.e.cs = <<p.e>>
  BY <1>3, WithIs
<1>6. Clean(nodes[p.e]) /\ Clean(nodes[b.e])
  <2>1. 1 \in DOMAIN <<b.e>> /\ <<b.e>>[1] = b.e /\ 1 \in DOMAIN <<p.e>> /\ <<p.e>>[1] = p.e
    OBVIOUS
  <2> QED BY <1>1, <1>5, <2>1 DEF CleanParts
<1>7. Meant(has, e.cs[1], c, p.t)
  BY <1>1, <1>3, <1>4, <1>6, PartMeant
<1>8. Meant(has, e.a[1], l, b.t)
  BY <1>1, <1>3, <1>4, <1>6, BodyMeant
<1>9. p.t \in ValueTypes
  <2>1. 1 \in DOMAIN r.e.cs /\ r.e.cs[1] = p.e /\ r.e.k # "case"
    BY <1>5
  <2>2. TypeOf(p.e) = p.t
    BY <1>3 DEF Fine
  <2> QED BY <1>1, <2>1, <2>2, ValuedConditions
<1>10. has[e.cs[1]][Bool][c] /\ has[e.a[1]][Unit][l]
  BY <1>3, <1>7, <1>8, <1>9, BasicTypes DEF Meant
<1> QED BY <1>3, <1>10, <1>l DEF Means

\* A block of type Never that ends in a value, if in anything but a jump,
\* ends in a jump.
LEMMA NeverEndsInJump ==
  ASSUME NEW b, b.t = Never, b.t = BlockType(b.e), EndsInValue(b.e),
         NEW d, SameKinds(b.e.a, d.a), Listed(d.a), Listed(b.e.a)
  PROVE  EndsInNever(d)
<1> DEFINE n == Len(d.a)
<1>1. b.e.a # << >> /\ Never \notin ValueTypes
  BY BasicTypes DEF BlockType
<1>2. TypeOf(LastOf(b.e)) = Never
  BY <1>1 DEF BlockType
<1>3. Diverging(LastOf(b.e))
  BY <1>1, <1>2 DEF EndsInValue, HasValues
<1>4. d.a # << >> /\ n \in DOMAIN d.a
  <2>1. Len(b.e.a) = n /\ n \in Nat /\ DOMAIN d.a = 1 .. n
    BY DEF SameKinds, Listed
  <2>2. n = 0 => b.e.a = << >>
    BY <2>1 DEF Listed
  <2> HIDE DEF n
  <2> QED BY <1>1, <2>1, <2>2
<1>5. LastOf(d).k = LastOf(b.e).k
  BY <1>4 DEF SameKinds, LastOf
<1> QED BY <1>3, <1>4, <1>5 DEF EndsInNever, Diverging

\* The branches of a node, and what was found of them.
BranchesIn(T, ds) == \A i \in DOMAIN ds : ds[i] \in T /\ ds[i].k \in {"block", "case", "default"} /\ Apt(ds[i])
CleanBranches(nodes, ds, bs) == \A i \in DOMAIN ds : Clean(nodes[bs[i].e])
EndInValues(ds, bs) ==
  \A i \in DOMAIN ds : EndsInValue(IF ds[i].k = "block" THEN bs[i].e ELSE bs[i].e.a[1])

\* A claim about a node of several branches, from what the branches are.
LEMMA BranchesMeant ==
  ASSUME NEW T, NEW sub, NEW has, NEW nodes, SoundAt(T, sub, has, nodes), Proper(T),
         NEW ds, BranchesIn(T, ds),
         NEW y, NEW c \in Contexts, NEW bs, NEW t, BodiesFine(T, sub, ds, y, c, bs, t),
         CleanBranches(nodes, ds, bs), t \in ValueTypes => EndInValues(ds, bs)
  PROVE  /\ t \in ValueTypes => \A i \in DOMAIN ds : has[ds[i]][t][c]
         /\ t \in {Unit, Never} => \A i \in DOMAIN ds : has[ds[i]][Unit][c]
<1>1. ASSUME NEW i \in DOMAIN ds
      PROVE  (t \in ValueTypes => has[ds[i]][t][c]) /\ (t \in {Unit, Never} => has[ds[i]][Unit][c])
  <2> DEFINE d == ds[i]
             b == bs[i]
  <2>1. d \in T /\ d.k \in {"block", "case", "default"} /\ Apt(d) /\ Clean(nodes[b.e])
    BY DEF BranchesIn, CleanBranches
  <2>2. b.t \in {t, Never} /\ \E z \in {y, t} : Body(T, sub, d, z, c, b)
    BY DEF BodiesFine
  <2>3. t \in ValueTypes => EndsInValue(IF d.k = "block" THEN b.e ELSE b.e.a[1])
    BY DEF EndInValues
  <2> HIDE DEF d, b
  <2>4. PICK z : Body(T, sub, d, z, c, b)
    BY <2>2
  <2>5. Meant(has, d, c, b.t)
    BY <2>1, <2>4, BodyMeant
  <2>6. ASSUME t \in ValueTypes, b.t = Never PROVE Leaves(d)
    <3>1. b.e \in T /\ b.e.k = d.k
      BY <2>4 DEF Body
    <3>2. CASE d.k = "block"
      <4>1. SameKinds(b.e.a, d.a) /\ b.t = BlockType(b.e)
        BY <2>4, <3>2 DEF Body
      <4>2. Listed(d.a) /\ Listed(b.e.a)
        BY <2>1, <3>1 DEF Proper
      <4>3. EndsInValue(b.e)
        BY <2>3, <2>6, <3>2
      <4> QED BY <2>6, <3>2, <4>1, <4>2, <4>3, NeverEndsInJump DEF Leaves
    <3>3. CASE d.k \in {"case", "default"}
      <4> DEFINE g == [t |-> b.t, e |-> b.e.a[1]]
      <4>1. SameKinds(b.e.a[1].a, d.a[1].a) /\ b.t = BlockType(b.e.a[1])
        BY <2>4, <3>3 DEF Body
      <4>2. Listed(d.a[1].a) /\ Listed(b.e.a[1].a)
        BY <2>1, <3>1, <3>3 DEF Proper
      <4>3. EndsInValue(b.e.a[1])
        BY <2>3, <2>6, <3>3
      <4>4. g.t = b.t /\ g.e = b.e.a[1]
        OBVIOUS
      <4> HIDE DEF g
      <4>5. EndsInNever(d.a[1])
        BY <2>6, <4>1, <4>2, <4>3, <4>4, NeverEndsInJump
      <4> QED BY <3>3, <4>5 DEF Leaves
    <3> QED BY <2>1, <3>2, <3>3
  <2>7. t \in ValueTypes => has[d][t][c]
    BY <2>2, <2>5, <2>6, BasicTypes DEF Meant
  <2>8. t \in {Unit, Never} => has[d][Unit][c]
    BY <2>2, <2>5 DEF Meant
  <2> QED BY <2>7, <2>8 DEF d
<1> QED BY <1>1

LEMMA IfMeant ==
  ASSUME NEW T, NEW sub, NEW has, NEW nodes, Known(T, sub, has, nodes), NEW e \in NodesOver(T),
         e.k = "if", NEW x \in Expected, NEW c \in Contexts, Accepted(nodes, Resolve(sub, e, x, c))
  PROVE  MeantBy(has, e, c, Resolve(sub, e, x, c).t)
<1> DEFINE r == Resolve(sub, e, x, c)
           y  == BranchContext(e, x)
           ps == [i \in DOMAIN e.cs |-> Check(sub, e.cs[i], Bool, c)]
           bs == Branches(sub, e.a, e.a, y, c)
<1> SUFFICES MeantBy(has, e, c, r.t)
  OBVIOUS
<1>1. /\ r.ok /\ Valued(r.e) /\ CleanParts(nodes, r.e) /\ RegularAt(T, sub)
      /\ SoundAt(T, sub, has, nodes) /\ Proper(T)
  BY DEF Accepted, Known
<1>2. /\ \A i \in DOMAIN e.cs : Fine(T, sub, e.cs[i], Bool, c, ps[i]) /\ ps[i].t \in {Bool, Never}
      /\ BodiesFine(T, sub, e.a, y, c, bs, r.t)
      /\ y \in {x, Unit} /\ (y # Untyped => r.t \in {y, Never})
      /\ r.t \in Types /\ r.e = With(e, e.ty, Trees(ps), Trees(bs), r.t)
  BY <1>1, IfTaken
<1>3. DOMAIN ps = DOMAIN e.cs
  OBVIOUS
<1>4. /\ \A i \in DOMAIN e.a : e.a[i] \in T /\ e.a[i].k = "block" /\ Apt(e.a[i])
      /\ \A i \in DOMAIN e.cs : e.cs[i] \in T /\ Apt(e.cs[i])
  BY PartsOf, ExpressionsApt
<1>y. y = IF HasElse(e) THEN x ELSE Unit
  BY DEF BranchContext
<1> HIDE DEF r, y, ps, bs
<1>5. /\ r.e.k = "if" /\ r.e.r = r.t
      /\ DOMAIN r.e.cs = DOMAIN e.cs /\ \A i \in DOMAIN e.cs : r.e.cs[i] = ps[i].e
      /\ DOMAIN r.e.a = DOMAIN e.a /\ \A i \in DOMAIN e.a : r.e.a[i] = bs[i].e
  <2>1. r.e.k = e.k /\ r.e.r = r.t /\ r.e.cs = Trees(ps) /\ r.e.a = Trees(bs)
    BY <1>2, WithIs
  <2>2. DOMAIN bs = DOMAIN e.a
    BY <1>2 DEF BodiesFine
  <2> QED BY <1>3, <2>1, <2>2 DEF Trees
<1>6. ASSUME NEW i \in DOMAIN e.cs PROVE has[e.cs[i]][Bool][c]
  <2>1. Clean(nodes[ps[i].e])
    BY <1>1, <1>5 DEF CleanParts
  <2>2. Meant(has, e.cs[i], c, ps[i].t)
    BY <1>1, <1>2, <1>4, <2>1, PartMeant
  <2>3. ps[i].t \in ValueTypes
    <3>1. TypeOf(r.e.cs[i]) = ps[i].t
      BY <1>2, <1>5 DEF Fine
    <3> QED BY <1>1, <1>5, <3>1, ValuedConditions
  <2> QED BY <1>2, <2>2, <2>3, BasicTypes DEF Meant
<1>7. /\ r.t \in ValueTypes => \A i \in DOMAIN e.a : has[e.a[i]][r.t][c]
      /\ r.t \in {Unit, Never} => \A i \in DOMAIN e.a : has[e.a[i]][Unit][c]
  <2>1. CleanBranches(nodes, e.a, bs)
    BY <1>1, <1>5 DEF CleanParts, CleanBranches
  <2>2. r.t \in ValueTypes => EndInValues(e.a, bs)
    BY <1>1, <1>4, <1>5 DEF Valued, HasValues, EndInValues
  <2>3. BranchesIn(T, e.a)
    BY <1>4 DEF BranchesIn
  <2> QED BY <1>1, <1>2, <2>1, <2>2, <2>3, BranchesMeant
<1>8. r.t \in ValueTypes => HasElse(e)
  BY <1>2, <1>y, BasicTypes
<1>9. /\ r.t \in ValueTypes => Means(has, e, r.t, c)
      /\ r.t \in {Unit, Never} => Means(has, e, Unit, c)
  BY <1>6, <1>7, <1>8 DEF Means
<1> QED BY <1>9, NotLeaving DEF MeantBy

\* The cases of a switch that was accepted are exhaustive.
LEMMA CoversAll ==
  ASSUME NEW e, NEW u, LegalSwitch(e, u)
  PROVE  Exhaustive(e, u)
<1> SUFFICES ASSUME NEW v \in NamesOf(Enum[u.con])
             PROVE  LET mine == {i \in DOMAIN e.a : e.a[i].k = "case" /\ e.a[i].op = v}
                    IN  \/ \E i \in mine : mine = {i}
                        \/ mine = {} /\ Patterns(e) # DOMAIN e.a
  BY DEF Exhaustive
<1> DEFINE mine == {i \in DOMAIN e.a : e.a[i].k = "case" /\ e.a[i].op = v}
<1>1. \A i, j \in mine : i = j
  BY DEF LegalSwitch, Patterns
<1>2. mine # {} => \E i \in mine : mine = {i}
  <2> HIDE DEF mine
  <2> QED BY <1>1
<1>3. mine = {} => Patterns(e) # DOMAIN e.a
  <2> SUFFICES ASSUME mine = {} PROVE Patterns(e) # DOMAIN e.a
    OBVIOUS
  <2>1. Covers(e.a, u)
    BY DEF LegalSwitch
  <2>2. CASE \E i \in DOMAIN e.a : e.a[i].k = "default"
    BY <2>2 DEF Patterns
  <2>3. CASE NamesOf(Enum[u.con]) = {e.a[i].op : i \in DOMAIN e.a}
    <3>1. PICK i \in DOMAIN e.a : e.a[i].op = v
      BY <2>3
    <3>2. i \notin Patterns(e)
      BY <3>1 DEF Patterns
    <3> QED BY <3>2
  <2> QED BY <2>1, <2>2, <2>3 DEF Covers
<1> QED BY <1>2, <1>3

LEMMA SwitchMeant ==
  ASSUME NEW T, NEW sub, NEW has, NEW nodes, Known(T, sub, has, nodes), NEW e \in NodesOver(T),
         e.k = "switch", NEW x \in Expected, NEW c \in Contexts, Accepted(nodes, Resolve(sub, e, x, c))
  PROVE  MeantBy(has, e, c, Resolve(sub, e, x, c).t)
<1> DEFINE r == Resolve(sub, e, x, c)
           p  == Check(sub, e.cs[1], Untyped, c)
           bs == Branches(sub, e.a, Bodies(e), x, c)
<1> SUFFICES MeantBy(has, e, c, r.t)
  OBVIOUS
<1>1. /\ r.ok /\ Valued(r.e) /\ CleanParts(nodes, r.e) /\ RegularAt(T, sub)
      /\ SoundAt(T, sub, has, nodes) /\ Proper(T)
  BY DEF Accepted, Known
<1>2. /\ Fine(T, sub, e.cs[1], Untyped, c, p) /\ LegalSwitch(e, p.t)
      /\ BodiesFine(T, sub, e.a, x, c, bs, r.t) /\ e.a # << >>
      /\ r.t \in Types /\ r.e = With(e, p.t, <<p.e>>, Trees(bs), r.t)
  BY <1>1, SwitchTaken
<1>3. e.cs[1] \in T /\ Apt(e.cs[1])
  BY PartsOf, ExpressionsApt
<1> HIDE DEF r, p, bs
<1>4. \A i \in DOMAIN e.a : e.a[i] \in T /\ e.a[i].k \in {"case", "default"} /\ Apt(e.a[i])
  BY <1>2, PartsOf DEF Apt, LegalSwitch, Patterns, Fitting
<1>5. /\ r.e.k = "switch" /\ r.e.r = r.t /\ r.e.cs = <<p.e>>
      /\ DOMAIN r.e.a = DOMAIN e.a /\ \A i \in DOMAIN e.a : r.e.a[i] = bs[i].e
  <2>1. r.e.k = e.k /\ r.e.r = r.t /\ r.e.cs = <<p.e>> /\ r.e.a = Trees(bs)
    BY <1>2, WithIs
  <2>2. DOMAIN bs = DOMAIN e.a
    BY <1>2 DEF BodiesFine
  <2> QED BY <2>1, <2>2 DEF Trees
<1>6. p.t \in ValueTypes /\ has[e.cs[1]][p.t][c]
  <2>0. 1 \in DOMAIN r.e.cs /\ r.e.cs[1] = p.e
    BY <1>5
  <2>1. Clean(nodes[p.e])
    BY <1>1, <2>0 DEF CleanParts
  <2>2. Meant(has, e.cs[1], c, p.t)
    BY <1>1, <1>2, <1>3, <2>1, PartMeant
  <2>3. p.t \in ValueTypes
    <3>1. TypeOf(r.e.cs[1]) = p.t
      BY <1>2, <2>0 DEF Fine
    <3> QED BY <1>1, <1>5, <2>0, <3>1, ValuedConditions
  <2> QED BY <2>2, <2>3 DEF Meant
<1>7. /\ r.t \in ValueTypes => \A i \in DOMAIN e.a : has[e.a[i]][r.t][c]
      /\ r.t \in {Unit, Never} => \A i \in DOMAIN e.a : has[e.a[i]][Unit][c]
  <2>1. CleanBranches(nodes, e.a, bs)
    BY <1>1, <1>5 DEF CleanParts, CleanBranches
  <2>2. r.t \in ValueTypes => EndInValues(e.a, bs)
    BY <1>1, <1>4, <1>5 DEF Valued, HasValues, EndInValues
  <2>3. BranchesIn(T, e.a)
    BY <1>4 DEF BranchesIn
  <2> QED BY <1>1, <1>2, <2>1, <2>2, <2>3, BranchesMeant
<1>8. IsEnum(p.t) /\ Exhaustive(e, p.t) /\ \A i \in Patterns(e) : Fitting(e.a[i], p.t)
  BY <1>2, CoversAll DEF LegalSwitch
<1>9. /\ r.t \in ValueTypes => Means(has, e, r.t, c)
      /\ r.t \in {Unit, Never} => Means(has, e, Unit, c)
  BY <1>6, <1>7, <1>8 DEF Means
<1> QED BY <1>9, NotLeaving DEF MeantBy

-----------------------------------------------------------------------------
(* Sound. *)

LEMMA ResolveMeant ==
  ASSUME NEW T, NEW sub, NEW has, NEW nodes, Known(T, sub, has, nodes), NEW e \in NodesOver(T), Apt(e),
         NEW x \in Expected, NEW c \in Contexts, Accepted(nodes, Resolve(sub, e, x, c))
  PROVE  MeantBy(has, e, c, Resolve(sub, e, x, c).t)
<1>1. e.k \in OverOne =>
        e.k \in {"unary", "field", "try", "let", "assign", "named"} \/ e.k = "discard"
  BY DEF OverOne
<1> QED BY <1>1, KindsOfNodes, LeafMeant, JumpMeant, ReturnMeant, OneMeant, TwoMeant, ManyMeant, DiscardMeant,
           BlockMeant, CaseMeant, WhileMeant, IfMeant, SwitchMeant

LEMMA SeqListed ==
  ASSUME NEW S, NEW s \in Seq(S)
  PROVE  Listed(s)
BY DEF Listed

LEMMA TreesProper ==
  \A n \in Levels : Proper(TreesAt[n])
<1>1. \A S : \A d \in NodesOver(S) : d.n \in Nat /\ Listed(d.a)
  BY NodeIs, SeqListed
<1>2. \A n \in Levels : \A d \in TreesAt[n] : d.n \in Nat /\ Listed(d.a)
  BY <1>1, TreesAre
<1>3. ASSUME NEW n \in Levels, NEW d \in TreesAt[n], d.k \in {"case", "default"}
      PROVE  Listed(d.a[1].a)
  <2>1. n # 0 /\ d \in NodesOver(TreesAt[n - 1])
    BY <1>3, TreesAre
  <2>2. d.a[1] \in TreesAt[n - 1]
    BY <1>3, <2>1, PartsOf
  <2>3. n - 1 \in Levels
    BY <2>1, DepthIsNat DEF Levels
  <2> QED BY <1>2, <2>2, <2>3
<1> QED BY <1>2, <1>3 DEF Proper

LEMMA CheckerSound ==
  \A n \in Levels : SoundAt(TreesAt[n], Checker[n], HasType[n], Nodes[n])
<1> DEFINE K == {n \in Levels : SoundAt(TreesAt[n], Checker[n], HasType[n], Nodes[n])}
<1>1. 0 \in K
  BY TreesAre, DepthIsNat DEF SoundAt, Levels
<1>2. ASSUME NEW n \in Levels \ {0}, n - 1 \in K PROVE n \in K
  <2> DEFINE T == TreesAt[n - 1]
             sub == Checker[n - 1]
             has == HasType[n - 1]
             nodes == Nodes[n - 1]
             step == NodesStep(nodes, NodesOver(T))
             means == HasTypeStep(has, NodesOver(T))
  <2>1. /\ TreesAt[n] = NodesOver(T) /\ Checker[n] = CheckerStep(sub, NodesOver(T))
        /\ Nodes[n] = step /\ HasType[n] = means
    BY TreesAre, CheckerIs, NodesIs, HasTypeIs
  <2>2. Known(T, sub, has, nodes) /\ Renotable(T) /\ RegularAt(T, sub)
    <3>1. n - 1 \in Levels
      BY DepthIsNat DEF Levels
    <3> QED BY <1>2, <3>1, TreesRenotable, CheckerRegular, CheckerGood, TreesProper DEF Known
  <2>m. \A d \in NodesOver(T) : \A t \in Types, c \in Contexts : means[d][t][c] = Means(has, d, t, c)
    BY DEF HasTypeStep
  <2> HIDE DEF T, sub, nodes, has, means
  <2>3. ASSUME NEW d \in NodesOver(T), NEW x \in Expected, NEW c \in Contexts, Apt(d),
               Resolve(sub, d, x, c).ok, Clean(step[Resolve(sub, d, x, c).e])
        PROVE  Meant(means, d, c, Resolve(sub, d, x, c).t)
    <3> DEFINE r == Resolve(sub, d, x, c)
    <3>1. r.e \in NodesOver(T)
      BY <2>2, <2>3, ResolveRegular DEF Regular
    <3>2. Accepted(nodes, r)
      BY <2>3, <3>1, CleanOf DEF Accepted
    <3>3. MeantBy(has, d, c, r.t)
      BY <2>2, <2>3, <3>2, ResolveMeant
    <3> HIDE DEF r
    <3>4. \A t \in Types : means[d][t][c] = Means(has, d, t, c)
      BY <2>m
    <3>5. Unit \in Types /\ ValueTypes \subseteq Types
      BY GoodTypes, BasicTypes
    <3>6. Meant(means, d, c, r.t)
      BY <3>3, <3>4, <3>5 DEF Meant, MeantBy
    <3> QED BY <3>6 DEF r
  <2> HIDE DEF step
  <2>4. \A d \in NodesOver(T) : \A x \in Expected, c \in Contexts :
          CheckerStep(sub, NodesOver(T))[d][x][c] = Resolve(sub, d, x, c)
    BY DEF CheckerStep
  <2>5. SoundAt(NodesOver(T), CheckerStep(sub, NodesOver(T)), means, step)
    BY <2>3, <2>4 DEF SoundAt
  <2> QED BY <2>1, <2>5
<1> HIDE DEF K
<1>3. \A n \in Levels : n \in K
  BY <1>1, <1>2, LevelInduct
<1> QED BY <1>3 DEF K

-----------------------------------------------------------------------------
(* A function. *)

\* Where a function and its annotated tree stand.
LEMMA BodyChecked ==
  ASSUME NEW p \in Programs, Result(p.body, p).ok
  PROVE  LET r == Result(p.body, p)
         IN  /\ Depth \in Levels /\ Depth # 0 /\ Outside(p) \in Contexts /\ p.ret \in Expected
             /\ p.ret \in ValueTypes \cup {Unit} /\ p.body.k = "block" /\ Apt(p.body)
             /\ Body(TreesAt[Depth], Checker[Depth], p.body, p.ret, Outside(p), r)
             /\ p.body \in TreesAt[Depth] /\ r.t \in {p.ret, Never}
<1> DEFINE r == Result(p.body, p)
           g == Outside(p)
<1>1. p.body \in TreesAt[Depth] /\ p.body.k = "block" /\ p.ret \in ValueTypes \cup {Unit}
  BY TypingAssumption
<1>2. Depth \in Levels /\ Depth # 0
  BY <1>1, DepthIsNat, TreesAre DEF Levels
<1>3. p.ret \in Expected /\ p.ret # Untyped
  BY <1>1, BasicTypes
<1>4. g \in Contexts
  BY <1>1 DEF Contexts, Outside
<1>5. r = Checker[Depth][p.body][p.ret][g]
  BY DEF Result
<1>6. Apt(p.body)
  BY <1>1 DEF Apt
<1>7. RegularAt(TreesAt[Depth], Checker[Depth])
  BY <1>2, CheckerRegular
<1> HIDE DEF g
<1>8. Body(TreesAt[Depth], Checker[Depth], p.body, p.ret, g, r)
  BY <1>1, <1>3, <1>4, <1>5, <1>6, <1>7, CheckedBody
<1>9. r.t \in {p.ret, Never}
  BY <1>3, <1>8 DEF Body
<1> HIDE DEF r
<1> QED BY <1>1, <1>2, <1>3, <1>4, <1>6, <1>8, <1>9 DEF r, g

\* A function that was accepted has the type it declares.
LEMMA ResultSound ==
  ASSUME NEW p \in Programs, Result(p.body, p).ok, Clean(Nodes[Depth][Result(p.body, p).e]),
         p.ret # Unit => EndsInValue(Result(p.body, p).e)
  PROVE  HasType[Depth][p.body][p.ret][Outside(p)]
<1> DEFINE r == Result(p.body, p)
           g == Outside(p)
           T == TreesAt[Depth]
<1>1. /\ Depth \in Levels /\ g \in Contexts /\ p.ret \in ValueTypes \cup {Unit} /\ p.ret \in Expected
      /\ p.body.k = "block" /\ Apt(p.body) /\ p.body \in T
      /\ Body(T, Checker[Depth], p.body, p.ret, g, r) /\ r.t \in {p.ret, Never}
  BY BodyChecked
<1>2. Clean(Nodes[Depth][r.e]) /\ (p.ret # Unit => EndsInValue(r.e))
  OBVIOUS
<1> HIDE DEF r, g, T
<1>3. Meant(HasType[Depth], p.body, g, r.t)
  BY <1>1, <1>2, CheckerSound, BodyMeant DEF T
<1>4. CASE r.t = p.ret \/ p.ret = Unit
  BY <1>1, <1>3, <1>4, BasicTypes DEF Meant, g
<1>5. CASE r.t = Never /\ p.ret # Unit
  <2>1. r.e \in T /\ SameKinds(r.e.a, p.body.a) /\ r.t = BlockType(r.e)
    BY <1>1 DEF Body
  <2>2. Listed(p.body.a) /\ Listed(r.e.a)
    BY <1>1, <2>1, TreesProper DEF Proper, T
  <2>3. EndsInNever(p.body)
    BY <1>2, <1>5, <2>1, <2>2, NeverEndsInJump
  <2>4. p.ret \in Types /\ Leaves(p.body)
    BY <1>1, <1>5, <2>3, BasicTypes DEF Leaves
  <2> QED BY <1>3, <2>4 DEF Meant, g
<1> QED BY <1>1, <1>4, <1>5

\* What the tree is in each phase.
Annotating ==
  /\ program \in Programs
  /\ phase = "parsed" => tree = program.body
  /\ phase \in {"checked", "compiled", "refused"} =>
       Result(program.body, program).ok /\ tree = Result(program.body, program).e

LEMMA AnnotatingInvariant == Spec => []Annotating
<1>1. Init => Annotating
  BY DEF Init, Annotating
<1>2. Annotating /\ [Next]_vars => Annotating'
  <2> SUFFICES ASSUME Annotating, [Next]_vars PROVE Annotating'
    OBVIOUS
  <2>1. CASE CheckFunc
    <3> DEFINE res == Result(tree, program)
    <3>1. /\ phase = "parsed" /\ program' = program /\ tree = program.body /\ program \in Programs
          /\ phase' = IF res.ok THEN "checked" ELSE "rejected"
          /\ tree' = IF res.ok THEN res.e ELSE tree
      BY <2>1 DEF CheckFunc, Annotating
    <3>2. res = Result(program.body, program)
      BY <3>1
    <3>3. Result(program'.body, program') = res
      BY <3>1, <3>2
    <3>4. program' \in Programs
      BY <3>1
    <3> HIDE DEF res
    <3>5. phase' # "parsed" /\ (phase' \in {"checked", "compiled", "refused"} => res.ok /\ tree' = res.e)
      BY <3>1
    <3> QED BY <3>3, <3>4, <3>5 DEF Annotating
  <2>2. CASE Generate
    BY <2>2 DEF Generate, Annotating
  <2>3. CASE UNCHANGED vars
    BY <2>3 DEF vars, Annotating
  <2> QED BY <2>1, <2>2, <2>3 DEF Next
<1> QED BY <1>1, <1>2, PTL DEF Spec

\* The checker accepts only functions that have the type they declare, by the
\* rules of the language.
THEOREM AcceptedIsTyped == Spec => []Sound
<1>1. Annotating => Sound
  <2> SUFFICES ASSUME Annotating, phase = "checked", UsesValues, SimpleLiterals
               PROVE  HasType[Depth][program.body][program.ret][Outside(program)]
    BY DEF Sound
  <2>1. program \in Programs /\ Result(program.body, program).ok /\ tree = Result(program.body, program).e
    BY DEF Annotating
  <2>2. Clean(Nodes[Depth][tree]) /\ (program.ret # Unit => EndsInValue(tree))
    BY DEF Clean, UsesValues, SimpleLiterals
  <2> QED BY <2>1, <2>2, ResultSound
<1> QED BY <1>1, AnnotatingInvariant, PTL

-----------------------------------------------------------------------------
(***************************************************************************)
(* What the generator makes of an annotated node.  A node that has a value *)
(* fits where the type goes; every node can be emitted for its effect; a    *)
(* branch that leaves has left.                                             *)
(***************************************************************************)
EmittedAs(gen, f, c, t) ==
  /\ t \in ValueTypes => Fits(Value(gen, f, c, FALSE), t, FALSE)
  /\ Runs(gen, f, c, FALSE)
  /\ Leaves(f) /\ ~Diverging(f) => Value(gen, f, c, FALSE) = Left

EmittedBy(gen, f, c, t) ==
  /\ t \in ValueTypes => Fits(GenValue(gen, f, c, FALSE), t, FALSE)
  /\ GenStmt(gen, f, c, FALSE)
  /\ Leaves(f) /\ ~Diverging(f) => GenValue(gen, f, c, FALSE) = Left

ComparesWell(f) == f.k = "binary" /\ f.op = "==" => Comparable(f.r)
Emittable(S) == \A f \in S : Valued(f) /\ ComparesWell(f)
EmittableParts(nodes, f) ==
  /\ \A i \in DOMAIN f.a : Emittable(nodes[f.a[i]])
  /\ \A i \in DOMAIN f.cs : Emittable(nodes[f.cs[i]])

EmitsAt(T, sub, gen, nodes) ==
  \A d \in T : \A x \in Good \cup {Untyped}, c \in Contexts :
    Apt(d) /\ sub[d][x][c].ok /\ Emittable(nodes[sub[d][x][c].e])
      => EmittedAs(gen, sub[d][x][c].e, c, sub[d][x][c].t)

\* A literal is its token, annotated or not.
LiteralsAt(T, gen) ==
  \A d \in T : \A c \in Contexts, ranged \in BOOLEAN :
    d.k = "int" => Value(gen, d, c, ranged) = LitOperand(d.n)

Trusted(T, sub, gen, nodes) ==
  /\ Proper(T) /\ LiteralsAt(T, gen)
  /\ RegularAt(T, sub) /\ GoodAt(T, sub, nodes) /\ EmitsAt(T, sub, gen, nodes)
Offered(nodes, r) == r.ok /\ Valued(r.e) /\ ComparesWell(r.e) /\ EmittableParts(nodes, r.e)

LEMMA EmittableOf ==
  ASSUME NEW T, NEW e \in NodesOver(T), NEW nodes, Emittable(NodesStep(nodes, NodesOver(T))[e])
  PROVE  Valued(e) /\ ComparesWell(e) /\ EmittableParts(nodes, e)
<1>1. Valued(e) /\ ComparesWell(e)
  BY NodesOfParts DEF Emittable
<1>2. ASSUME NEW i \in DOMAIN e.a PROVE Emittable(nodes[e.a[i]])
  BY NodesOfParts DEF Emittable
<1>3. ASSUME NEW i \in DOMAIN e.cs PROVE Emittable(nodes[e.cs[i]])
  BY NodesOfParts DEF Emittable
<1> QED BY <1>1, <1>2, <1>3 DEF EmittableParts

LEMMA EmittableIsValued ==
  ASSUME NEW S, Emittable(S)
  PROVE  AllValued(S)
BY DEF Emittable, AllValued

LEMMA PartEmitted ==
  ASSUME NEW T, NEW sub, NEW gen, NEW nodes, EmitsAt(T, sub, gen, nodes), NEW d \in T, Apt(d),
         NEW y \in Good \cup {Untyped}, NEW c \in Contexts, NEW p, Fine(T, sub, d, y, c, p), Emittable(nodes[p.e])
  PROVE  EmittedAs(gen, p.e, c, p.t)
<1>1. p = sub[d][y][c] /\ p.ok
  BY DEF Fine
<1> QED BY <1>1 DEF EmitsAt

LEMMA BodyEmitted ==
  ASSUME NEW T, NEW sub, NEW gen, NEW nodes, EmitsAt(T, sub, gen, nodes), NEW d \in T, Apt(d),
         NEW y \in Good \cup {Untyped}, NEW c \in Contexts, NEW p, Body(T, sub, d, y, c, p), Emittable(nodes[p.e])
  PROVE  EmittedAs(gen, p.e, c, p.t)
<1>1. p = sub[d][y][c] /\ p.ok
  BY DEF Body
<1> QED BY <1>1 DEF EmitsAt

LEMMA OneEmitted ==
  ASSUME NEW T, NEW sub, NEW gen, NEW nodes, EmitsAt(T, sub, gen, nodes), NEW e \in NodesOver(T),
         e.k \in OverOne \cup {"return"}, e.k # "discard", e.a[1] \in T, e.a[1].k \in Expression,
         NEW y \in Good \cup {Untyped}, NEW c \in Contexts, NEW p, Fine(T, sub, e.a[1], y, c, p),
         NEW r, NEW f, f = Annotated(e, <<p.e>>, r), Valued(f), EmittableParts(nodes, f)
  PROVE  p.t \in ValueTypes /\ Fits(Value(gen, p.e, c, FALSE), p.t, FALSE)
<1>1. f.a[1] = p.e /\ DOMAIN f.a = {1}
  BY OneAnnotated
<1>2. p.t \in ValueTypes
  <2>1. e.k \notin {"if", "switch", "case", "default", "while", "block", "discard"}
    BY DEF OverOne
  <2>2. TypeOf(p.e) = p.t
    BY DEF Fine
  <2> QED BY <2>1, <2>2, OneValued
<1>3. Emittable(nodes[p.e])
  BY <1>1 DEF EmittableParts
<1>4. EmittedAs(gen, p.e, c, p.t)
  BY <1>3, PartEmitted, ExpressionsApt
<1> QED BY <1>2, <1>4 DEF EmittedAs

LEMMA TwoEmitted ==
  ASSUME NEW T, NEW sub, NEW gen, NEW nodes, EmitsAt(T, sub, gen, nodes), NEW e \in NodesOver(T),
         e.k \in {"binary", "tuple"}, NEW y \in Good \cup {Untyped}, NEW z \in Good \cup {Untyped},
         NEW c \in Contexts, NEW p, NEW q, Fine(T, sub, e.a[1], y, c, p), Fine(T, sub, e.a[2], z, c, q),
         NEW r, NEW f, f = Annotated(e, <<p.e, q.e>>, r), Valued(f), EmittableParts(nodes, f)
  PROVE  /\ p.t \in ValueTypes /\ Fits(Value(gen, p.e, c, FALSE), p.t, FALSE)
         /\ q.t \in ValueTypes /\ Fits(Value(gen, q.e, c, FALSE), q.t, FALSE)
<1>0. {e.a[1], e.a[2]} \subseteq T /\ Apt(e.a[1]) /\ Apt(e.a[2])
  BY PartsOf, ExpressionsApt
<1>1. f.a[1] = p.e /\ f.a[2] = q.e /\ DOMAIN f.a = {1, 2}
  BY TwoAnnotated
<1>2. TypeOf(p.e) = p.t /\ TypeOf(q.e) = q.t
  BY DEF Fine
<1>3. p.t \in ValueTypes /\ q.t \in ValueTypes
  BY <1>2, TwoValued
<1>4. Emittable(nodes[p.e]) /\ Emittable(nodes[q.e])
  BY <1>1 DEF EmittableParts
<1>5. EmittedAs(gen, p.e, c, p.t)
  BY <1>0, <1>4, PartEmitted
<1>6. EmittedAs(gen, q.e, c, q.t)
  BY <1>0, <1>4, PartEmitted
<1> QED BY <1>3, <1>5, <1>6 DEF EmittedAs

LEMMA ManyEmitted ==
  ASSUME NEW T, NEW sub, NEW gen, NEW nodes, EmitsAt(T, sub, gen, nodes), NEW e \in NodesOver(T),
         e.k \in {"list", "call", "struct", "variant"}, NEW c \in Contexts,
         NEW rs, DOMAIN rs = DOMAIN e.a,
         \A i \in DOMAIN e.a : \E y \in Good \cup {Untyped} : Fine(T, sub, e.a[i], y, c, rs[i]),
         NEW r, NEW f, f = Annotated(e, Trees(rs), r), Valued(f), EmittableParts(nodes, f)
  PROVE  \A i \in DOMAIN e.a : rs[i].t \in ValueTypes /\ Fits(Value(gen, rs[i].e, c, FALSE), rs[i].t, FALSE)
<1>1. DOMAIN f.a = DOMAIN e.a /\ \A i \in DOMAIN e.a : f.a[i] = rs[i].e
  BY ManyAnnotated
<1>2. \A i \in DOMAIN e.a : TypeOf(rs[i].e) = rs[i].t
  BY DEF Fine
<1>3. \A i \in DOMAIN e.a : rs[i].t \in ValueTypes
  BY <1>2, ManyValued
<1>4. ASSUME NEW i \in DOMAIN e.a PROVE Fits(Value(gen, rs[i].e, c, FALSE), rs[i].t, FALSE)
  <2>1. e.a[i] \in T /\ Apt(e.a[i])
    BY PartsOf, ExpressionsApt
  <2>2. Emittable(nodes[rs[i].e])
    BY <1>1 DEF EmittableParts
  <2>3. PICK y \in Good \cup {Untyped} : Fine(T, sub, e.a[i], y, c, rs[i])
    OBVIOUS
  <2>4. EmittedAs(gen, rs[i].e, c, rs[i].t)
    BY <2>1, <2>2, <2>3, PartEmitted
  <2> QED BY <1>3, <2>4 DEF EmittedAs
<1> QED BY <1>3, <1>4

\* A variable fits where its type goes, and is there.
LEMMA OperandFits ==
  \A t, ranged : Fits(VarOperand(t), t, ranged) /\ VarOperand(t).ok /\ ~VarOperand(t).lit /\ VarOperand(t).t = t
BY DEF Fits, VarOperand

LEMMA LiteralFits ==
  /\ \A n : LitOperand(n).ok /\ LitOperand(n).lit /\ LitOperand(n).n = n
  /\ \A n, t : IsInt(t) => Fits(LitOperand(n), t, FALSE)
<1>1. \A n : LitOperand(n).ok /\ LitOperand(n).lit /\ LitOperand(n).n = n
  BY DEF LitOperand
<1>2. ASSUME NEW n, NEW t, IsInt(t) PROVE Fits(LitOperand(n), t, FALSE)
  BY <1>1, <1>2 DEF Fits
<1> QED BY <1>1, <1>2

LEMMA GivenIs ==
  \A legal, o : legal => Given(legal, o) = o
BY DEF Given

\* A node whose value is a variable of its type.
LEMMA EmittedValue ==
  ASSUME NEW gen, NEW f, NEW c, NEW t, ~Leaves(f),
         GenValue(gen, f, c, FALSE) = VarOperand(t),
         f.k \in {"unary", "binary", "list", "struct", "variant", "tuple", "field", "named"}
  PROVE  EmittedBy(gen, f, c, t)
<1>1. GenStmt(gen, f, c, FALSE) = GenValue(gen, f, c, FALSE).ok
  BY DEF GenStmt
<1> QED BY <1>1, OperandFits DEF EmittedBy

LEMMA LeafEmitted ==
  ASSUME NEW T, NEW sub, NEW gen, NEW nodes, Trusted(T, sub, gen, nodes), NEW e \in NodesOver(T),
         e.k \in {"int", "var", "bound"}, NEW x \in Good \cup {Untyped}, NEW c \in Contexts,
         Offered(nodes, Resolve(sub, e, x, c))
  PROVE  EmittedBy(gen, Resolve(sub, e, x, c).e, c, Resolve(sub, e, x, c).t)
<1> DEFINE r == Resolve(sub, e, x, c)
           f == r.e
<1> SUFFICES EmittedBy(gen, f, c, r.t)
  OBVIOUS
<1>1. r.ok /\ x \in Expected
  BY GoodTypes DEF Offered
<1>2. \A t : r.e = Annotated(e, e.a, t) => f.k = e.k /\ f.op = e.op /\ f.n = e.n /\ f.ty = e.ty /\ f.r = t
  BY WithIs DEF Annotated
<1>3. CASE e.k = "int"
  <2>1. IsInt(r.t) /\ r.e = Annotated(e, e.a, r.t)
    BY <1>1, <1>3, IntTaken
  <2>2. f.k = "int"
    BY <1>2, <1>3, <2>1
  <2> HIDE DEF r, f
  <2>3. GenValue(gen, f, c, FALSE) = LitOperand(f.n) /\ GenStmt(gen, f, c, FALSE)
    BY <2>2 DEF GenValue, GenStmt
  <2>4. Fits(GenValue(gen, f, c, FALSE), r.t, FALSE)
    BY <2>1, <2>3, LiteralFits
  <2> QED BY <2>2, <2>3, <2>4, NotLeaving DEF EmittedBy
<1>4. CASE e.k = "var"
  <2>1. r.t = e.ty /\ r.e = Annotated(e, e.a, e.ty)
    BY <1>1, <1>4, VarTaken
  <2>2. f.k = "var" /\ f.ty = r.t
    BY <1>2, <1>4, <2>1
  <2> HIDE DEF r, f
  <2>3. GenValue(gen, f, c, FALSE) = VarOperand(r.t) /\ GenStmt(gen, f, c, FALSE)
    BY <2>2 DEF GenValue, GenStmt
  <2> QED BY <2>2, <2>3, NotLeaving, OperandFits DEF EmittedBy
<1>5. CASE e.k = "bound"
  <2>1. e.op \in Bindable /\ r.t = c.bound[e.op] /\ r.t \in ValueTypes /\ r.e = Annotated(e, e.a, r.t)
    BY <1>1, <1>5, BoundTaken
  <2>2. f.k = "bound" /\ f.op = e.op
    BY <1>2, <1>5, <2>1
  <2> HIDE DEF r, f
  <2>3. c.bound[f.op] # Untyped /\ f.op \in Bindable /\ c.bound[f.op] = r.t
    BY <2>1, <2>2, BasicTypes
  <2>4. GenValue(gen, f, c, FALSE) = VarOperand(r.t) /\ GenStmt(gen, f, c, FALSE)
    BY <2>2, <2>3 DEF GenValue, GenStmt, Given
  <2> QED BY <2>2, <2>4, NotLeaving, OperandFits DEF EmittedBy
<1> QED BY <1>3, <1>4, <1>5

LEMMA JumpEmitted ==
  ASSUME NEW T, NEW sub, NEW gen, NEW nodes, Trusted(T, sub, gen, nodes), NEW e \in NodesOver(T),
         e.k \in {"break", "continue"} \/ (e.k = "return" /\ e.a = << >>),
         NEW x \in Good \cup {Untyped}, NEW c \in Contexts, Offered(nodes, Resolve(sub, e, x, c))
  PROVE  EmittedBy(gen, Resolve(sub, e, x, c).e, c, Resolve(sub, e, x, c).t)
<1> DEFINE r == Resolve(sub, e, x, c)
<1>1. r.ok
  BY DEF Offered
<1>2. Diverging(e)
  BY DEF Diverging
<1>3. r.t = Never /\ r.e = e /\ GenStmt(gen, e, c, FALSE)
  <2>1. CASE e.k \in {"break", "continue"}
    <3>1. c.loop > 0 /\ r = Typed(Never, e)
      BY <1>1, <2>1, JumpTaken
    <3>2. GenStmt(gen, e, c, FALSE)
      BY <2>1, <3>1 DEF GenStmt
    <3> HIDE DEF r
    <3> QED BY <3>1, <3>2, BadIsBad
  <2>2. CASE e.k = "return" /\ e.a = << >>
    <3>1. c.ret = Unit /\ r = Typed(Never, e)
      BY <1>1, <2>2, EmptyReturnTaken
    <3> QED BY <2>2, <3>1, BadIsBad DEF GenStmt
  <2> QED BY <2>1, <2>2
<1> HIDE DEF r
<1> QED BY <1>2, <1>3, BasicTypes DEF EmittedBy, r

LEMMA ReturnEmitted ==
  ASSUME NEW T, NEW sub, NEW gen, NEW nodes, Trusted(T, sub, gen, nodes), NEW e \in NodesOver(T),
         e.k = "return", e.a # << >>, NEW x \in Good \cup {Untyped}, NEW c \in Contexts,
         Offered(nodes, Resolve(sub, e, x, c))
  PROVE  EmittedBy(gen, Resolve(sub, e, x, c).e, c, Resolve(sub, e, x, c).t)
<1> DEFINE r == Resolve(sub, e, x, c)
           p == Check(sub, e.a[1], c.ret, c)
           f == r.e
<1>1. /\ r.ok /\ Valued(f) /\ EmittableParts(nodes, f) /\ RegularAt(T, sub) /\ EmitsAt(T, sub, gen, nodes)
      /\ x \in Expected
  BY GoodTypes DEF Offered, Trusted
<1>2. /\ Fine(T, sub, e.a[1], c.ret, c, p) /\ p.t \in {c.ret, Never} /\ r.t = Never
      /\ r.e = Annotated(e, <<p.e>>, p.t)
  BY <1>1, ReturnTaken
<1>3. e.a[1] \in T /\ e.a[1].k \in Expression /\ c.ret \in Good \cup {Untyped}
  BY ReturnPart DEF Contexts, Good
<1>4. f.k = "return" /\ f.a = <<p.e>>
  BY <1>2, OneAnnotated
<1> HIDE DEF r, p
<1>5. p.t \in ValueTypes /\ Fits(Value(gen, p.e, c, FALSE), p.t, FALSE)
  BY <1>1, <1>2, <1>3, OneEmitted
<1>6. Fits(Value(gen, p.e, c, FALSE), c.ret, FALSE)
  BY <1>2, <1>5, BasicTypes
<1>7. GenStmt(gen, f, c, FALSE)
  <2>1. f.a # << >> /\ f.a[1] = p.e
    BY <1>4
  <2> HIDE DEF f
  <2> QED BY <1>4, <1>6, <2>1 DEF GenStmt
<1>8. Diverging(f)
  BY <1>4 DEF Diverging
<1> HIDE DEF f
<1> QED BY <1>2, <1>7, <1>8, BasicTypes DEF EmittedBy, f, r

\* A node over one part.
LEMMA OneEmits ==
  ASSUME NEW T, NEW sub, NEW gen, NEW nodes, Trusted(T, sub, gen, nodes), NEW e \in NodesOver(T),
         e.k \in {"unary", "field", "try", "let", "assign", "named"},
         NEW x \in Good \cup {Untyped}, NEW c \in Contexts, Offered(nodes, Resolve(sub, e, x, c))
  PROVE  EmittedBy(gen, Resolve(sub, e, x, c).e, c, Resolve(sub, e, x, c).t)
<1> DEFINE r == Resolve(sub, e, x, c)
           d == e.a[1]
           f == r.e
<1> SUFFICES EmittedBy(gen, f, c, r.t)
  OBVIOUS
<1>1. /\ r.ok /\ Valued(f) /\ EmittableParts(nodes, f)
      /\ RegularAt(T, sub) /\ EmitsAt(T, sub, gen, nodes) /\ LiteralsAt(T, gen) /\ x \in Expected
  BY GoodTypes DEF Offered, Trusted
<1>2. e.k \in OverOne \cup {"return"} /\ e.k # "discard" /\ d \in T /\ d.k \in Expression
  BY PartsOf DEF OverOne
<1>3. ASSUME NEW p, NEW y \in Good \cup {Untyped}, NEW t, Fine(T, sub, d, y, c, p), f = Annotated(e, <<p.e>>, t)
      PROVE  /\ p.t \in ValueTypes /\ Fits(Value(gen, p.e, c, FALSE), p.t, FALSE)
             /\ f.k = e.k /\ f.op = e.op /\ f.ty = e.ty /\ f.r = t /\ f.a[1] = p.e /\ ~Leaves(f)
  <2>1. f.k = e.k /\ f.op = e.op /\ f.ty = e.ty /\ f.r = t /\ f.a[1] = p.e
    <3> HIDE DEF f
    <3> QED BY <1>3, OneAnnotated
  <2> HIDE DEF r, f
  <2>2. ~Leaves(f)
    BY <2>1, NotLeaving
  <2> QED BY <1>1, <1>2, <1>3, <2>1, <2>2, OneEmitted
<1>4. e.k = "unary" => e.op \in {"!", "-"}
  BY NodeIs DEF Shaped
<1>5. Bool \in Good /\ Bool \in ValueTypes /\ e.ty \in Expected
  BY GoodTypes, BasicTypes, NodeIs
<1>6. CASE e.k = "unary" /\ e.op = "!"
  <2> DEFINE p == Check(sub, d, Bool, c)
  <2>1. Fine(T, sub, d, Bool, c, p) /\ p.t \in {Bool, Never} /\ r.t = Bool /\ r.e = Annotated(e, <<p.e>>, Bool)
    BY <1>1, <1>6, NotTaken
  <2> DEFINE v == Value(gen, p.e, c, FALSE)
  <2> HIDE DEF r, p, f
  <2>2. /\ p.t \in ValueTypes /\ Fits(v, p.t, FALSE)
        /\ f.k = "unary" /\ f.op = "!" /\ f.r = Bool /\ f.a[1] = p.e /\ ~Leaves(f)
    BY <1>3, <1>5, <1>6, <2>1 DEF f
  <2>3. Fits(v, f.r, FALSE)
    BY <2>1, <2>2, BasicTypes
  <2>4. GenValue(gen, f, c, FALSE) = Negated(f, v, FALSE)
    BY <2>2 DEF GenValue
  <2> HIDE DEF v
  <2>5. Negated(f, v, FALSE) = VarOperand(Bool)
    BY <2>2, <2>3 DEF Negated, Given
  <2> QED BY <2>1, <2>2, <2>4, <2>5, EmittedValue
<1>7. CASE e.k = "unary" /\ e.op = "-" /\ IsLit(d)
  <2>1. IsInt(r.t) /\ r.t \in ValueTypes /\ r.e = Annotated(e, e.a, r.t)
    BY <1>1, <1>7, MinusLiteralTaken
  <2>2. f.k = "unary" /\ f.op = "-" /\ f.a[1] = d
    BY <1>7, <2>1, WithIs DEF Annotated
  <2>3. Value(gen, d, c, FALSE) = LitOperand(d.n)
    BY <1>1, <1>2, <1>7 DEF LiteralsAt, IsLit
  <2> HIDE DEF r, f
  <2>4. GenValue(gen, f, c, FALSE) = Negated(f, LitOperand(d.n), FALSE)
    BY <2>2, <2>3 DEF GenValue
  <2>5. GenValue(gen, f, c, FALSE) = LitOperand(-d.n)
    BY <2>2, <2>4, LiteralFits DEF Negated
  <2>6. GenStmt(gen, f, c, FALSE)
    BY <2>2, <2>5, LiteralFits DEF GenStmt
  <2>7. Fits(GenValue(gen, f, c, FALSE), r.t, FALSE)
    BY <2>1, <2>5, LiteralFits
  <2>8. ~Leaves(f)
    BY <2>2, NotLeaving
  <2> QED BY <2>6, <2>7, <2>8 DEF EmittedBy
<1>8. CASE e.k = "unary" /\ e.op = "-" /\ ~IsLit(d)
  <2> DEFINE p == Check(sub, d, x, c)
  <2>1. Fine(T, sub, d, x, c, p) /\ IsInt(p.t) /\ r.t = p.t /\ r.e = Annotated(e, <<p.e>>, p.t)
    BY <1>1, <1>8, MinusTaken
  <2> DEFINE v == Value(gen, p.e, c, FALSE)
  <2> HIDE DEF r, p, f
  <2>2. /\ p.t \in ValueTypes /\ Fits(v, p.t, FALSE)
        /\ f.k = "unary" /\ f.op = "-" /\ f.r = p.t /\ f.a[1] = p.e /\ ~Leaves(f)
    BY <1>3, <1>8, <2>1 DEF f
  <2>3. GenValue(gen, f, c, FALSE) = Negated(f, v, FALSE)
    BY <2>2 DEF GenValue
  <2> HIDE DEF v
  <2>4. v.ok
    BY <2>2 DEF Fits
  <2>5. CASE v.lit
    <3>1. GenValue(gen, f, c, FALSE) = LitOperand(-v.n)
      BY <2>2, <2>3, <2>4, <2>5 DEF Negated
    <3>2. GenStmt(gen, f, c, FALSE)
      BY <2>2, <3>1, LiteralFits DEF GenStmt
    <3>3. Fits(GenValue(gen, f, c, FALSE), r.t, FALSE)
      BY <2>1, <3>1, LiteralFits
    <3> QED BY <2>2, <3>2, <3>3 DEF EmittedBy
  <2>6. CASE ~v.lit
    <3>1. Negated(f, v, FALSE) = VarOperand(p.t)
      BY <2>2, <2>6 DEF Negated, Given
    <3> QED BY <2>1, <2>2, <2>3, <3>1, EmittedValue
  <2> QED BY <2>5, <2>6
<1>9. CASE e.k = "named"
  <2> DEFINE p == Check(sub, d, x, c)
  <2>1. Fine(T, sub, d, x, c, p) /\ r.t = p.t /\ r.e = Annotated(e, <<p.e>>, p.t)
    BY <1>1, <1>9, NamedTaken
  <2> DEFINE v == Value(gen, p.e, c, FALSE)
  <2> HIDE DEF r, p, f
  <2>2. p.t \in ValueTypes /\ Fits(v, p.t, FALSE) /\ f.k = "named" /\ f.a[1] = p.e /\ ~Leaves(f)
    BY <1>3, <1>9, <2>1 DEF f
  <2>3. GenValue(gen, f, c, FALSE) = v
    BY <2>2 DEF GenValue
  <2> HIDE DEF v
  <2>4. GenStmt(gen, f, c, FALSE)
    BY <2>2, <2>3 DEF GenStmt, Fits
  <2> QED BY <2>1, <2>2, <2>3, <2>4 DEF EmittedBy
<1>10. CASE e.k = "field"
  <2> DEFINE p == Check(sub, d, Untyped, c)
  <2>1. /\ Fine(T, sub, d, Untyped, c, p) /\ r.e = Annotated(e, <<p.e>>, r.t)
        /\ e.op \in NamesOf(Readable(p.t)) /\ r.t = TypeIn(Readable(p.t), e.op)
    BY <1>1, <1>10, FieldTaken
  <2> DEFINE v == Value(gen, p.e, c, FALSE)
  <2> HIDE DEF r, p, f
  <2>2. /\ p.t \in ValueTypes /\ Fits(v, p.t, FALSE)
        /\ f.k = "field" /\ f.op = e.op /\ f.r = r.t /\ f.a[1] = p.e /\ ~Leaves(f)
    BY <1>3, <1>10, <2>1 DEF f
  <2>3. ~IsInt(p.t)
    <3>1. Readable(p.t) # << >>
      BY <2>1 DEF NamesOf
    <3>2. IsStruct(p.t) \/ IsTuple(p.t)
      BY <3>1 DEF Readable
    <3> QED BY <3>2, DeclaredAssumption DEF IsStruct, IsTuple, IsInt, Basic, Signed, Unsigned
  <2>4. v.ok /\ v.t = p.t
    BY <2>2, <2>3 DEF Fits
  <2>5. GenValue(gen, f, c, FALSE) =
          Given(v.ok /\ f.op \in NamesOf(Readable(v.t)) /\ TypeIn(Readable(v.t), f.op) = f.r, VarOperand(f.r))
    BY <2>2 DEF GenValue
  <2>6. GenValue(gen, f, c, FALSE) = VarOperand(r.t)
    BY <2>1, <2>2, <2>4, <2>5 DEF Given
  <2> QED BY <2>2, <2>6, EmittedValue
<1>11. CASE e.k = "try"
  <2> DEFINE p == Check(sub, d, Untyped, c)
  <2>1. /\ Fine(T, sub, d, Untyped, c, p) /\ r.e = Annotated(e, <<p.e>>, r.t)
        /\ p.t = ErrorT \/ IsFallible(p.t)
        /\ c.ret = ErrorT \/ IsFallible(c.ret)
        /\ r.t = IF p.t = ErrorT THEN Unit ELSE p.t.fst
    BY <1>1, <1>11, TryTaken
  <2> DEFINE v == Value(gen, p.e, c, FALSE)
  <2> HIDE DEF r, p, f
  <2>2. /\ p.t \in ValueTypes /\ Fits(v, p.t, FALSE) /\ p.t \in Types
        /\ f.k = "try" /\ f.r = r.t /\ f.a[1] = p.e /\ ~Leaves(f)
    BY <1>3, <1>11, <2>1, BasicTypes DEF f
  <2>3. p.t # ErrorT => r.t \in ValueTypes /\ p.t = Pair(r.t, ErrorT)
    BY <2>1, <2>2, PairTypes DEF IsFallible
  <2>4. p.t = IF r.t = Unit THEN ErrorT ELSE Pair(r.t, ErrorT)
    BY <2>1, <2>3, BasicTypes
  <2>5. Tried(gen, f, c, FALSE)
    BY <2>1, <2>2, <2>4 DEF Tried
  <2>6. GenStmt(gen, f, c, FALSE)
    BY <2>2, <2>5 DEF GenStmt
  <2>7. r.t # Unit => GenValue(gen, f, c, FALSE) = VarOperand(r.t)
    BY <2>2, <2>5 DEF GenValue, Given
  <2>8. r.t \in ValueTypes => Fits(GenValue(gen, f, c, FALSE), r.t, FALSE)
    BY <2>7, OperandFits, BasicTypes
  <2> QED BY <2>2, <2>6, <2>8 DEF EmittedBy
<1>12. CASE e.k = "let"
  <2> DEFINE p == Check(sub, d, e.ty, c)
  <2>1. Fine(T, sub, d, e.ty, c, p) /\ r.t = Unit /\ r.e = Annotated(e, <<p.e>>, p.t)
    BY <1>1, <1>12, LetTaken
  <2>0. e.ty \in Good \cup {Untyped}
    BY <1>12, NodeIs, GoodTypes DEF Shaped
  <2> DEFINE v == Value(gen, p.e, c, FALSE)
  <2> HIDE DEF r, p, f
  <2>2. /\ p.t \in ValueTypes /\ Fits(v, p.t, FALSE)
        /\ f.k = "let" /\ f.r = p.t /\ f.a[1] = p.e /\ ~Leaves(f)
    BY <1>3, <1>12, <2>0, <2>1 DEF f
  <2>3. GenStmt(gen, f, c, FALSE)
    BY <2>2 DEF GenStmt, HasValues
  <2> QED BY <2>1, <2>2, <2>3, BasicTypes DEF EmittedBy
<1>13. CASE e.k = "assign"
  <2> DEFINE p == Check(sub, d, e.ty, c)
  <2>1. Fine(T, sub, d, e.ty, c, p) /\ p.t = e.ty /\ r.t = Unit /\ r.e = Annotated(e, <<p.e>>, p.t)
    BY <1>1, <1>13, AssignTaken
  <2>0. e.ty \in Good \cup {Untyped}
    BY <1>13, NodeIs, GoodTypes DEF Shaped
  <2> DEFINE v == Value(gen, p.e, c, FALSE)
  <2> HIDE DEF r, p, f
  <2>2. /\ p.t \in ValueTypes /\ Fits(v, p.t, FALSE)
        /\ f.k = "assign" /\ f.ty = p.t /\ f.a[1] = p.e /\ ~Leaves(f)
    BY <1>3, <1>13, <2>0, <2>1 DEF f
  <2>3. GenStmt(gen, f, c, FALSE)
    BY <2>2 DEF GenStmt
  <2> QED BY <2>1, <2>2, <2>3, BasicTypes DEF EmittedBy
<1> HIDE DEF r, d, f
<1> QED BY <1>4, <1>6, <1>7, <1>8, <1>9, <1>10, <1>11, <1>12, <1>13

\* A part that was accepted where a good type, or none, was expected.
FineHere(T, sub, d, c, p) == \E y \in Good \cup {Untyped} : Fine(T, sub, d, y, c, p)

\* A node over two parts.
LEMMA TwoEmits ==
  ASSUME NEW T, NEW sub, NEW gen, NEW nodes, Trusted(T, sub, gen, nodes), NEW e \in NodesOver(T),
         e.k \in {"binary", "tuple"}, NEW x \in Good \cup {Untyped}, NEW c \in Contexts,
         Offered(nodes, Resolve(sub, e, x, c))
  PROVE  EmittedBy(gen, Resolve(sub, e, x, c).e, c, Resolve(sub, e, x, c).t)
<1> DEFINE r == Resolve(sub, e, x, c)
           f == r.e
<1> SUFFICES EmittedBy(gen, f, c, r.t)
  OBVIOUS
<1>1. /\ r.ok /\ Valued(f) /\ ComparesWell(f) /\ EmittableParts(nodes, f)
      /\ RegularAt(T, sub) /\ EmitsAt(T, sub, gen, nodes) /\ x \in Expected
  BY GoodTypes DEF Offered, Trusted
<1>2. ASSUME NEW p, NEW q, NEW t,
             FineHere(T, sub, e.a[1], c, p), FineHere(T, sub, e.a[2], c, q), f = Annotated(e, <<p.e, q.e>>, t)
      PROVE  /\ p.t \in ValueTypes /\ Fits(Value(gen, p.e, c, FALSE), p.t, FALSE)
             /\ q.t \in ValueTypes /\ Fits(Value(gen, q.e, c, FALSE), q.t, FALSE)
             /\ f.k = e.k /\ f.op = e.op /\ f.r = t /\ f.a[1] = p.e /\ f.a[2] = q.e /\ ~Leaves(f)
  <2>1. f.k = e.k /\ f.op = e.op /\ f.r = t /\ f.a[1] = p.e /\ f.a[2] = q.e
    <3> HIDE DEF f
    <3> QED BY <1>2, TwoAnnotated
  <2> HIDE DEF r, f
  <2>2. ~Leaves(f)
    BY <2>1, NotLeaving
  <2>3. PICK y, z \in Good \cup {Untyped} : Fine(T, sub, e.a[1], y, c, p) /\ Fine(T, sub, e.a[2], z, c, q)
    BY <1>2 DEF FineHere
  <2> QED BY <1>1, <1>2, <2>1, <2>2, <2>3, TwoEmitted
<1>3. ASSUME NEW p, NEW q, NEW y \in {x, Untyped}, NEW t, OperandsFine(T, sub, e, y, c, p, q), e.k = "binary",
             f = Annotated(e, <<p.e, q.e>>, t)
      PROVE  FineHere(T, sub, e.a[1], c, p) /\ FineHere(T, sub, e.a[2], c, q)
  <2> HIDE DEF r
  <2>1. PICK u \in {y, Untyped, q.t} : Fine(T, sub, e.a[1], u, c, p)
    BY <1>3 DEF OperandsFine
  <2>2. PICK z \in {y, Untyped, p.t} : Fine(T, sub, e.a[2], z, c, q)
    BY <1>3 DEF OperandsFine
  <2>3. TypeOf(p.e) = p.t /\ TypeOf(q.e) = q.t
    BY <2>1, <2>2 DEF Fine
  <2>4. p.t \in ValueTypes /\ q.t \in ValueTypes
    <3>1. Valued(Annotated(e, <<p.e, q.e>>, t))
      BY <1>1, <1>3
    <3> QED BY <1>3, <2>3, <3>1, TwoValued
  <2> QED BY <1>3, <2>1, <2>2, <2>4, GoodTypes DEF FineHere
<1>4. e.k = "binary" => e.op \in {"&&", "<<", "+", "=="}
  BY NodeIs DEF Shaped
<1>5. \A s : Named(s).con = s
  BY DEF Named
<1>6. Bool \in Good /\ Bool \in ValueTypes /\ Named("UInt64") \in Good
  BY GoodTypes, BasicTypes, TypesAssumption DEF Unsigned
<1>7. CASE e.k = "binary" /\ e.op = "&&"
  <2> DEFINE p == Check(sub, e.a[1], Bool, c)
             q == Check(sub, e.a[2], Bool, c)
  <2>1. /\ Fine(T, sub, e.a[1], Bool, c, p) /\ p.t \in {Bool, Never}
        /\ Fine(T, sub, e.a[2], Bool, c, q) /\ q.t \in {Bool, Never}
        /\ r.t = Bool /\ r.e = Annotated(e, <<p.e, q.e>>, Bool)
    BY <1>1, <1>7, LogicalTaken
  <2> DEFINE v == Value(gen, p.e, c, FALSE)
             w == Value(gen, q.e, c, FALSE)
  <2> HIDE DEF r, p, q, f
  <2>2. /\ p.t \in ValueTypes /\ Fits(v, p.t, FALSE) /\ q.t \in ValueTypes /\ Fits(w, q.t, FALSE)
        /\ f.k = "binary" /\ f.op = "&&" /\ f.r = Bool /\ f.a[1] = p.e /\ f.a[2] = q.e /\ ~Leaves(f)
    BY <1>2, <1>6, <1>7, <2>1 DEF f, FineHere
  <2>3. Fits(v, Bool, FALSE) /\ Fits(w, Bool, FALSE)
    BY <2>1, <2>2, BasicTypes
  <2>4. GenValue(gen, f, c, FALSE) = Given(Operates(f, v, w, FALSE), VarOperand(Bool))
    BY <2>2 DEF GenValue
  <2> HIDE DEF v, w
  <2>5. Operates(f, v, w, FALSE)
    BY <1>6, <2>2, <2>3 DEF Operates, HasValues
  <2> QED BY <2>1, <2>2, <2>4, <2>5, GivenIs, EmittedValue
<1>8. CASE e.k = "binary" /\ e.op = "<<"
  <2> DEFINE p == Check(sub, e.a[1], x, c)
             q == sub[e.a[2]][Named("UInt64")][c]
  <2>1. /\ Fine(T, sub, e.a[1], x, c, p) /\ IsInt(p.t)
        /\ Fine(T, sub, e.a[2], Named("UInt64"), c, q) /\ IsUInt(q.t)
        /\ r.t = p.t /\ r.e = Annotated(e, <<p.e, q.e>>, p.t)
    BY <1>1, <1>8, ShiftTaken
  <2> DEFINE v == Value(gen, p.e, c, FALSE)
             w == Value(gen, q.e, c, FALSE)
  <2> HIDE DEF r, p, q, f
  <2>2. /\ p.t \in ValueTypes /\ Fits(v, p.t, FALSE) /\ q.t \in ValueTypes /\ Fits(w, q.t, FALSE)
        /\ f.k = "binary" /\ f.op = "<<" /\ f.r = p.t /\ f.a[1] = p.e /\ f.a[2] = q.e /\ ~Leaves(f)
    BY <1>2, <1>6, <1>8, <2>1 DEF f, FineHere
  <2>3. GenValue(gen, f, c, FALSE) = Given(Operates(f, v, w, FALSE), VarOperand(p.t))
    BY <2>2 DEF GenValue
  <2> HIDE DEF v, w
  <2>4. Operates(f, v, w, FALSE)
    <3>1. w.ok
      BY <2>2 DEF Fits
    <3> QED BY <2>2, <3>1 DEF Operates, HasValues
  <2> QED BY <2>1, <2>2, <2>3, <2>4, GivenIs, EmittedValue
<1>9. CASE e.k = "binary" /\ e.op = "+"
  <2> DEFINE p == Operands(sub, e, x, c)[1]
             q == Operands(sub, e, x, c)[2]
  <2>1. /\ OperandsFine(T, sub, e, x, c, p, q) /\ p.t = q.t /\ IsInt(p.t)
        /\ r.t = p.t /\ r.e = Annotated(e, <<p.e, q.e>>, p.t)
    BY <1>1, <1>9, SumTaken
  <2> DEFINE v == Value(gen, p.e, c, FALSE)
             w == Value(gen, q.e, c, FALSE)
  <2> HIDE DEF r, p, q, f
  <2>2. FineHere(T, sub, e.a[1], c, p) /\ FineHere(T, sub, e.a[2], c, q)
    BY <1>3, <1>9, <2>1 DEF f
  <2>3. /\ p.t \in ValueTypes /\ Fits(v, p.t, FALSE) /\ q.t \in ValueTypes /\ Fits(w, q.t, FALSE)
        /\ f.k = "binary" /\ f.op = "+" /\ f.r = p.t /\ f.a[1] = p.e /\ f.a[2] = q.e /\ ~Leaves(f)
    BY <1>2, <1>9, <2>1, <2>2 DEF f
  <2>4. GenValue(gen, f, c, FALSE) = Given(Operates(f, v, w, FALSE), VarOperand(p.t))
    BY <2>3 DEF GenValue
  <2> HIDE DEF v, w
  <2>5. Operates(f, v, w, FALSE)
    BY <2>1, <2>3 DEF Operates, HasValues
  <2> QED BY <2>1, <2>3, <2>4, <2>5, GivenIs, EmittedValue
<1>10. CASE e.k = "binary" /\ e.op = "=="
  <2> DEFINE p == Operands(sub, e, Untyped, c)[1]
             q == Operands(sub, e, Untyped, c)[2]
  <2>1. /\ OperandsFine(T, sub, e, Untyped, c, p, q) /\ p.t = q.t /\ ~IsList(p.t) /\ ~IsEnum(p.t)
        /\ r.t = Bool /\ r.e = Annotated(e, <<p.e, q.e>>, p.t)
    BY <1>1, <1>10, EqualityTaken
  <2> DEFINE v == Value(gen, p.e, c, FALSE)
             w == Value(gen, q.e, c, FALSE)
  <2> HIDE DEF r, p, q, f
  <2>2. FineHere(T, sub, e.a[1], c, p) /\ FineHere(T, sub, e.a[2], c, q)
    BY <1>3, <1>10, <2>1 DEF f
  <2>3. /\ p.t \in ValueTypes /\ Fits(v, p.t, FALSE) /\ q.t \in ValueTypes /\ Fits(w, q.t, FALSE)
        /\ f.k = "binary" /\ f.op = "==" /\ f.r = p.t /\ f.a[1] = p.e /\ f.a[2] = q.e /\ ~Leaves(f)
    BY <1>2, <1>10, <2>1, <2>2 DEF f
  <2>4. GenValue(gen, f, c, FALSE) = Given(Operates(f, v, w, FALSE), VarOperand(Bool))
    BY <2>3 DEF GenValue
  <2>c. Comparable(f.r)
    BY <1>1, <2>3 DEF ComparesWell
  <2> HIDE DEF v, w
  <2>5. Operates(f, v, w, FALSE)
    BY <2>c, <2>1, <2>3 DEF Operates, HasValues
  <2> QED BY <2>1, <2>3, <2>4, <2>5, GivenIs, EmittedValue
<1>11. CASE e.k = "tuple"
  <2> DEFINE p == Check(sub, e.a[1], Untyped, c)
             q == Check(sub, e.a[2], Untyped, c)
  <2>1. /\ Fine(T, sub, e.a[1], Untyped, c, p) /\ Fine(T, sub, e.a[2], Untyped, c, q)
        /\ r.t = Pair(p.t, q.t) /\ r.t \in Types
        /\ r.e = Annotated(e, <<p.e, q.e>>, r.t)
    BY <1>1, <1>11, TupleTaken
  <2> DEFINE v == Value(gen, p.e, c, FALSE)
             w == Value(gen, q.e, c, FALSE)
  <2> HIDE DEF r, p, q, f
  <2>2. /\ p.t \in ValueTypes /\ Fits(v, p.t, FALSE) /\ q.t \in ValueTypes /\ Fits(w, q.t, FALSE)
        /\ f.k = "tuple" /\ f.r = r.t /\ f.a[1] = p.e /\ f.a[2] = q.e /\ ~Leaves(f)
    BY <1>2, <1>11, <2>1 DEF f, FineHere
  <2>3. f.r.fst = p.t /\ f.r.snd = q.t
    BY <2>1, <2>2, PairTypes
  <2>4. GenValue(gen, f, c, FALSE) =
          Given(HasValues(f.r.fst) /\ Fits(v, f.r.fst, FALSE) /\ HasValues(f.r.snd) /\ Fits(w, f.r.snd, FALSE),
                VarOperand(f.r))
    BY <2>2 DEF GenValue
  <2>5. GenValue(gen, f, c, FALSE) = VarOperand(r.t)
    BY <2>2, <2>3, <2>4, GivenIs DEF HasValues
  <2> QED BY <2>2, <2>5, EmittedValue
<1> HIDE DEF r, f
<1> QED BY <1>4, <1>7, <1>8, <1>9, <1>10, <1>11

\* A node over many parts.
LEMMA ManyEmits ==
  ASSUME NEW T, NEW sub, NEW gen, NEW nodes, Trusted(T, sub, gen, nodes), NEW e \in NodesOver(T),
         e.k \in {"list", "call", "struct", "variant"}, NEW x \in Good \cup {Untyped}, NEW c \in Contexts,
         Offered(nodes, Resolve(sub, e, x, c))
  PROVE  EmittedBy(gen, Resolve(sub, e, x, c).e, c, Resolve(sub, e, x, c).t)
<1> DEFINE r == Resolve(sub, e, x, c)
           f == r.e
<1> SUFFICES EmittedBy(gen, f, c, r.t)
  OBVIOUS
<1>1. /\ r.ok /\ Valued(f) /\ EmittableParts(nodes, f)
      /\ RegularAt(T, sub) /\ EmitsAt(T, sub, gen, nodes) /\ x \in Expected
  BY GoodTypes DEF Offered, Trusted
<1>2. ASSUME NEW rs, NEW t, DOMAIN rs = DOMAIN e.a,
             \A i \in DOMAIN e.a : \E y \in Good \cup {Untyped} : Fine(T, sub, e.a[i], y, c, rs[i]),
             f = Annotated(e, Trees(rs), t)
      PROVE  /\ \A i \in DOMAIN e.a : rs[i].t \in ValueTypes /\ Fits(Value(gen, rs[i].e, c, FALSE), rs[i].t, FALSE)
             /\ f.k = e.k /\ f.op = e.op /\ f.r = t /\ ~Leaves(f) /\ DOMAIN f.a = DOMAIN e.a
             /\ \A i \in DOMAIN e.a : f.a[i] = rs[i].e /\ f.a[i].op = e.a[i].op
  <2> HIDE DEF r, f
  <2>1. /\ f.k = e.k /\ f.op = e.op /\ f.r = t /\ DOMAIN f.a = DOMAIN e.a
        /\ \A i \in DOMAIN e.a : f.a[i] = rs[i].e
    BY <1>2, ManyAnnotated
  <2>2. ~Leaves(f)
    BY <2>1, NotLeaving
  <2>3. \A i \in DOMAIN e.a : rs[i].t \in ValueTypes /\ Fits(Value(gen, rs[i].e, c, FALSE), rs[i].t, FALSE)
    <3>1. EmitsAt(T, sub, gen, nodes) /\ e.k \in {"list", "call", "struct", "variant"}
          /\ Valued(f) /\ EmittableParts(nodes, f)
      BY <1>1
    <3> QED BY <1>2, <3>1, ManyEmitted, Zenon
  <2>4. \A i \in DOMAIN e.a : rs[i].e.op = e.a[i].op
    BY <1>2 DEF Fine
  <2> QED BY <2>1, <2>2, <2>3, <2>4
<1>3. CASE e.k = "list"
  <2>1. PICK rs : /\ IsList(r.t) /\ r.t \in Types /\ ElementsFine(T, sub, e, c, r.t.of, rs)
                  /\ r.e = Annotated(e, Trees(rs), r.t)
    BY <1>1, <1>3, ListTaken
  <2>2. r.t \in ValueTypes
    <3>1. r.t \in Good
      BY <1>1, <1>3, UsedGood
    <3>2. r.t \notin {Unit, Never}
      BY <2>1 DEF Unit, Never, Named, IsList
    <3> QED BY <3>1, <3>2 DEF Good
  <2> HIDE DEF r, f
  <2>3. r.t.of \in ValueTypes
    BY <2>1, <2>2, PairTypes
  <2>4. \A i \in DOMAIN e.a : \E y \in Good \cup {Untyped} : Fine(T, sub, e.a[i], y, c, rs[i])
    BY <2>1, <2>3, GoodTypes DEF ElementsFine
  <2>5. /\ \A i \in DOMAIN e.a : rs[i].t \in ValueTypes /\ Fits(Value(gen, rs[i].e, c, FALSE), rs[i].t, FALSE)
        /\ f.k = "list" /\ f.r = r.t /\ ~Leaves(f) /\ DOMAIN f.a = DOMAIN e.a
        /\ \A i \in DOMAIN e.a : f.a[i] = rs[i].e
    BY <1>2, <1>3, <2>1, <2>4 DEF f, ElementsFine
  <2>6. \A i \in DOMAIN f.a : Fits(Value(gen, f.a[i], c, FALSE), f.r.of, FALSE)
    BY <2>1, <2>5, BasicTypes DEF ElementsFine
  <2>7. GenValue(gen, f, c, FALSE) = VarOperand(r.t)
    BY <2>3, <2>5, <2>6 DEF GenValue, Given, HasValues
  <2> QED BY <2>5, <2>7, EmittedValue
<1>4. CASE e.k = "call"
  <2> DEFINE us == Signature[e.op].params
             rs == [i \in DOMAIN e.a |-> Check(sub, e.a[i], us[i], c)]
             ys == [i \in DOMAIN e.a |-> IF us[i] = AnyT THEN Untyped ELSE us[i]]
  <2>1. /\ DOMAIN us = DOMAIN e.a /\ \A i \in DOMAIN e.a : us[i] \in ValueTypes \cup {AnyT}
        /\ PartsFine(T, sub, e.a, ys, c, rs)
        /\ r.t = Signature[e.op].ret /\ r.t \in ValueTypes \cup {Unit}
        /\ r.e = Annotated(e, Trees(rs), r.t)
    BY <1>1, <1>4, CallTaken
  <2>0. \A i \in DOMAIN e.a : ys[i] = IF us[i] = AnyT THEN Untyped ELSE us[i]
    OBVIOUS
  <2>u. us = Signature[e.op].params
    OBVIOUS
  <2> HIDE DEF r, us, rs, ys, f
  <2>2. DOMAIN rs = DOMAIN e.a /\ \A i \in DOMAIN e.a : \E y \in Good \cup {Untyped} : Fine(T, sub, e.a[i], y, c, rs[i])
    BY <2>0, <2>1, GoodTypes DEF PartsFine
  <2>3. /\ \A i \in DOMAIN e.a : rs[i].t \in ValueTypes /\ Fits(Value(gen, rs[i].e, c, FALSE), rs[i].t, FALSE)
        /\ f.k = "call" /\ f.op = e.op /\ f.r = r.t /\ ~Leaves(f) /\ DOMAIN f.a = DOMAIN e.a
        /\ \A i \in DOMAIN e.a : f.a[i] = rs[i].e
    BY <1>2, <1>4, <2>1, <2>2 DEF f
  <2>4. \A i \in DOMAIN e.a : us[i] \in {rs[i].t, AnyT}
    <3> SUFFICES ASSUME NEW i \in DOMAIN e.a, us[i] # AnyT PROVE us[i] = rs[i].t
      OBVIOUS
    <3>1. ys[i] = us[i] /\ us[i] \in ValueTypes
      BY <2>0, <2>1
    <3>2. rs[i].t \in {us[i], Never}
      BY <2>1, <3>1, BasicTypes DEF PartsFine
    <3> QED BY <2>3, <3>2, BasicTypes
  <2>5. \A i \in DOMAIN f.a : IF us[i] = AnyT THEN Value(gen, f.a[i], c, FALSE).ok
                                             ELSE Fits(Value(gen, f.a[i], c, FALSE), us[i], FALSE)
    BY <2>3, <2>4 DEF Fits
  <2>6. Passed(gen, f, c, FALSE)
    BY <2>3, <2>5, <2>u DEF Passed
  <2>7. GenStmt(gen, f, c, FALSE)
    BY <2>3, <2>6 DEF GenStmt
  <2>8. r.t # Unit => GenValue(gen, f, c, FALSE) = VarOperand(r.t)
    BY <2>3, <2>6 DEF GenValue, Given
  <2> QED BY <2>3, <2>7, <2>8, OperandFits, BasicTypes DEF EmittedBy
<1>5. CASE e.k \in {"struct", "variant"}
  <2> DEFINE fields == FieldsAt(e)
             ys == [i \in DOMAIN e.a |-> TypeIn(fields, e.a[i].op)]
             rs == [i \in DOMAIN e.a |-> sub[e.a[i]][TypeIn(fields, e.a[i].op)][c]]
  <2>1. /\ Declared(fields) /\ Len(e.a) = Len(fields)
        /\ {e.a[i].op : i \in DOMAIN e.a} = NamesOf(fields)
        /\ e.k = "variant" => HasVariant(e.ty, e.op)
        /\ PartsFine(T, sub, e.a, ys, c, rs)
        /\ \A i \in DOMAIN e.a : ys[i] \in ValueTypes
        /\ r.t = e.ty /\ r.t \in ValueTypes /\ r.e = Annotated(e, Trees(rs), r.t)
    BY <1>1, <1>5, FieldsTaken, Zenon
  <2>2. \A i \in DOMAIN e.a : ys[i] = TypeIn(fields, e.a[i].op)
    OBVIOUS
  <2> HIDE DEF r, rs, ys, f
  <2>3. DOMAIN rs = DOMAIN e.a /\ \A i \in DOMAIN e.a : \E y \in Good \cup {Untyped} : Fine(T, sub, e.a[i], y, c, rs[i])
    BY <2>1, GoodTypes DEF PartsFine
  <2>4. /\ \A i \in DOMAIN e.a : rs[i].t \in ValueTypes /\ Fits(Value(gen, rs[i].e, c, FALSE), rs[i].t, FALSE)
        /\ f.k = e.k /\ f.op = e.op /\ f.r = r.t /\ ~Leaves(f) /\ DOMAIN f.a = DOMAIN e.a
        /\ \A i \in DOMAIN e.a : f.a[i] = rs[i].e /\ f.a[i].op = e.a[i].op
    BY <1>2, <2>1, <2>3 DEF f
  <2>5. \A i \in DOMAIN e.a : rs[i].t = TypeIn(fields, e.a[i].op)
    BY <2>1, <2>2, <2>4, BasicTypes DEF PartsFine
  <2>6. \A i \in DOMAIN f.a : f.a[i].op \in NamesOf(fields)
                              /\ Fits(Value(gen, f.a[i], c, FALSE), TypeIn(fields, f.a[i].op), FALSE)
    BY <2>1, <2>4, <2>5
  <2>7. Filled(gen, f, fields, c, FALSE)
    BY <2>6 DEF Filled
  <2>8. fields = IF f.k = "struct" THEN Struct[f.r.con] ELSE FieldsOf(f.r, f.op)
    BY <2>1, <2>4 DEF FieldsAt
  <2> HIDE DEF fields
  <2>9. GenValue(gen, f, c, FALSE) = VarOperand(r.t)
    BY <1>5, <2>4, <2>7, <2>8 DEF GenValue, Given
  <2> QED BY <1>5, <2>4, <2>9, EmittedValue
<1> QED BY <1>3, <1>4, <1>5

LEMMA DiscardEmitted ==
  ASSUME NEW T, NEW sub, NEW gen, NEW nodes, Trusted(T, sub, gen, nodes), NEW e \in NodesOver(T),
         e.k = "discard", NEW x \in Good \cup {Untyped}, NEW c \in Contexts,
         Offered(nodes, Resolve(sub, e, x, c))
  PROVE  EmittedBy(gen, Resolve(sub, e, x, c).e, c, Resolve(sub, e, x, c).t)
<1> DEFINE r == Resolve(sub, e, x, c)
           d == e.a[1]
           p == Check(sub, d, Untyped, c)
           f == r.e
<1> SUFFICES EmittedBy(gen, f, c, r.t)
  OBVIOUS
<1>1. r.ok /\ EmittableParts(nodes, f) /\ RegularAt(T, sub) /\ EmitsAt(T, sub, gen, nodes) /\ x \in Expected
  BY GoodTypes DEF Offered, Trusted
<1>2. Fine(T, sub, d, Untyped, c, p) /\ r.t = Unit /\ f = Annotated(e, <<p.e>>, p.t)
  BY <1>1, DiscardTaken
<1>3. d \in T /\ Apt(d)
  BY PartsOf, ExpressionsApt DEF OverOne
<1> HIDE DEF r, d, p, f
<1>4. f.k = "discard" /\ f.a[1] = p.e /\ DOMAIN f.a = {1}
  BY <1>2, OneAnnotated
<1>5. EmittedAs(gen, p.e, c, p.t)
  <2>1. Emittable(nodes[p.e])
    BY <1>1, <1>4 DEF EmittableParts
  <2> QED BY <1>1, <1>2, <1>3, <2>1, PartEmitted
<1>6. GenStmt(gen, f, c, FALSE)
  BY <1>4, <1>5 DEF GenStmt, EmittedAs
<1> QED BY <1>2, <1>4, <1>6, NotLeaving, BasicTypes DEF EmittedBy

LEMMA BlockEmitted ==
  ASSUME NEW T, NEW sub, NEW gen, NEW nodes, Trusted(T, sub, gen, nodes), NEW e \in NodesOver(T),
         e.k = "block", NEW x \in Good \cup {Untyped}, NEW c \in Contexts,
         Offered(nodes, Resolve(sub, e, x, c))
  PROVE  EmittedBy(gen, Resolve(sub, e, x, c).e, c, Resolve(sub, e, x, c).t)
<1> DEFINE r == Resolve(sub, e, x, c)
           f == r.e
<1> SUFFICES EmittedBy(gen, f, c, r.t)
  OBVIOUS
<1>1. r.ok /\ EmittableParts(nodes, f) /\ RegularAt(T, sub) /\ EmitsAt(T, sub, gen, nodes) /\ x \in Expected
  BY GoodTypes DEF Offered, Trusted
<1>2. CASE e.a = << >>
  <2>1. r.t = Unit /\ f = e
    BY <1>1, <1>2, EmptyBlockTaken, BadIsBad
  <2>2. ~Leaves(e) /\ GenStmt(gen, e, c, FALSE)
    BY <1>2 DEF Leaves, Diverging, EndsInNever, GenStmt
  <2> HIDE DEF r, f
  <2> QED BY <2>1, <2>2, BasicTypes DEF EmittedBy
<1>3. CASE e.a # << >>
  <2> DEFINE ys == [i \in DOMAIN e.a |-> IF i = Len(e.a) THEN x ELSE Untyped]
             rs == [i \in DOMAIN e.a |-> Check(sub, e.a[i], IF i = Len(e.a) THEN x ELSE Untyped, c)]
             k  == Len(e.a)
  <2>1. /\ PartsFine(T, sub, e.a, ys, c, rs)
        /\ r.t = rs[k].t /\ r.e = Annotated(e, Trees(rs), e.r)
    BY <1>1, <1>3, BlockTaken
  <2>2. k \in Nat /\ DOMAIN e.a = 1 .. k /\ k \in DOMAIN e.a /\ e.a \in Seq(T)
    <3>1. e.a \in Seq(T)
      BY NodeIs
    <3> QED BY <1>3, <3>1
  <2>3. \A i \in DOMAIN e.a : ys[i] \in Good \cup {Untyped}
    OBVIOUS
  <2>4. \A i \in DOMAIN e.a : e.a[i] \in T /\ Apt(e.a[i])
    BY PartsOf, ExpressionsApt
  <2> HIDE DEF ys, rs, k, r, f
  <2>5. DOMAIN rs = DOMAIN e.a /\ \A i \in DOMAIN e.a : Fine(T, sub, e.a[i], ys[i], c, rs[i])
    BY <2>1 DEF PartsFine
  <2>6. f.k = "block" /\ DOMAIN f.a = DOMAIN e.a /\ \A i \in DOMAIN e.a : f.a[i] = rs[i].e
    BY <2>1, <2>5, ManyAnnotated DEF f
  <2>7. Len(f.a) = k /\ f.a # << >>
    <3>1. \A i \in DOMAIN e.a : rs[i].e \in T /\ rs[i].e.k = e.a[i].k
      BY <2>5 DEF Fine
    <3>2. SameKinds(Trees(rs), e.a)
      BY <2>2, <2>5, <3>1, TreesFit
    <3>3. f.a = Trees(rs)
      BY <2>1, WithIs DEF Annotated, f
    <3>4. Len(f.a) = k
      BY <3>2, <3>3 DEF SameKinds, k
    <3>5. f.a # << >>
      BY <2>2, <2>6
    <3> QED BY <3>4, <3>5
  <2>8. LastOf(f) = rs[k].e /\ TypeOf(LastOf(f)) = r.t
    <3>1. LastOf(f) = rs[k].e
      BY <2>2, <2>6, <2>7 DEF LastOf
    <3>2. TypeOf(rs[k].e) = rs[k].t
      BY <2>2, <2>5 DEF Fine
    <3> QED BY <2>1, <3>1, <3>2
  <2>9. ASSUME NEW i \in DOMAIN e.a PROVE EmittedAs(gen, f.a[i], c, rs[i].t)
    <3>1. Emittable(nodes[rs[i].e])
      BY <1>1, <2>6 DEF EmittableParts
    <3> QED BY <1>1, <2>3, <2>4, <2>5, <2>6, <3>1, PartEmitted
  <2>10. \A i \in DOMAIN f.a : Runs(gen, f.a[i], c, FALSE)
    BY <2>6, <2>9 DEF EmittedAs
  <2>11. GenStmt(gen, f, c, FALSE)
    BY <2>6, <2>10 DEF GenStmt
  <2>12. GenValue(gen, f, c, FALSE) =
          IF Diverging(LastOf(f)) THEN Left ELSE Value(gen, LastOf(f), c, FALSE)
    <3>1. GenValue(gen, f, c, FALSE) = BlockValue(gen, f, c, FALSE)
      BY <2>6 DEF GenValue
    <3>2. \A i \in 1 .. Len(f.a) - 1 : Runs(gen, f.a[i], c, FALSE)
      <4> SUFFICES ASSUME NEW i \in 1 .. k - 1 PROVE Runs(gen, f.a[i], c, FALSE)
        BY <2>7
      <4>1. i \in 1 .. k
        BY <2>2
      <4> QED BY <2>2, <2>6, <2>10, <4>1
    <3>3. Runs(gen, LastOf(f), c, FALSE)
      BY <2>2, <2>6, <2>7, <2>10 DEF LastOf
    <3> QED BY <2>7, <3>1, <3>2, <3>3 DEF BlockValue, Given
  <2>13. EmittedAs(gen, LastOf(f), c, r.t)
    <3>1. LastOf(f) = f.a[k]
      BY <2>7 DEF LastOf
    <3> QED BY <2>1, <2>2, <2>9, <3>1
  <2>14. r.t \in ValueTypes => ~Diverging(LastOf(f))
    BY <2>8, BasicTypes DEF TypeOf, Diverging
  <2>15. r.t \in ValueTypes => Fits(GenValue(gen, f, c, FALSE), r.t, FALSE)
    BY <2>12, <2>13, <2>14 DEF EmittedAs
  <2>16. Leaves(f) => Diverging(LastOf(f))
    BY <2>6 DEF Leaves, EndsInNever, Diverging
  <2> QED BY <2>11, <2>12, <2>15, <2>16 DEF EmittedBy
<1> QED BY <1>2, <1>3

\* What a case binds, it binds in the generator too.
LEMMA InsideIs ==
  ASSUME NEW T, Renotable(T), NEW e \in NodesOver(T), e.k = "case", Apt(e), NEW c \in Contexts, NEW f,
         f.cs = [i \in DOMAIN e.cs |-> Annotated(e.cs[i], e.cs[i].a, FieldsOf(e.ty, e.op)[i].type)]
  PROVE  Inside(f, c) = Within(e, c)
<1> DEFINE fields == FieldsOf(e.ty, e.op)
           named == [i \in DOMAIN e.cs |-> Annotated(e.cs[i], e.cs[i].a, fields[i].type)]
<1>1. /\ \A i \in DOMAIN e.cs : /\ named[i].op = e.cs[i].op
                                /\ e.cs[i].op \in NamesOf(fields)
                                /\ named[i].r = TypeIn(fields, e.cs[i].op)
  BY PatternTaken
<1>2. f.cs = named /\ DOMAIN named = DOMAIN e.cs
  OBVIOUS
<1>3. NamesOf(fields) = {e.cs[i].op : i \in DOMAIN e.cs}
  <2>1. Declared(fields) /\ Len(e.cs) = Len(fields) /\ \A i \in DOMAIN e.cs : e.cs[i].op = fields[i].name
    BY VariantFields DEF Apt, Fitting
  <2>2. e.cs \in Seq(T) /\ fields \in Seq([name : STRING, type : ValueTypes])
    BY <2>1, NodeIs DEF Declared
  <2>3. DOMAIN e.cs = DOMAIN fields
    BY <2>1, <2>2
  <2> HIDE DEF fields
  <2>4. ASSUME NEW i \in DOMAIN fields PROVE fields[i].name \in {e.cs[j].op : j \in DOMAIN e.cs}
    BY <2>1, <2>3
  <2>5. ASSUME NEW i \in DOMAIN e.cs PROVE e.cs[i].op \in {fields[j].name : j \in DOMAIN fields}
    BY <2>1, <2>3
  <2> QED BY <2>4, <2>5 DEF NamesOf
<1> HIDE DEF fields, named
<1>4. ASSUME NEW n \in Bindable
      PROVE  (IF \E i \in DOMAIN f.cs : f.cs[i].op = n
              THEN f.cs[CHOOSE i \in DOMAIN f.cs : f.cs[i].op = n].r ELSE c.bound[n])
             = IF n \in NamesOf(fields) THEN TypeIn(fields, n) ELSE c.bound[n]
  <2>1. n \in NamesOf(fields) <=> \E i \in DOMAIN f.cs : f.cs[i].op = n
    BY <1>1, <1>2, <1>3
  <2>2. ASSUME n \in NamesOf(fields)
        PROVE  f.cs[CHOOSE i \in DOMAIN f.cs : f.cs[i].op = n].r = TypeIn(fields, n)
    <3> DEFINE j == CHOOSE i \in DOMAIN f.cs : f.cs[i].op = n
    <3>1. j \in DOMAIN f.cs /\ f.cs[j].op = n
      BY <2>1, <2>2
    <3> HIDE DEF j
    <3>2. f.cs[j].r = TypeIn(fields, n)
      BY <1>1, <1>2, <3>1
    <3> QED BY <3>2 DEF j
  <2> QED BY <2>1, <2>2
<1>5. [n \in Bindable |-> IF \E i \in DOMAIN f.cs : f.cs[i].op = n
                          THEN f.cs[CHOOSE i \in DOMAIN f.cs : f.cs[i].op = n].r ELSE c.bound[n]]
      = [n \in Bindable |-> IF n \in NamesOf(fields) THEN TypeIn(fields, n) ELSE c.bound[n]]
  BY <1>4
<1>6. Within(e, c) = [c EXCEPT !.bound = [n \in Bindable |-> IF n \in NamesOf(fields) THEN TypeIn(fields, n)
                                                              ELSE c.bound[n]]]
  BY DEF Within, fields
<1>7. Inside(f, c) = [c EXCEPT !.bound = [n \in Bindable |-> IF \E i \in DOMAIN f.cs : f.cs[i].op = n
                          THEN f.cs[CHOOSE i \in DOMAIN f.cs : f.cs[i].op = n].r ELSE c.bound[n]]]
  BY DEF Inside
<1> QED BY <1>5, <1>6, <1>7

LEMMA CaseEmitted ==
  ASSUME NEW T, NEW sub, NEW gen, NEW nodes, Trusted(T, sub, gen, nodes), Renotable(T), NEW e \in NodesOver(T),
         e.k \in {"case", "default"}, Apt(e), NEW x \in Good \cup {Untyped}, NEW c \in Contexts,
         Offered(nodes, Resolve(sub, e, x, c))
  PROVE  EmittedBy(gen, Resolve(sub, e, x, c).e, c, Resolve(sub, e, x, c).t)
<1> DEFINE r == Resolve(sub, e, x, c)
           w == Within(e, c)
           b == sub[e.a[1]][x][w]
           named == [i \in DOMAIN e.cs |-> Annotated(e.cs[i], e.cs[i].a, FieldsOf(e.ty, e.op)[i].type)]
           f == r.e
<1> SUFFICES EmittedBy(gen, f, c, r.t)
  OBVIOUS
<1>1. r.ok /\ EmittableParts(nodes, f) /\ RegularAt(T, sub) /\ EmitsAt(T, sub, gen, nodes) /\ x \in Expected
  BY GoodTypes DEF Offered, Trusted
<1>2. w \in Contexts /\ Body(T, sub, e.a[1], x, w, b) /\ r.t = b.t /\ f = With(e, e.ty, named, <<b.e>>, b.t)
  BY <1>1, CaseTaken
<1>3. e.a[1] \in T /\ Apt(e.a[1]) /\ e.a[1].k = "block"
  BY PartsOf, ExpressionsApt
<1>4. f.k = e.k /\ f.cs = named /\ f.a = <<b.e>> /\ f.a[1] = b.e
  <2> HIDE DEF named, b, w, f
  <2> QED BY <1>2, WithIs
<1>5. w = IF f.k = "case" THEN Inside(f, c) ELSE c
  <2>1. CASE e.k = "case"
    <3>1. f.cs = [i \in DOMAIN e.cs |-> Annotated(e.cs[i], e.cs[i].a, FieldsOf(e.ty, e.op)[i].type)]
      BY <1>4
    <3>2. w = Within(e, c)
      OBVIOUS
    <3> HIDE DEF w, r, f, named
    <3> QED BY <1>4, <2>1, <3>1, <3>2, InsideIs
  <2>2. CASE e.k = "default"
    BY <1>4, <2>2 DEF Within
  <2> QED BY <2>1, <2>2
<1> HIDE DEF w, b, named, r, f
<1>6. EmittedAs(gen, b.e, w, r.t)
  <2>1. Emittable(nodes[b.e])
    BY <1>1, <1>4 DEF EmittableParts
  <2> QED BY <1>1, <1>2, <1>3, <2>1, BodyEmitted
<1>7. GenValue(gen, f, c, FALSE) = Value(gen, b.e, w, FALSE) /\ (GenStmt(gen, f, c, FALSE) <=> Runs(gen, b.e, w, FALSE))
  BY <1>4, <1>5 DEF GenValue, GenStmt
<1>8. Leaves(f) => Leaves(b.e) /\ ~Diverging(b.e)
  <2>1. b.e.k = "block"
    BY <1>2, <1>3 DEF Body
  <2> QED BY <1>4, <2>1 DEF Leaves, Diverging
<1> QED BY <1>6, <1>7, <1>8 DEF EmittedAs, EmittedBy

LEMMA WhileEmitted ==
  ASSUME NEW T, NEW sub, NEW gen, NEW nodes, Trusted(T, sub, gen, nodes), NEW e \in NodesOver(T),
         e.k = "while", NEW x \in Good \cup {Untyped}, NEW c \in Contexts,
         Offered(nodes, Resolve(sub, e, x, c))
  PROVE  EmittedBy(gen, Resolve(sub, e, x, c).e, c, Resolve(sub, e, x, c).t)
<1> DEFINE r == Resolve(sub, e, x, c)
           p == Check(sub, e.cs[1], Bool, c)
           l == [c EXCEPT !.loop = @ + 1]
           b == sub[e.a[1]][Unit][l]
           f == r.e
<1> SUFFICES EmittedBy(gen, f, c, r.t)
  OBVIOUS
<1>1. /\ r.ok /\ Valued(f) /\ EmittableParts(nodes, f) /\ RegularAt(T, sub) /\ EmitsAt(T, sub, gen, nodes)
      /\ x \in Expected
  BY GoodTypes DEF Offered, Trusted
<1>3. /\ Fine(T, sub, e.cs[1], Bool, c, p) /\ p.t \in {Bool, Never}
      /\ l \in Contexts /\ Body(T, sub, e.a[1], Unit, l, b) /\ b.t \in {Unit, Never}
      /\ r.t = Unit /\ f = With(e, e.ty, <<p.e>>, <<b.e>>, Unit)
  BY <1>1, WhileTaken
<1>4. /\ e.a[1] \in T /\ Apt(e.a[1]) /\ e.cs[1] \in T /\ Apt(e.cs[1])
  BY PartsOf, ExpressionsApt
<1>l. l = [c EXCEPT !.loop = @ + 1]
  OBVIOUS
<1> HIDE DEF r, p, l, b, f
<1>5. f.k = "while" /\ f.a = <<b.e>> /\ f.cs = <<p.e>>
  BY <1>3, WithIs
<1>6. /\ 1 \in DOMAIN f.a /\ f.a[1] = b.e /\ 1 \in DOMAIN f.cs /\ f.cs[1] = p.e
  BY <1>5
<1>7. Emittable(nodes[p.e]) /\ Emittable(nodes[b.e])
  BY <1>1, <1>6 DEF EmittableParts
<1>8. EmittedAs(gen, p.e, c, p.t) /\ EmittedAs(gen, b.e, l, b.t)
  BY <1>1, <1>3, <1>4, <1>7, GoodTypes, PartEmitted, BodyEmitted
<1>9. p.t = Bool
  <2>1. TypeOf(p.e) = p.t
    BY <1>3 DEF Fine
  <2> QED BY <1>1, <1>3, <1>5, <1>6, <2>1, ValuedConditions, BasicTypes
<1>10. Fits(Value(gen, p.e, c, FALSE), Bool, FALSE) /\ Runs(gen, b.e, l, FALSE)
  BY <1>8, <1>9, BasicTypes DEF EmittedAs
<1>11. GenStmt(gen, f, c, FALSE)
  BY <1>5, <1>6, <1>10, <1>l DEF GenStmt
<1> QED BY <1>3, <1>5, <1>11, NotLeaving, BasicTypes DEF EmittedBy

\* The branches of a node, as annotated.
EmittableBranches(nodes, ds, bs) == \A i \in DOMAIN ds : Emittable(nodes[bs[i].e])
EmittedBranches(gen, ds, bs, c, t) ==
  \A i \in DOMAIN ds : /\ Runs(gen, bs[i].e, c, FALSE)
                       /\ t \in ValueTypes => Yields(Value(gen, bs[i].e, c, FALSE), t, FALSE)

\* A block of type Never that ends in a value, if in anything but a jump,
\* ends in a jump.
LEMMA NeverLeaves ==
  ASSUME NEW b, BlockType(b) = Never, EndsInValue(b)
  PROVE  EndsInNever(b)
<1>1. b.a # << >>
  BY BasicTypes DEF BlockType
<1>2. TypeOf(LastOf(b)) \notin ValueTypes
  BY <1>1, BasicTypes DEF BlockType
<1> QED BY <1>1, <1>2 DEF EndsInValue, EndsInNever, HasValues

LEMMA BranchesEmitted ==
  ASSUME NEW T, NEW sub, NEW gen, NEW nodes, EmitsAt(T, sub, gen, nodes),
         NEW ds, BranchesIn(T, ds), NEW y \in Good \cup {Untyped}, NEW c \in Contexts, NEW bs, NEW t \in Good,
         BodiesFine(T, sub, ds, y, c, bs, t), EmittableBranches(nodes, ds, bs),
         t \in ValueTypes => EndInValues(ds, bs)
  PROVE  EmittedBranches(gen, ds, bs, c, t)
<1> SUFFICES ASSUME NEW i \in DOMAIN ds
             PROVE  /\ Runs(gen, bs[i].e, c, FALSE)
                    /\ t \in ValueTypes => Yields(Value(gen, bs[i].e, c, FALSE), t, FALSE)
  BY DEF EmittedBranches
<1> DEFINE d == ds[i]
           b == bs[i]
<1>1. d \in T /\ d.k \in {"block", "case", "default"} /\ Apt(d) /\ Emittable(nodes[b.e])
  BY DEF BranchesIn, EmittableBranches
<1>2. b.t \in {t, Never} /\ \E z \in {y, t} : Body(T, sub, d, z, c, b)
  BY DEF BodiesFine
<1>3. t \in ValueTypes => EndsInValue(IF d.k = "block" THEN b.e ELSE b.e.a[1])
  BY DEF EndInValues
<1> HIDE DEF d, b
<1>4. PICK z \in {y, t} : Body(T, sub, d, z, c, b)
  BY <1>2
<1>5. EmittedAs(gen, b.e, c, b.t)
  BY <1>1, <1>4, BodyEmitted
<1>6. ASSUME t \in ValueTypes, b.t = Never PROVE Value(gen, b.e, c, FALSE) = Left
  <2>1. b.e.k = d.k
    BY <1>4 DEF Body
  <2>2. CASE d.k = "block"
    <3>1. BlockType(b.e) = Never
      BY <1>4, <1>6, <2>2 DEF Body
    <3>2. EndsInNever(b.e)
      BY <1>3, <1>6, <2>2, <3>1, NeverLeaves
    <3> QED BY <1>5, <2>1, <2>2, <3>2 DEF EmittedAs, Leaves, Diverging
  <2>3. CASE d.k \in {"case", "default"}
    <3>1. BlockType(b.e.a[1]) = Never
      BY <1>4, <1>6, <2>3 DEF Body
    <3>2. EndsInNever(b.e.a[1])
      BY <1>3, <1>6, <2>3, <3>1, NeverLeaves
    <3> QED BY <1>5, <2>1, <2>3, <3>2 DEF EmittedAs, Leaves, Diverging
  <2> QED BY <1>1, <2>2, <2>3
<1>7. t \in ValueTypes => Yields(Value(gen, b.e, c, FALSE), t, FALSE)
  BY <1>2, <1>5, <1>6 DEF Yields, EmittedAs
<1>8. Runs(gen, b.e, c, FALSE)
  BY <1>5 DEF EmittedAs
<1> QED BY <1>7, <1>8 DEF b

LEMMA IfEmitted ==
  ASSUME NEW T, NEW sub, NEW gen, NEW nodes, Trusted(T, sub, gen, nodes), NEW e \in NodesOver(T),
         e.k = "if", NEW x \in Good \cup {Untyped}, NEW c \in Contexts,
         Offered(nodes, Resolve(sub, e, x, c))
  PROVE  EmittedBy(gen, Resolve(sub, e, x, c).e, c, Resolve(sub, e, x, c).t)
<1> DEFINE r == Resolve(sub, e, x, c)
           y  == BranchContext(e, x)
           ps == [i \in DOMAIN e.cs |-> Check(sub, e.cs[i], Bool, c)]
           bs == Branches(sub, e.a, e.a, y, c)
           f  == r.e
<1> SUFFICES EmittedBy(gen, f, c, r.t)
  OBVIOUS
<1>1. /\ r.ok /\ Valued(f) /\ EmittableParts(nodes, f) /\ RegularAt(T, sub) /\ EmitsAt(T, sub, gen, nodes)
      /\ GoodAt(T, sub, nodes) /\ x \in Expected
  BY GoodTypes DEF Offered, Trusted
<1>2. /\ \A i \in DOMAIN e.cs : Fine(T, sub, e.cs[i], Bool, c, ps[i]) /\ ps[i].t \in {Bool, Never}
      /\ BodiesFine(T, sub, e.a, y, c, bs, r.t)
      /\ y \in {x, Unit} /\ (y # Untyped => r.t \in {y, Never})
      /\ r.t \in Types /\ r.e = With(e, e.ty, Trees(ps), Trees(bs), r.t)
  BY <1>1, IfTaken
<1>3. DOMAIN ps = DOMAIN e.cs
  OBVIOUS
<1>4. /\ e.a \in Seq(T) /\ e.cs \in Seq(T)
      /\ \A i \in DOMAIN e.a : e.a[i] \in T /\ e.a[i].k = "block" /\ Apt(e.a[i])
      /\ \A i \in DOMAIN e.cs : e.cs[i] \in T /\ Apt(e.cs[i])
  BY PartsOf, ExpressionsApt
<1>y. y = IF HasElse(e) THEN x ELSE Unit
  BY DEF BranchContext
<1> HIDE DEF r, y, ps, bs, f
<1>5. /\ f.k = "if" /\ f.r = r.t /\ f.cs = Trees(ps) /\ f.a = Trees(bs)
      /\ DOMAIN f.cs = DOMAIN e.cs /\ \A i \in DOMAIN e.cs : f.cs[i] = ps[i].e
      /\ DOMAIN f.a = DOMAIN e.a /\ \A i \in DOMAIN e.a : f.a[i] = bs[i].e
  <2>1. f.k = e.k /\ f.r = r.t /\ f.cs = Trees(ps) /\ f.a = Trees(bs)
    BY <1>2, WithIs DEF f
  <2>2. DOMAIN bs = DOMAIN e.a
    BY <1>2 DEF BodiesFine
  <2> QED BY <1>3, <2>1, <2>2 DEF Trees
<1>6. ASSUME NEW i \in DOMAIN e.cs PROVE Fits(Value(gen, f.cs[i], c, FALSE), Bool, FALSE)
  <2>1. Emittable(nodes[ps[i].e])
    BY <1>1, <1>5 DEF EmittableParts
  <2>2. EmittedAs(gen, ps[i].e, c, ps[i].t)
    BY <1>1, <1>2, <1>4, <2>1, GoodTypes, PartEmitted
  <2>3. ps[i].t \in ValueTypes
    <3>1. TypeOf(f.cs[i]) = ps[i].t
      BY <1>2, <1>5 DEF Fine
    <3> QED BY <1>1, <1>5, <3>1, ValuedConditions
  <2>4. ps[i].t = Bool
    BY <1>2, <2>3, BasicTypes
  <2> QED BY <1>5, <2>2, <2>4, BasicTypes DEF EmittedAs
<1>7. EmittableBranches(nodes, e.a, bs) /\ BranchesIn(T, e.a) /\ (r.t \in ValueTypes => EndInValues(e.a, bs))
  <2>1. EmittableBranches(nodes, e.a, bs)
    BY <1>1, <1>5 DEF EmittableParts, EmittableBranches
  <2>2. r.t \in ValueTypes => EndInValues(e.a, bs)
    BY <1>1, <1>4, <1>5 DEF Valued, HasValues, EndInValues
  <2>3. BranchesIn(T, e.a)
    BY <1>4 DEF BranchesIn
  <2> QED BY <2>1, <2>2, <2>3
<1>8. y \in Good \cup {Untyped} /\ r.t \in Good
  <2>1. y \in Good \cup {Untyped}
    BY <1>2, GoodTypes
  <2>2. \A i \in DOMAIN e.a : AllValued(nodes[bs[i].e]) /\ Apt(e.a[i])
    BY <1>4, <1>7, EmittableIsValued DEF EmittableBranches
  <2> QED BY <1>1, <1>2, <1>4, <2>1, <2>2, GoodBodies
<1>9. EmittedBranches(gen, e.a, bs, c, r.t)
  BY <1>1, <1>2, <1>7, <1>8, BranchesEmitted
<1>10. r.t \in ValueTypes => HasElse(f)
  <2>1. r.t \in ValueTypes => HasElse(e)
    BY <1>2, <1>y, BasicTypes
  <2>2. Len(f.a) = Len(e.a) /\ Len(f.cs) = Len(e.cs)
    <3>1. Len(e.a) \in Nat /\ DOMAIN e.a = 1 .. Len(e.a) /\ Len(e.cs) \in Nat /\ DOMAIN e.cs = 1 .. Len(e.cs)
      BY <1>4
    <3>2. DOMAIN f.a = 1 .. Len(e.a) /\ DOMAIN f.cs = 1 .. Len(e.cs)
      BY <1>5, <3>1
    <3> QED BY <3>1, <3>2
  <2> QED BY <2>1, <2>2 DEF HasElse
<1>11. GenStmt(gen, f, c, FALSE)
  BY <1>5, <1>6, <1>9 DEF GenStmt, EmittedBranches
<1>12. r.t \in ValueTypes => Fits(GenValue(gen, f, c, FALSE), r.t, FALSE)
  <2> SUFFICES ASSUME r.t \in ValueTypes PROVE Fits(GenValue(gen, f, c, FALSE), r.t, FALSE)
    OBVIOUS
  <2>1. /\ HasElse(f) /\ HasValues(f.r)
        /\ \A i \in DOMAIN f.cs : Fits(Value(gen, f.cs[i], c, FALSE), Bool, FALSE)
        /\ \A i \in DOMAIN f.a : Yields(Value(gen, f.a[i], c, FALSE), f.r, FALSE)
    BY <1>5, <1>6, <1>9, <1>10 DEF EmittedBranches, HasValues
  <2>2. GenValue(gen, f, c, FALSE) = VarOperand(r.t)
    BY <1>5, <2>1 DEF GenValue, Given
  <2> QED BY <2>2, OperandFits
<1> QED BY <1>5, <1>11, <1>12, NotLeaving DEF EmittedBy

LEMMA SwitchEmitted ==
  ASSUME NEW T, NEW sub, NEW gen, NEW nodes, Trusted(T, sub, gen, nodes), NEW e \in NodesOver(T),
         e.k = "switch", NEW x \in Good \cup {Untyped}, NEW c \in Contexts,
         Offered(nodes, Resolve(sub, e, x, c))
  PROVE  EmittedBy(gen, Resolve(sub, e, x, c).e, c, Resolve(sub, e, x, c).t)
<1> DEFINE r == Resolve(sub, e, x, c)
           p  == Check(sub, e.cs[1], Untyped, c)
           bs == Branches(sub, e.a, Bodies(e), x, c)
           f  == r.e
<1> SUFFICES EmittedBy(gen, f, c, r.t)
  OBVIOUS
<1>1. /\ r.ok /\ Valued(f) /\ EmittableParts(nodes, f) /\ RegularAt(T, sub) /\ EmitsAt(T, sub, gen, nodes)
      /\ GoodAt(T, sub, nodes) /\ x \in Expected
  BY GoodTypes DEF Offered, Trusted
<1>2. /\ Fine(T, sub, e.cs[1], Untyped, c, p) /\ LegalSwitch(e, p.t)
      /\ BodiesFine(T, sub, e.a, x, c, bs, r.t) /\ e.a # << >>
      /\ r.t \in Types /\ r.e = With(e, p.t, <<p.e>>, Trees(bs), r.t)
  BY <1>1, SwitchTaken
<1>3. e.cs[1] \in T /\ Apt(e.cs[1]) /\ e.a \in Seq(T)
  BY PartsOf, ExpressionsApt
<1> HIDE DEF r, p, bs, f
<1>4. \A i \in DOMAIN e.a : e.a[i] \in T /\ e.a[i].k \in {"case", "default"} /\ Apt(e.a[i])
  BY <1>2, PartsOf DEF Apt, LegalSwitch, Patterns, Fitting
<1>5. /\ f.k = "switch" /\ f.r = r.t /\ f.ty = p.t /\ f.cs = <<p.e>> /\ f.cs[1] = p.e /\ 1 \in DOMAIN f.cs
      /\ DOMAIN f.a = DOMAIN e.a /\ \A i \in DOMAIN e.a : f.a[i] = bs[i].e
  <2>1. f.k = e.k /\ f.r = r.t /\ f.ty = p.t /\ f.cs = <<p.e>> /\ f.a = Trees(bs)
    BY <1>2, WithIs DEF f
  <2>2. DOMAIN bs = DOMAIN e.a
    BY <1>2 DEF BodiesFine
  <2> QED BY <2>1, <2>2 DEF Trees
<1>6. Fits(Value(gen, p.e, c, FALSE), p.t, FALSE)
  <2>1. Emittable(nodes[p.e])
    BY <1>1, <1>5 DEF EmittableParts
  <2>2. EmittedAs(gen, p.e, c, p.t)
    BY <1>1, <1>2, <1>3, <2>1, PartEmitted
  <2>3. p.t \in ValueTypes
    <3>1. TypeOf(p.e) = p.t
      BY <1>2 DEF Fine
    <3> QED BY <1>1, <1>5, <3>1, ValuedConditions
  <2> QED BY <2>2, <2>3 DEF EmittedAs
<1>7. EmittableBranches(nodes, e.a, bs) /\ BranchesIn(T, e.a) /\ (r.t \in ValueTypes => EndInValues(e.a, bs))
  <2>1. EmittableBranches(nodes, e.a, bs)
    BY <1>1, <1>5 DEF EmittableParts, EmittableBranches
  <2>2. r.t \in ValueTypes => EndInValues(e.a, bs)
    BY <1>1, <1>4, <1>5 DEF Valued, HasValues, EndInValues
  <2>3. BranchesIn(T, e.a)
    BY <1>4 DEF BranchesIn
  <2> QED BY <2>1, <2>2, <2>3
<1>8. r.t \in Good
  <2>2. \A i \in DOMAIN e.a : AllValued(nodes[bs[i].e]) /\ Apt(e.a[i])
    BY <1>4, <1>7, EmittableIsValued DEF EmittableBranches
  <2> QED BY <1>1, <1>2, <1>3, <2>2, GoodBodies
<1>9. EmittedBranches(gen, e.a, bs, c, r.t)
  BY <1>1, <1>2, <1>7, <1>8, BranchesEmitted
<1>10. \A i \in DOMAIN e.a : /\ f.a[i].k = e.a[i].k /\ f.a[i].op = e.a[i].op
                             /\ e.a[i].k = "case" => BindsFields(f.a[i], FieldsOf(p.t, e.a[i].op))
  <2> SUFFICES ASSUME NEW i \in DOMAIN e.a
               PROVE  /\ f.a[i].k = e.a[i].k /\ f.a[i].op = e.a[i].op
                      /\ e.a[i].k = "case" => BindsFields(f.a[i], FieldsOf(p.t, e.a[i].op))
    OBVIOUS
  <2>1. PICK z : Body(T, sub, e.a[i], z, c, bs[i])
    BY <1>2 DEF BodiesFine
  <2>2. e.a[i].k = "case" => e.a[i].ty = p.t
    BY <1>2 DEF LegalSwitch, Patterns, Fitting
  <2> QED BY <1>5, <2>1, <2>2 DEF Body
<1>11. Chain(gen, f, c, FALSE)
  <2>1. ASSUME NEW i \in Patterns(f), NEW j \in DOMAIN f.a[i].cs
        PROVE  /\ f.a[i].cs[j].op \in NamesOf(FieldsOf(f.ty, f.a[i].op))
               /\ f.a[i].cs[j].r = TypeIn(FieldsOf(f.ty, f.a[i].op), f.a[i].cs[j].op)
    <3>1. i \in DOMAIN e.a /\ e.a[i].k = "case"
      BY <1>5, <1>10, <2>1 DEF Patterns
    <3>2. BindsFields(f.a[i], FieldsOf(f.ty, f.a[i].op))
      BY <1>5, <1>10, <3>1
    <3> QED BY <2>1, <3>2 DEF BindsFields
  <2> QED BY <1>5, <1>6, <2>1 DEF Chain
<1>12. AlwaysSet(f)
  <2> SUFFICES ASSUME NEW v \in NamesOf(Enum[p.t.con])
               PROVE  \E i \in DOMAIN f.a : f.a[i].k = "default" \/ f.a[i].op = v
    BY <1>5 DEF AlwaysSet
  <2>1. Covers(e.a, p.t)
    BY <1>2 DEF LegalSwitch
  <2>2. \E i \in DOMAIN e.a : e.a[i].k = "default" \/ e.a[i].op = v
    BY <2>1 DEF Covers
  <2> QED BY <1>5, <1>10, <2>2
<1>13. GenStmt(gen, f, c, FALSE)
  BY <1>5, <1>9, <1>11 DEF GenStmt, EmittedBranches
<1>14. r.t \in ValueTypes => Fits(GenValue(gen, f, c, FALSE), r.t, FALSE)
  <2> SUFFICES ASSUME r.t \in ValueTypes PROVE Fits(GenValue(gen, f, c, FALSE), r.t, FALSE)
    OBVIOUS
  <2>1. /\ HasValues(f.r) /\ Chain(gen, f, c, FALSE) /\ AlwaysSet(f)
        /\ \A i \in DOMAIN f.a : Yields(Value(gen, f.a[i], c, FALSE), f.r, FALSE)
    BY <1>5, <1>9, <1>11, <1>12 DEF EmittedBranches, HasValues
  <2>2. GenValue(gen, f, c, FALSE) = VarOperand(r.t)
    BY <1>5, <2>1 DEF GenValue, Given
  <2> QED BY <2>2, OperandFits
<1> QED BY <1>5, <1>13, <1>14, NotLeaving DEF EmittedBy

-----------------------------------------------------------------------------
(* GeneratorTrustsChecker. *)

LEMMA ResolveEmitted ==
  ASSUME NEW T, NEW sub, NEW gen, NEW nodes, Trusted(T, sub, gen, nodes), Renotable(T), NEW e \in NodesOver(T),
         Apt(e), NEW x \in Good \cup {Untyped}, NEW c \in Contexts, Offered(nodes, Resolve(sub, e, x, c))
  PROVE  EmittedBy(gen, Resolve(sub, e, x, c).e, c, Resolve(sub, e, x, c).t)
<1>1. e.k \in OverOne =>
        e.k \in {"unary", "field", "try", "let", "assign", "named"} \/ e.k = "discard"
  BY DEF OverOne
<1> QED BY <1>1, KindsOfNodes, LeafEmitted, JumpEmitted, ReturnEmitted, OneEmits, TwoEmits, ManyEmits,
           DiscardEmitted, BlockEmitted, CaseEmitted, WhileEmitted, IfEmitted, SwitchEmitted

\* The generator of the next level, node by node.
LEMMA GeneratorStepIs ==
  ASSUME NEW gen, NEW S, NEW d \in S, NEW c \in Contexts, NEW ranged \in BOOLEAN
  PROVE  /\ Value(GeneratorStep(gen, S), d, c, ranged) = GenValue(gen, d, c, ranged)
         /\ Runs(GeneratorStep(gen, S), d, c, ranged) <=> GenStmt(gen, d, c, ranged)
<1>1. "value" \in {"value", "run"} /\ "run" \in {"value", "run"} /\ "run" # "value"
  OBVIOUS
<1>2. Value(GeneratorStep(gen, S), d, c, ranged) = GenValue(gen, d, c, ranged)
  BY <1>1 DEF Value, GeneratorStep
<1>3. GeneratorStep(gen, S)[d][c][ranged]["run"] = Given(GenStmt(gen, d, c, ranged), Done)
  BY <1>1 DEF GeneratorStep
<1>4. Done.ok = TRUE /\ NoOperand.ok = FALSE
  BY DEF Done, VarOperand, NoOperand
<1>5. Runs(GeneratorStep(gen, S), d, c, ranged) <=> Given(GenStmt(gen, d, c, ranged), Done).ok
  BY <1>3 DEF Runs
<1>6. GenStmt(gen, d, c, ranged) => Given(GenStmt(gen, d, c, ranged), Done) = Done
  BY DEF Given
<1>7. ~GenStmt(gen, d, c, ranged) => Given(GenStmt(gen, d, c, ranged), Done) = NoOperand
  BY DEF Given
<1>8. Runs(GeneratorStep(gen, S), d, c, ranged) <=> GenStmt(gen, d, c, ranged)
  <2>1. GenStmt(gen, d, c, ranged) => Runs(GeneratorStep(gen, S), d, c, ranged)
    BY <1>4, <1>5, <1>6
  <2>2. ~GenStmt(gen, d, c, ranged) => ~Runs(GeneratorStep(gen, S), d, c, ranged)
    BY <1>4, <1>5, <1>7
  <2> QED BY <2>1, <2>2
<1> QED BY <1>2, <1>8

LEMMA TreesLiteral ==
  \A n \in Levels : LiteralsAt(TreesAt[n], Generator[n])
<1> SUFFICES ASSUME NEW n \in Levels, NEW d \in TreesAt[n], NEW c \in Contexts, NEW ranged \in BOOLEAN, d.k = "int"
             PROVE  Value(Generator[n], d, c, ranged) = LitOperand(d.n)
  BY DEF LiteralsAt
<1>1. Value(Generator[n], d, c, ranged) = GenValue(Generator[n - 1], d, c, ranged)
  BY GeneratorIs, GeneratorStepIs
<1> QED BY <1>1 DEF GenValue

LEMMA CheckerTrusted ==
  \A n \in Levels : EmitsAt(TreesAt[n], Checker[n], Generator[n], Nodes[n])
<1> DEFINE K == {n \in Levels : EmitsAt(TreesAt[n], Checker[n], Generator[n], Nodes[n])}
<1>1. 0 \in K
  BY TreesAre, DepthIsNat DEF EmitsAt, Levels
<1>2. ASSUME NEW n \in Levels \ {0}, n - 1 \in K PROVE n \in K
  <2> DEFINE T == TreesAt[n - 1]
             sub == Checker[n - 1]
             gen == Generator[n - 1]
             nodes == Nodes[n - 1]
             step == NodesStep(nodes, NodesOver(T))
             emits == GeneratorStep(gen, NodesOver(T))
  <2>1. /\ TreesAt[n] = NodesOver(T) /\ Checker[n] = CheckerStep(sub, NodesOver(T))
        /\ Nodes[n] = step /\ Generator[n] = emits
    BY TreesAre, CheckerIs, NodesIs, GeneratorIs
  <2>2. Trusted(T, sub, gen, nodes) /\ Renotable(T) /\ RegularAt(T, sub)
    <3>1. n - 1 \in Levels
      BY DepthIsNat DEF Levels
    <3> QED BY <1>2, <3>1, TreesRenotable, CheckerRegular, CheckerGood, TreesProper, TreesLiteral DEF Trusted
  <2> HIDE DEF T, sub, nodes, gen
  <2>3. ASSUME NEW d \in NodesOver(T), NEW x \in Good \cup {Untyped}, NEW c \in Contexts, Apt(d),
               Resolve(sub, d, x, c).ok, Emittable(step[Resolve(sub, d, x, c).e])
        PROVE  EmittedAs(emits, Resolve(sub, d, x, c).e, c, Resolve(sub, d, x, c).t)
    <3> DEFINE r == Resolve(sub, d, x, c)
    <3>0. x \in Expected
      BY GoodTypes
    <3>1. r.e \in NodesOver(T)
      BY <2>2, <2>3, <3>0, ResolveRegular DEF Regular
    <3>2. Offered(nodes, r)
      BY <2>3, <3>1, EmittableOf DEF Offered
    <3>3. EmittedBy(gen, r.e, c, r.t)
      BY <2>2, <2>3, <3>2, ResolveEmitted
    <3>4. /\ Value(emits, r.e, c, FALSE) = GenValue(gen, r.e, c, FALSE)
          /\ Runs(emits, r.e, c, FALSE) <=> GenStmt(gen, r.e, c, FALSE)
      <4> HIDE DEF r
      <4> QED BY <3>1, GeneratorStepIs
    <3> HIDE DEF r, emits
    <3>5. EmittedAs(emits, r.e, c, r.t)
      BY <3>3, <3>4 DEF EmittedAs, EmittedBy
    <3> QED BY <3>5 DEF r
  <2> HIDE DEF step, emits
  <2>4. \A d \in NodesOver(T) : \A x \in Good \cup {Untyped}, c \in Contexts :
          CheckerStep(sub, NodesOver(T))[d][x][c] = Resolve(sub, d, x, c)
    BY GoodTypes DEF CheckerStep
  <2>5. EmitsAt(NodesOver(T), CheckerStep(sub, NodesOver(T)), emits, step)
    BY <2>3, <2>4 DEF EmitsAt
  <2> QED BY <2>1, <2>5
<1> HIDE DEF K
<1>3. \A n \in Levels : n \in K
  BY <1>1, <1>2, LevelInduct
<1> QED BY <1>3 DEF K

\* A function that was accepted is emitted.
LEMMA ResultEmitted ==
  ASSUME NEW p \in Programs, Result(p.body, p).ok, Emittable(Nodes[Depth][Result(p.body, p).e]),
         p.ret # Unit => EndsInValue(Result(p.body, p).e)
  PROVE  Emits(Result(p.body, p).e, p, FALSE)
<1> DEFINE r == Result(p.body, p)
           g == Outside(p)
           T == TreesAt[Depth]
<1>1. /\ Depth \in Levels /\ g \in Contexts /\ p.ret \in ValueTypes \cup {Unit}
      /\ p.body.k = "block" /\ Apt(p.body) /\ p.body \in T
      /\ Body(T, Checker[Depth], p.body, p.ret, g, r) /\ r.t \in {p.ret, Never}
  BY BodyChecked
<1>2. Emittable(Nodes[Depth][r.e]) /\ (p.ret # Unit => EndsInValue(r.e))
  OBVIOUS
<1> HIDE DEF r, g, T
<1>3. p.ret \in Good \cup {Untyped}
  BY <1>1 DEF Good
<1>4. EmittedAs(Generator[Depth], r.e, g, r.t)
  BY <1>1, <1>2, <1>3, CheckerTrusted, BodyEmitted DEF T
<1>5. CASE p.ret = Unit
  BY <1>4, <1>5 DEF Emits, EmittedAs, g, r
<1>6. CASE p.ret # Unit
  <2>1. p.ret \in ValueTypes
    BY <1>1, <1>6
  <2>2. r.t = Never => Value(Generator[Depth], r.e, g, FALSE) = Left
    <3> SUFFICES ASSUME r.t = Never PROVE Value(Generator[Depth], r.e, g, FALSE) = Left
      OBVIOUS
    <3>1. r.e.k = "block" /\ BlockType(r.e) = Never
      BY <1>1 DEF Body
    <3>2. EndsInNever(r.e)
      BY <1>2, <1>6, <3>1, NeverLeaves
    <3> QED BY <1>4, <3>1, <3>2 DEF EmittedAs, Leaves, Diverging
  <2>3. Yields(Value(Generator[Depth], r.e, g, FALSE), p.ret, FALSE)
    BY <1>1, <1>4, <2>1, <2>2 DEF Yields, EmittedAs
  <2> QED BY <1>6, <2>3 DEF Emits, g, r
<1> QED BY <1>5, <1>6

\* What the checker has annotated, the generator emits, with the types that
\* the Go compiler wants.
THEOREM AnnotatedIsEmitted == Spec => []GeneratorTrustsChecker
<1>1. Annotating => GeneratorTrustsChecker
  <2> SUFFICES ASSUME Annotating, phase = "checked", UsesValues, ComparesComparable
               PROVE  Emits(tree, program, FALSE)
    BY DEF GeneratorTrustsChecker
  <2>1. program \in Programs /\ Result(program.body, program).ok /\ tree = Result(program.body, program).e
    BY DEF Annotating
  <2>2. Emittable(Nodes[Depth][tree]) /\ (program.ret # Unit => EndsInValue(tree))
    BY DEF Emittable, ComparesWell, UsesValues, ComparesComparable
  <2> QED BY <2>1, <2>2, ResultEmitted
<1> QED BY <1>1, AnnotatingInvariant, PTL

-----------------------------------------------------------------------------
(***************************************************************************)
(* Literals.  An operand is the same, whether or not literals are range    *)
(* checked; one that is a literal is that of a constant, and a value of the *)
(* type that the checker found.                                             *)
(***************************************************************************)
KeptValue(v, w, t) ==
  v.ok => w = v /\ (v.lit => IsInt(t) /\ v.n \in MinOf(t) .. MaxOf(t))

KeptAs(gen, f, c, t) ==
  /\ KeptValue(Value(gen, f, c, FALSE), Value(gen, f, c, TRUE), t)
  /\ Runs(gen, f, c, FALSE) => Runs(gen, f, c, TRUE)
  /\ f.k \in Expression /\ Value(gen, f, c, FALSE).ok /\ Value(gen, f, c, FALSE).lit => Constant(f)

KeptBy(gen, f, c, t) ==
  /\ KeptValue(GenValue(gen, f, c, FALSE), GenValue(gen, f, c, TRUE), t)
  /\ GenStmt(gen, f, c, FALSE) => GenStmt(gen, f, c, TRUE)
  /\ f.k \in Expression /\ GenValue(gen, f, c, FALSE).ok /\ GenValue(gen, f, c, FALSE).lit => Constant(f)

AllSimple(S) == \A f \in S : Simple(f)
SimpleParts(nodes, f) ==
  /\ \A i \in DOMAIN f.a : AllSimple(nodes[f.a[i]])
  /\ \A i \in DOMAIN f.cs : AllSimple(nodes[f.cs[i]])

KeptAt(T, sub, gen, nodes) ==
  \A d \in T : \A x \in Expected, c \in Contexts :
    Apt(d) /\ sub[d][x][c].ok /\ AllSimple(nodes[sub[d][x][c].e])
      => KeptAs(gen, sub[d][x][c].e, c, sub[d][x][c].t)

Keeping(T, sub, gen, nodes) ==
  /\ Proper(T) /\ LiteralsAt(T, gen) /\ RegularAt(T, sub) /\ KeptAt(T, sub, gen, nodes)
Literate(nodes, r) == r.ok /\ Simple(r.e) /\ SimpleParts(nodes, r.e)

LEMMA SimpleOf ==
  ASSUME NEW T, NEW e \in NodesOver(T), NEW nodes, AllSimple(NodesStep(nodes, NodesOver(T))[e])
  PROVE  Simple(e) /\ SimpleParts(nodes, e)
<1>1. Simple(e)
  BY NodesOfParts DEF AllSimple
<1>2. ASSUME NEW i \in DOMAIN e.a PROVE AllSimple(nodes[e.a[i]])
  BY NodesOfParts DEF AllSimple
<1>3. ASSUME NEW i \in DOMAIN e.cs PROVE AllSimple(nodes[e.cs[i]])
  BY NodesOfParts DEF AllSimple
<1> QED BY <1>1, <1>2, <1>3 DEF SimpleParts

\* The values of an integer type are around zero.
LEMMA IntRange ==
  ASSUME NEW t, IsInt(t)
  PROVE  /\ MinOf(t) \in Int /\ MaxOf(t) \in Int /\ MinOf(t) <= 0 /\ 0 <= MaxOf(t)
         /\ IsUInt(t) => MinOf(t) = 0
<1>1. t.con \in Signed \cup Unsigned /\ Named(t.con).con = t.con
  BY DEF IsInt, Named
<1>2. Bits[t.con] \in Nat \ {0} /\ 0 \in MinOf(Named(t.con)) .. MaxOf(Named(t.con))
  BY <1>1, TypingAssumption
<1>3. MinOf(t) = MinOf(Named(t.con)) /\ MaxOf(t) = MaxOf(Named(t.con))
  BY <1>1 DEF MinOf, MaxOf, IsUInt
<1>4. 2 ^ Bits[t.con] \in Int /\ 2 ^ (Bits[t.con] - 1) \in Int
  BY <1>2
<1>5. MinOf(t) \in Int /\ MaxOf(t) \in Int
  BY <1>4 DEF MinOf, MaxOf
<1>6. IsUInt(t) => MinOf(t) = 0
  BY DEF MinOf
<1>7. 0 \in MinOf(t) .. MaxOf(t)
  BY <1>2, <1>3
<1> HIDE DEF MinOf, MaxOf
<1> QED BY <1>5, <1>6, <1>7

LEMMA PartKept ==
  ASSUME NEW T, NEW sub, NEW gen, NEW nodes, KeptAt(T, sub, gen, nodes), NEW d \in T, Apt(d),
         NEW y, NEW c \in Contexts, NEW p, Fine(T, sub, d, y, c, p), AllSimple(nodes[p.e])
  PROVE  KeptAs(gen, p.e, c, p.t)
<1>1. p = sub[d][y][c] /\ p.ok /\ y \in Expected
  BY DEF Fine
<1> QED BY <1>1 DEF KeptAt

LEMMA BodyKept ==
  ASSUME NEW T, NEW sub, NEW gen, NEW nodes, KeptAt(T, sub, gen, nodes), NEW d \in T, Apt(d),
         NEW y, NEW c \in Contexts, NEW p, Body(T, sub, d, y, c, p), AllSimple(nodes[p.e])
  PROVE  KeptAs(gen, p.e, c, p.t)
<1>1. p = sub[d][y][c] /\ p.ok /\ y \in Expected
  BY DEF Body
<1> QED BY <1>1 DEF KeptAt

\* An operand that is kept goes where it went without the check.
LEMMA FitsKept ==
  \A v, w, t, u : KeptValue(v, w, t) /\ t \in {u, Never} /\ Fits(v, u, FALSE) => Fits(w, u, TRUE)
<1> SUFFICES ASSUME NEW v, NEW w, NEW t, NEW u, KeptValue(v, w, t), t \in {u, Never}, Fits(v, u, FALSE)
             PROVE  Fits(w, u, TRUE)
  OBVIOUS
<1>1. v.ok /\ w = v
  BY DEF Fits, KeptValue
<1>2. CASE v.lit
  <2>1. IsInt(t) /\ v.n \in MinOf(t) .. MaxOf(t)
    BY <1>1, <1>2 DEF KeptValue
  <2>2. t = u
    BY <2>1 DEF IsInt, Never, Named, Signed, Unsigned
  <2> QED BY <1>1, <1>2, <2>1, <2>2 DEF Fits
<1>3. CASE ~v.lit
  BY <1>1, <1>3 DEF Fits
<1> QED BY <1>1, <1>2, <1>3

LEMMA YieldsKept ==
  \A v, w, t, u : KeptValue(v, w, t) /\ t \in {u, Never} /\ Yields(v, u, FALSE) => Yields(w, u, TRUE)
<1> SUFFICES ASSUME NEW v, NEW w, NEW t, NEW u, KeptValue(v, w, t), t \in {u, Never}, Yields(v, u, FALSE)
             PROVE  Yields(w, u, TRUE)
  OBVIOUS
<1>1. CASE v = Left
  <2>1. v.ok
    BY <1>1 DEF Left, VarOperand
  <2> QED BY <1>1, <2>1 DEF KeptValue, Yields
<1>2. CASE Fits(v, u, FALSE)
  <2>1. Fits(w, u, TRUE)
    BY <1>2, FitsKept
  <2> QED BY <2>1 DEF Yields
<1> QED BY <1>1, <1>2 DEF Yields

\* No literal goes where no integer does.
LEMMA FitsOtherwise ==
  \A v, w, t, u : KeptValue(v, w, t) /\ ~IsInt(u) /\ Fits(v, u, FALSE) => Fits(w, u, TRUE)
BY DEF Fits, KeptValue

\* A node whose value is a variable, with the check if it is there without.
Settles(v, w, o) == v = NoOperand \/ (v = VarOperand(o) /\ w = VarOperand(o))

LEMMA VariableKept ==
  ASSUME NEW v, NEW w, NEW o, Settles(v, w, o), NEW t
  PROVE  KeptValue(v, w, t) /\ (v.ok => w.ok) /\ ~v.lit
<1>1. /\ VarOperand(o).ok = TRUE /\ VarOperand(o).lit = FALSE
      /\ NoOperand.ok = FALSE /\ NoOperand.lit = FALSE
  BY DEF VarOperand, NoOperand
<1>2. CASE v = VarOperand(o) /\ w = VarOperand(o)
  BY <1>1, <1>2 DEF KeptValue
<1>3. CASE v = NoOperand
  BY <1>1, <1>3 DEF KeptValue
<1> QED BY <1>2, <1>3 DEF Settles

LEMMA ValueKept ==
  ASSUME NEW gen, NEW f, NEW c, NEW t, NEW o,
         Settles(GenValue(gen, f, c, FALSE), GenValue(gen, f, c, TRUE), o),
         f.k \in {"unary", "binary", "list", "struct", "variant", "tuple", "field"}
  PROVE  KeptBy(gen, f, c, t)
<1>1. /\ GenStmt(gen, f, c, FALSE) = GenValue(gen, f, c, FALSE).ok
      /\ GenStmt(gen, f, c, TRUE) = GenValue(gen, f, c, TRUE).ok
  BY DEF GenStmt
<1> DEFINE v == GenValue(gen, f, c, FALSE)
           w == GenValue(gen, f, c, TRUE)
<1>2. Settles(v, w, o)
  OBVIOUS
<1> HIDE DEF v, w
<1>3. KeptValue(v, w, t) /\ (v.ok => w.ok) /\ ~v.lit
  BY <1>2, VariableKept
<1> QED BY <1>1, <1>3 DEF KeptBy, v, w

\* A node without value.
LEMMA StatementKept ==
  \A gen, f, c, t :
    /\ f.k \in {"while", "let", "assign", "discard", "return", "break", "continue"}
    /\ GenStmt(gen, f, c, FALSE) => GenStmt(gen, f, c, TRUE)
    => KeptBy(gen, f, c, t)
<1> TAKE gen, f, c, t
<1> HAVE /\ f.k \in {"while", "let", "assign", "discard", "return", "break", "continue"}
         /\ GenStmt(gen, f, c, FALSE) => GenStmt(gen, f, c, TRUE)
<1>1. GenValue(gen, f, c, FALSE) = NoOperand
  BY DEF GenValue
<1>2. NoOperand.ok = FALSE
  BY DEF NoOperand
<1> QED BY <1>1, <1>2 DEF KeptBy, KeptValue

LEMMA LeafKept ==
  ASSUME NEW T, NEW sub, NEW gen, NEW nodes, Keeping(T, sub, gen, nodes), NEW e \in NodesOver(T),
         e.k \in {"int", "var", "bound"}, NEW x \in Expected, NEW c \in Contexts,
         Literate(nodes, Resolve(sub, e, x, c))
  PROVE  KeptBy(gen, Resolve(sub, e, x, c).e, c, Resolve(sub, e, x, c).t)
<1> DEFINE r == Resolve(sub, e, x, c)
           f == r.e
<1> SUFFICES KeptBy(gen, f, c, r.t)
  OBVIOUS
<1>1. r.ok
  BY DEF Literate
<1>2. \A t : r.e = Annotated(e, e.a, t) => f.k = e.k /\ f.op = e.op /\ f.n = e.n /\ f.ty = e.ty /\ f.r = t
  BY WithIs DEF Annotated
<1>3. CASE e.k = "int"
  <2>1. IsInt(r.t) /\ e.n <= MaxOf(r.t) /\ r.e = Annotated(e, e.a, r.t)
    BY <1>1, <1>3, IntTaken
  <2>2. f.k = "int" /\ f.n = e.n
    BY <1>2, <1>3, <2>1
  <2> HIDE DEF r, f
  <2>3. e.n \in MinOf(r.t) .. MaxOf(r.t)
    <3>1. e.n \in Nat
      BY NodeIs
    <3>2. MinOf(r.t) \in Int /\ MaxOf(r.t) \in Int /\ MinOf(r.t) <= 0
      BY <2>1, IntRange
    <3> HIDE DEF MinOf, MaxOf
    <3> QED BY <2>1, <3>1, <3>2
  <2>4. /\ GenValue(gen, f, c, FALSE) = LitOperand(e.n) /\ GenValue(gen, f, c, TRUE) = LitOperand(e.n)
        /\ GenStmt(gen, f, c, TRUE)
    BY <2>2 DEF GenValue, GenStmt
  <2>5. KeptValue(GenValue(gen, f, c, FALSE), GenValue(gen, f, c, TRUE), r.t)
    BY <2>1, <2>3, <2>4, LiteralFits DEF KeptValue
  <2> QED BY <2>2, <2>4, <2>5 DEF KeptBy, Constant, IsLit
<1>4. CASE e.k \in {"var", "bound"}
  <2>1. f.k = e.k
    <3>1. CASE e.k = "var"
      BY <1>2, <3>1, VarTaken
    <3>2. CASE e.k = "bound"
      BY <1>1, <1>2, <3>2, BoundTaken
    <3> QED BY <1>4, <3>1, <3>2
  <2> HIDE DEF r, f
  <2>2. GenStmt(gen, f, c, TRUE)
    BY <1>4, <2>1 DEF GenStmt
  <2>3. \E o : Settles(GenValue(gen, f, c, FALSE), GenValue(gen, f, c, TRUE), o)
    <3>1. CASE e.k = "var"
      <4>1. GenValue(gen, f, c, FALSE) = VarOperand(f.ty) /\ GenValue(gen, f, c, TRUE) = VarOperand(f.ty)
        BY <2>1, <3>1 DEF GenValue
      <4> QED BY <4>1 DEF Settles
    <3>2. CASE e.k = "bound"
      <4>1. Settles(GenValue(gen, f, c, FALSE), GenValue(gen, f, c, TRUE), c.bound[f.op])
        BY <2>1, <3>2 DEF GenValue, Given, Settles
      <4> QED BY <4>1
    <3> QED BY <1>4, <3>1, <3>2
  <2>4. KeptValue(GenValue(gen, f, c, FALSE), GenValue(gen, f, c, TRUE), r.t) /\ ~GenValue(gen, f, c, FALSE).lit
    BY <2>3, VariableKept
  <2> QED BY <2>2, <2>4 DEF KeptBy
<1> QED BY <1>3, <1>4

LEMMA JumpKept ==
  ASSUME NEW T, NEW sub, NEW gen, NEW nodes, Keeping(T, sub, gen, nodes), NEW e \in NodesOver(T),
         e.k \in {"break", "continue"} \/ (e.k = "return" /\ e.a = << >>),
         NEW x \in Expected, NEW c \in Contexts, Literate(nodes, Resolve(sub, e, x, c))
  PROVE  KeptBy(gen, Resolve(sub, e, x, c).e, c, Resolve(sub, e, x, c).t)
<1> DEFINE r == Resolve(sub, e, x, c)
<1> SUFFICES KeptBy(gen, r.e, c, r.t)
  OBVIOUS
<1>1. r.ok
  BY DEF Literate
<1>2. r.e = e
  <2>1. CASE e.k \in {"break", "continue"}
    <3>1. r = Typed(Never, e)
      BY <1>1, <2>1, JumpTaken
    <3> HIDE DEF r
    <3> QED BY <3>1, BadIsBad
  <2>2. CASE e.k = "return" /\ e.a = << >>
    <3>1. r = Typed(Never, e)
      BY <1>1, <2>2, EmptyReturnTaken
    <3> HIDE DEF r
    <3> QED BY <3>1, BadIsBad
  <2> QED BY <2>1, <2>2
<1>3. GenStmt(gen, e, c, FALSE) => GenStmt(gen, e, c, TRUE)
  BY DEF GenStmt
<1> HIDE DEF r
<1> QED BY <1>2, <1>3, StatementKept

LEMMA ReturnKept ==
  ASSUME NEW T, NEW sub, NEW gen, NEW nodes, Keeping(T, sub, gen, nodes), NEW e \in NodesOver(T),
         e.k = "return", e.a # << >>, NEW x \in Expected, NEW c \in Contexts,
         Literate(nodes, Resolve(sub, e, x, c))
  PROVE  KeptBy(gen, Resolve(sub, e, x, c).e, c, Resolve(sub, e, x, c).t)
<1> DEFINE r == Resolve(sub, e, x, c)
           p == Check(sub, e.a[1], c.ret, c)
           f == r.e
<1> SUFFICES KeptBy(gen, f, c, r.t)
  OBVIOUS
<1>1. /\ r.ok /\ SimpleParts(nodes, f) /\ RegularAt(T, sub) /\ KeptAt(T, sub, gen, nodes)
  BY DEF Literate, Keeping
<1>2. /\ Fine(T, sub, e.a[1], c.ret, c, p) /\ p.t \in {c.ret, Never}
      /\ f = Annotated(e, <<p.e>>, p.t)
  BY <1>1, ReturnTaken
<1>3. e.a[1] \in T /\ Apt(e.a[1])
  BY ReturnPart, ExpressionsApt
<1> HIDE DEF r, p, f
<1>4. f.k = "return" /\ f.a = <<p.e>> /\ f.a[1] = p.e /\ f.a # << >> /\ 1 \in DOMAIN f.a
  BY <1>2, OneAnnotated
<1>5. KeptAs(gen, p.e, c, p.t)
  <2>1. AllSimple(nodes[p.e])
    BY <1>1, <1>4 DEF SimpleParts
  <2> QED BY <1>1, <1>2, <1>3, <2>1, PartKept
<1>6. Fits(Value(gen, p.e, c, FALSE), c.ret, FALSE) => Fits(Value(gen, p.e, c, TRUE), c.ret, TRUE)
  BY <1>2, <1>5, FitsKept DEF KeptAs
<1>7. GenStmt(gen, f, c, FALSE) => GenStmt(gen, f, c, TRUE)
  BY <1>4, <1>6 DEF GenStmt
<1> QED BY <1>4, <1>7, StatementKept

\* A node over one part.
LEMMA OneKept ==
  ASSUME NEW T, NEW sub, NEW gen, NEW nodes, Keeping(T, sub, gen, nodes), NEW e \in NodesOver(T),
         e.k \in OverOne, NEW x \in Expected, NEW c \in Contexts, Literate(nodes, Resolve(sub, e, x, c))
  PROVE  KeptBy(gen, Resolve(sub, e, x, c).e, c, Resolve(sub, e, x, c).t)
<1> DEFINE r == Resolve(sub, e, x, c)
           d == e.a[1]
           f == r.e
<1> SUFFICES KeptBy(gen, f, c, r.t)
  OBVIOUS
<1>1. /\ r.ok /\ Simple(f) /\ SimpleParts(nodes, f)
      /\ RegularAt(T, sub) /\ KeptAt(T, sub, gen, nodes) /\ LiteralsAt(T, gen) /\ Proper(T)
  BY DEF Literate, Keeping
<1>2. d \in T /\ Apt(d) /\ d.k \in Expression
  BY PartsOf, ExpressionsApt
<1>3. ASSUME NEW p, NEW y, NEW t, Fine(T, sub, d, y, c, p), f = Annotated(e, <<p.e>>, t)
      PROVE  /\ KeptAs(gen, p.e, c, p.t) /\ p.e.k = d.k
             /\ f.k = e.k /\ f.op = e.op /\ f.ty = e.ty /\ f.r = t /\ f.a[1] = p.e
  <2> HIDE DEF r, f
  <2>1. f.k = e.k /\ f.op = e.op /\ f.ty = e.ty /\ f.r = t /\ f.a[1] = p.e /\ DOMAIN f.a = {1}
    BY <1>3, OneAnnotated
  <2>2. AllSimple(nodes[p.e])
    BY <1>1, <2>1 DEF SimpleParts
  <2>3. KeptAs(gen, p.e, c, p.t)
    BY <1>1, <1>2, <1>3, <2>2, PartKept
  <2> QED BY <1>3, <2>1, <2>3 DEF Fine
<1>4. e.k = "unary" => e.op \in {"!", "-"}
  BY NodeIs DEF Shaped
<1>5. CASE e.k = "unary" /\ e.op = "!"
  <2> DEFINE p == Check(sub, d, Bool, c)
  <2>1. Fine(T, sub, d, Bool, c, p) /\ p.t \in {Bool, Never} /\ f = Annotated(e, <<p.e>>, Bool)
    BY <1>1, <1>5, NotTaken
  <2> DEFINE v == Value(gen, p.e, c, FALSE)
             w == Value(gen, p.e, c, TRUE)
  <2> HIDE DEF p
  <2>2. KeptAs(gen, p.e, c, p.t) /\ f.k = "unary" /\ f.op = "!" /\ f.r = Bool /\ f.a[1] = p.e
    BY <1>3, <1>5, <2>1
  <2> HIDE DEF r, f
  <2>3. Fits(v, Bool, FALSE) => Fits(w, Bool, TRUE)
    BY <2>1, <2>2, FitsKept DEF KeptAs
  <2>4. /\ GenValue(gen, f, c, FALSE) = Given(Fits(v, Bool, FALSE), VarOperand(Bool))
        /\ GenValue(gen, f, c, TRUE) = Given(Fits(w, Bool, TRUE), VarOperand(Bool))
    BY <2>2 DEF GenValue, Negated
  <2>5. Settles(GenValue(gen, f, c, FALSE), GenValue(gen, f, c, TRUE), Bool)
    BY <2>3, <2>4 DEF Settles, Given
  <2> QED BY <2>2, <2>5, ValueKept
<1>6. CASE e.k = "unary" /\ e.op = "-" /\ IsLit(d)
  <2>1. IsInt(r.t) /\ d.n <= NegatedLimit(r.t) /\ f = Annotated(e, e.a, r.t)
    BY <1>1, <1>6, MinusLiteralTaken
  <2>2. f.k = "unary" /\ f.op = "-" /\ f.a[1] = d /\ f.r = r.t
    BY <1>6, <2>1, WithIs DEF Annotated
  <2>3. Value(gen, d, c, FALSE) = LitOperand(d.n) /\ Value(gen, d, c, TRUE) = LitOperand(d.n)
    BY <1>1, <1>2, <1>6 DEF LiteralsAt, IsLit
  <2> HIDE DEF r, f, d
  <2>4. GenValue(gen, f, c, FALSE) = LitOperand(-d.n) /\ GenValue(gen, f, c, TRUE) = LitOperand(-d.n)
    <3>1. /\ GenValue(gen, f, c, FALSE) = Negated(f, LitOperand(d.n), FALSE)
          /\ GenValue(gen, f, c, TRUE) = Negated(f, LitOperand(d.n), TRUE)
      BY <2>2, <2>3 DEF GenValue
    <3> QED BY <2>2, <3>1, LiteralFits DEF Negated
  <2>5. -d.n \in MinOf(r.t) .. MaxOf(r.t)
    <3>1. d.n \in Nat
      BY <1>1, <1>2 DEF Proper
    <3>2. ~IsUInt(r.t)
      BY <1>1, <1>6, <2>2 DEF Simple, Minus
    <3>3. -d.n >= MinOf(r.t)
      BY <2>1, <3>1, <3>2, NegatedInRange
    <3>4. MinOf(r.t) \in Int /\ MaxOf(r.t) \in Int /\ 0 <= MaxOf(r.t)
      BY <2>1, IntRange
    <3> HIDE DEF MinOf, MaxOf
    <3> QED BY <3>1, <3>3, <3>4
  <2>6. KeptValue(GenValue(gen, f, c, FALSE), GenValue(gen, f, c, TRUE), r.t)
    BY <2>1, <2>4, <2>5, LiteralFits DEF KeptValue
  <2>7. GenStmt(gen, f, c, TRUE)
    BY <2>2, <2>4, LiteralFits DEF GenStmt
  <2>8. Constant(f)
    BY <1>6, <2>2 DEF Constant, Minus
  <2> QED BY <2>6, <2>7, <2>8 DEF KeptBy
<1>7. CASE e.k = "unary" /\ e.op = "-" /\ ~IsLit(d)
  <2> DEFINE p == Check(sub, d, x, c)
  <2>1. Fine(T, sub, d, x, c, p) /\ f = Annotated(e, <<p.e>>, p.t) /\ r.t = p.t
    BY <1>1, <1>7, MinusTaken
  <2> DEFINE v == Value(gen, p.e, c, FALSE)
             w == Value(gen, p.e, c, TRUE)
  <2> HIDE DEF p
  <2>2. KeptAs(gen, p.e, c, p.t) /\ f.k = "unary" /\ f.op = "-" /\ f.r = p.t /\ f.a[1] = p.e /\ p.e.k = d.k
    BY <1>3, <1>7, <2>1
  <2> HIDE DEF r, f
  <2>3. Fits(v, p.t, FALSE) => Fits(w, p.t, TRUE)
    BY <2>2, FitsKept DEF KeptAs
  <2>4. ~(v.ok /\ v.lit)
    <3>1. ~IsLit(p.e)
      BY <1>7, <2>2 DEF IsLit
    <3>2. ~Constant(p.e)
      BY <1>1, <2>2, <3>1 DEF Simple, Minus, Constant
    <3> QED BY <1>2, <2>2, <3>2 DEF KeptAs
  <2>5. ~v.ok \/ w = v
    BY <2>2 DEF KeptAs, KeptValue
  <2>6. /\ GenValue(gen, f, c, FALSE) = Negated(f, v, FALSE)
        /\ GenValue(gen, f, c, TRUE) = Negated(f, w, TRUE)
    BY <2>2 DEF GenValue
  <2>f. Fits(v, p.t, FALSE) => v.ok
    BY DEF Fits
  <2> HIDE DEF v, w
  <2>7. Settles(GenValue(gen, f, c, FALSE), GenValue(gen, f, c, TRUE), p.t)
    <3>1. GenValue(gen, f, c, FALSE) = Given(Fits(v, p.t, FALSE), VarOperand(p.t))
      BY <2>2, <2>4, <2>6 DEF Negated
    <3>2. CASE v.ok
      <4>1. GenValue(gen, f, c, TRUE) = Given(Fits(w, p.t, TRUE), VarOperand(p.t))
        BY <2>2, <2>4, <2>5, <2>6, <3>2 DEF Negated
      <4> QED BY <2>3, <3>1, <4>1 DEF Settles, Given
    <3>3. CASE ~v.ok
      BY <2>f, <3>1, <3>3 DEF Settles, Given
    <3> QED BY <3>2, <3>3
  <2> QED BY <2>2, <2>7, ValueKept
<1>8. CASE e.k = "named"
  <2> DEFINE p == Check(sub, d, x, c)
  <2>1. Fine(T, sub, d, x, c, p) /\ r.t = p.t /\ f = Annotated(e, <<p.e>>, p.t)
    BY <1>1, <1>8, NamedTaken
  <2> HIDE DEF p
  <2>2. KeptAs(gen, p.e, c, p.t) /\ f.k = "named" /\ f.a[1] = p.e
    BY <1>3, <1>8, <2>1
  <2> HIDE DEF r, f
  <2>3. /\ GenValue(gen, f, c, FALSE) = Value(gen, p.e, c, FALSE)
        /\ GenValue(gen, f, c, TRUE) = Value(gen, p.e, c, TRUE)
    BY <2>2 DEF GenValue
  <2>4. /\ GenStmt(gen, f, c, FALSE) <=> GenValue(gen, f, c, FALSE).ok
        /\ GenStmt(gen, f, c, TRUE) <=> GenValue(gen, f, c, TRUE).ok
    BY <2>2 DEF GenStmt
  <2>5. f.k \notin Expression
    BY <2>2 DEF Expression
  <2> QED BY <2>1, <2>2, <2>3, <2>4, <2>5 DEF KeptBy, KeptAs, KeptValue
<1>9. CASE e.k = "field"
  <2> DEFINE p == Check(sub, d, Untyped, c)
  <2>1. Fine(T, sub, d, Untyped, c, p) /\ f = Annotated(e, <<p.e>>, r.t)
    BY <1>1, <1>9, FieldTaken
  <2> DEFINE v == Value(gen, p.e, c, FALSE)
             w == Value(gen, p.e, c, TRUE)
             Reads(u) == u.ok /\ f.op \in NamesOf(Readable(u.t)) /\ TypeIn(Readable(u.t), f.op) = f.r
  <2> HIDE DEF p
  <2>2. KeptAs(gen, p.e, c, p.t) /\ f.k = "field" /\ f.a[1] = p.e
    BY <1>3, <1>9, <2>1
  <2> HIDE DEF r, f
  <2>3. /\ GenValue(gen, f, c, FALSE) = Given(Reads(v), VarOperand(f.r))
        /\ GenValue(gen, f, c, TRUE) = Given(Reads(w), VarOperand(f.r))
    BY <2>2 DEF GenValue
  <2>4. v.ok => w = v
    BY <2>2 DEF KeptAs, KeptValue
  <2> HIDE DEF v, w
  <2>5. Settles(GenValue(gen, f, c, FALSE), GenValue(gen, f, c, TRUE), f.r)
    BY <2>3, <2>4 DEF Settles, Given
  <2> QED BY <2>2, <2>5, ValueKept
<1>10. CASE e.k = "try"
  <2> DEFINE p == Check(sub, d, Untyped, c)
  <2>1. Fine(T, sub, d, Untyped, c, p) /\ f = Annotated(e, <<p.e>>, r.t)
    BY <1>1, <1>10, TryTaken
  <2> HIDE DEF p
  <2>2. KeptAs(gen, p.e, c, p.t) /\ f.k = "try" /\ f.a[1] = p.e
    BY <1>3, <1>10, <2>1
  <2> DEFINE u == IF f.r = Unit THEN ErrorT ELSE Pair(f.r, ErrorT)
  <2> HIDE DEF r, f
  <2>3. ~IsInt(u)
    BY DEF IsInt, ErrorT, Named, Pair, Signed, Unsigned
  <2> HIDE DEF u
  <2>4. Fits(Value(gen, p.e, c, FALSE), u, FALSE) => Fits(Value(gen, p.e, c, TRUE), u, TRUE)
    BY <2>2, <2>3, FitsOtherwise DEF KeptAs
  <2>5. Tried(gen, f, c, FALSE) => Tried(gen, f, c, TRUE)
    BY <2>2, <2>4 DEF Tried, u
  <2>6. GenStmt(gen, f, c, FALSE) => GenStmt(gen, f, c, TRUE)
    BY <2>2, <2>5 DEF GenStmt
  <2>7. Settles(GenValue(gen, f, c, FALSE), GenValue(gen, f, c, TRUE), f.r)
    BY <2>2, <2>5 DEF GenValue, Settles, Given
  <2>8. KeptValue(GenValue(gen, f, c, FALSE), GenValue(gen, f, c, TRUE), r.t) /\ ~GenValue(gen, f, c, FALSE).lit
    BY <2>7, VariableKept
  <2> QED BY <2>6, <2>8 DEF KeptBy
<1>11. CASE e.k = "let"
  <2> DEFINE p == Check(sub, d, e.ty, c)
  <2>1. Fine(T, sub, d, e.ty, c, p) /\ f = Annotated(e, <<p.e>>, p.t)
    BY <1>1, <1>11, LetTaken
  <2> HIDE DEF p
  <2>2. KeptAs(gen, p.e, c, p.t) /\ f.k = "let" /\ f.r = p.t /\ f.a[1] = p.e
    BY <1>3, <1>11, <2>1
  <2> HIDE DEF r, f
  <2>3. Fits(Value(gen, p.e, c, FALSE), p.t, FALSE) => Fits(Value(gen, p.e, c, TRUE), p.t, TRUE)
    BY <2>2, FitsKept DEF KeptAs
  <2>4. GenStmt(gen, f, c, FALSE) => GenStmt(gen, f, c, TRUE)
    BY <2>2, <2>3 DEF GenStmt
  <2> QED BY <2>2, <2>4, StatementKept
<1>12. CASE e.k = "assign"
  <2> DEFINE p == Check(sub, d, e.ty, c)
  <2>1. Fine(T, sub, d, e.ty, c, p) /\ p.t = e.ty /\ f = Annotated(e, <<p.e>>, p.t)
    BY <1>1, <1>12, AssignTaken
  <2> HIDE DEF p
  <2>2. KeptAs(gen, p.e, c, p.t) /\ f.k = "assign" /\ f.ty = p.t /\ f.a[1] = p.e
    BY <1>3, <1>12, <2>1
  <2> HIDE DEF r, f
  <2>3. Fits(Value(gen, p.e, c, FALSE), p.t, FALSE) => Fits(Value(gen, p.e, c, TRUE), p.t, TRUE)
    BY <2>2, FitsKept DEF KeptAs
  <2>4. GenStmt(gen, f, c, FALSE) => GenStmt(gen, f, c, TRUE)
    BY <2>2, <2>3 DEF GenStmt
  <2> QED BY <2>2, <2>4, StatementKept
<1>13. CASE e.k = "discard"
  <2> DEFINE p == Check(sub, d, Untyped, c)
  <2>1. Fine(T, sub, d, Untyped, c, p) /\ f = Annotated(e, <<p.e>>, p.t)
    BY <1>1, <1>13, DiscardTaken
  <2> HIDE DEF p
  <2>2. KeptAs(gen, p.e, c, p.t) /\ f.k = "discard" /\ f.a[1] = p.e
    BY <1>3, <1>13, <2>1
  <2> HIDE DEF r, f
  <2>4. GenStmt(gen, f, c, FALSE) => GenStmt(gen, f, c, TRUE)
    BY <2>2 DEF GenStmt, KeptAs
  <2> QED BY <2>2, <2>4, StatementKept
<1> HIDE DEF r, d, f
<1> QED BY <1>4, <1>5, <1>6, <1>7, <1>8, <1>9, <1>10, <1>11, <1>12, <1>13 DEF OverOne

\* A node over two parts.
LEMMA TwoKept ==
  ASSUME NEW T, NEW sub, NEW gen, NEW nodes, Keeping(T, sub, gen, nodes), NEW e \in NodesOver(T),
         e.k \in {"binary", "tuple"}, NEW x \in Expected, NEW c \in Contexts,
         Literate(nodes, Resolve(sub, e, x, c))
  PROVE  KeptBy(gen, Resolve(sub, e, x, c).e, c, Resolve(sub, e, x, c).t)
<1> DEFINE r == Resolve(sub, e, x, c)
           f == r.e
<1> SUFFICES KeptBy(gen, f, c, r.t)
  OBVIOUS
<1>1. r.ok /\ Simple(f) /\ SimpleParts(nodes, f) /\ RegularAt(T, sub) /\ KeptAt(T, sub, gen, nodes)
  BY DEF Literate, Keeping
<1>2. ASSUME NEW p, NEW q, NEW y, NEW z, NEW t,
             Fine(T, sub, e.a[1], y, c, p), Fine(T, sub, e.a[2], z, c, q), f = Annotated(e, <<p.e, q.e>>, t)
      PROVE  /\ KeptAs(gen, p.e, c, p.t) /\ KeptAs(gen, q.e, c, q.t)
             /\ p.e.k \in Expression /\ q.e.k \in Expression
             /\ f.k = e.k /\ f.op = e.op /\ f.r = t /\ f.a[1] = p.e /\ f.a[2] = q.e
  <2> HIDE DEF r, f
  <2>1. f.k = e.k /\ f.op = e.op /\ f.r = t /\ f.a[1] = p.e /\ f.a[2] = q.e /\ DOMAIN f.a = {1, 2}
    BY <1>2, TwoAnnotated
  <2>2. AllSimple(nodes[p.e]) /\ AllSimple(nodes[q.e])
    BY <1>1, <2>1 DEF SimpleParts
  <2>3. e.a[1] \in T /\ Apt(e.a[1]) /\ e.a[2] \in T /\ Apt(e.a[2])
        /\ e.a[1].k \in Expression /\ e.a[2].k \in Expression
    BY PartsOf, ExpressionsApt
  <2>4. KeptAs(gen, p.e, c, p.t)
    BY <1>1, <1>2, <2>2, <2>3, PartKept
  <2>5. KeptAs(gen, q.e, c, q.t)
    BY <1>1, <1>2, <2>2, <2>3, PartKept
  <2> QED BY <1>2, <2>1, <2>3, <2>4, <2>5 DEF Fine
<1>3. ASSUME NEW p, NEW q, NEW t,
             KeptAs(gen, p.e, c, p.t), KeptAs(gen, q.e, c, q.t), p.e.k \in Expression, q.e.k \in Expression,
             f.k = "binary", f.op = e.op, f.r = t, f.a[1] = p.e, f.a[2] = q.e,
             p.t \in {t, Never}, IF e.op = "<<" THEN IsUInt(q.t) ELSE q.t \in {t, Never}
      PROVE  KeptBy(gen, f, c, r.t)
  <2> DEFINE v1 == Value(gen, p.e, c, FALSE)
             w1 == Value(gen, p.e, c, TRUE)
             v2 == Value(gen, q.e, c, FALSE)
             w2 == Value(gen, q.e, c, TRUE)
             o == IF f.op = "==" THEN Bool ELSE t
  <2> HIDE DEF r, f
  <2>1. KeptValue(v1, w1, p.t) /\ KeptValue(v2, w2, q.t)
    BY <1>3 DEF KeptAs
  <2>2. (v1.ok /\ v1.lit => Constant(p.e)) /\ (v2.ok /\ v2.lit => Constant(q.e))
    BY <1>3 DEF KeptAs
  <2>3. /\ GenValue(gen, f, c, FALSE) = Given(Operates(f, v1, v2, FALSE), VarOperand(o))
        /\ GenValue(gen, f, c, TRUE) = Given(Operates(f, w1, w2, TRUE), VarOperand(o))
    BY <1>3 DEF GenValue
  <2>s. f.op # "==" => ~(Constant(p.e) /\ Constant(q.e))
    BY <1>1, <1>3 DEF Simple
  <2> HIDE DEF v1, w1, v2, w2, o
  <2>4. Operates(f, v1, v2, FALSE) => Operates(f, w1, w2, TRUE)
    <3> SUFFICES ASSUME Operates(f, v1, v2, FALSE) PROVE Operates(f, w1, w2, TRUE)
      OBVIOUS
    <3>1. HasValues(t) /\ Fits(v1, t, FALSE) /\ (f.op = "==" => Comparable(t))
          /\ (IF f.op = "<<" THEN v2.ok ELSE Fits(v2, t, FALSE))
      BY <1>3 DEF Operates
    <3>2. Fits(w1, t, TRUE) /\ v1.ok /\ w1 = v1
      BY <1>3, <2>1, <3>1, FitsKept DEF Fits, KeptValue
    <3>3. v2.ok /\ w2 = v2
      BY <2>1, <3>1 DEF Fits, KeptValue
    <3>4. IF f.op = "<<" THEN w2.ok /\ (w2.lit => w2.n >= 0) ELSE Fits(w2, t, TRUE)
      <4>1. CASE f.op = "<<"
        <5>1. w2.lit => w2.n \in MinOf(q.t) .. MaxOf(q.t)
          BY <2>1, <3>3 DEF KeptValue
        <5>2. IsUInt(q.t)
          BY <1>3, <4>1
        <5>3. IsInt(q.t)
          BY <5>2 DEF IsUInt, IsInt
        <5>4. MinOf(q.t) = 0 /\ MaxOf(q.t) \in Int
          BY <5>2, <5>3, IntRange
        <5> QED BY <3>3, <4>1, <5>1, <5>4
      <4>2. CASE f.op # "<<"
        <5>1. Fits(v2, t, FALSE) /\ q.t \in {t, Never}
          BY <1>3, <3>1, <4>2
        <5> QED BY <2>1, <4>2, <5>1, FitsKept
      <4> QED BY <4>1, <4>2
    <3>5. Folds(f.op, w1, w2, t)
      <4>1. ~(w1.lit /\ w2.lit) \/ f.op = "=="
        BY <2>2, <2>s, <3>2, <3>3
      <4> QED BY <4>1 DEF Folds
    <3> QED BY <1>3, <3>1, <3>2, <3>4, <3>5 DEF Operates
  <2>5. Settles(GenValue(gen, f, c, FALSE), GenValue(gen, f, c, TRUE), o)
    BY <2>3, <2>4 DEF Settles, Given
  <2> QED BY <1>3, <2>5, ValueKept
<1>4. e.k = "binary" => e.op \in {"&&", "<<", "+", "=="}
  BY NodeIs DEF Shaped
<1>5. CASE e.k = "binary" /\ e.op = "&&"
  <2> DEFINE p == Check(sub, e.a[1], Bool, c)
             q == Check(sub, e.a[2], Bool, c)
  <2>1. /\ Fine(T, sub, e.a[1], Bool, c, p) /\ p.t \in {Bool, Never}
        /\ Fine(T, sub, e.a[2], Bool, c, q) /\ q.t \in {Bool, Never}
        /\ f = Annotated(e, <<p.e, q.e>>, Bool)
    BY <1>1, <1>5, LogicalTaken
  <2> HIDE DEF p, q, r, f
  <2>2. /\ KeptAs(gen, p.e, c, p.t) /\ KeptAs(gen, q.e, c, q.t)
        /\ p.e.k \in Expression /\ q.e.k \in Expression
        /\ f.k = e.k /\ f.op = e.op /\ f.r = Bool /\ f.a[1] = p.e /\ f.a[2] = q.e
    BY <1>2, <2>1 DEF f, r
  <2> QED BY <1>3, <1>5, <2>1, <2>2 DEF f, r
<1>6. CASE e.k = "binary" /\ e.op = "<<"
  <2> DEFINE p == Check(sub, e.a[1], x, c)
             q == sub[e.a[2]][Named("UInt64")][c]
  <2>1. /\ Fine(T, sub, e.a[1], x, c, p)
        /\ Fine(T, sub, e.a[2], Named("UInt64"), c, q) /\ IsUInt(q.t)
        /\ f = Annotated(e, <<p.e, q.e>>, p.t)
    BY <1>1, <1>6, ShiftTaken
  <2> HIDE DEF p, q, r, f
  <2>2. /\ KeptAs(gen, p.e, c, p.t) /\ KeptAs(gen, q.e, c, q.t)
        /\ p.e.k \in Expression /\ q.e.k \in Expression
        /\ f.k = e.k /\ f.op = e.op /\ f.r = p.t /\ f.a[1] = p.e /\ f.a[2] = q.e
    BY <1>2, <2>1 DEF f, r
  <2> QED BY <1>3, <1>6, <2>1, <2>2 DEF f, r
<1>7. CASE e.k = "binary" /\ e.op = "+"
  <2> DEFINE p == Operands(sub, e, x, c)[1]
             q == Operands(sub, e, x, c)[2]
  <2>1. /\ OperandsFine(T, sub, e, x, c, p, q) /\ p.t = q.t
        /\ f = Annotated(e, <<p.e, q.e>>, p.t)
    BY <1>1, <1>7, SumTaken
  <2> HIDE DEF p, q, r, f
  <2>2. PICK y, z : Fine(T, sub, e.a[1], y, c, p) /\ Fine(T, sub, e.a[2], z, c, q)
    BY <2>1 DEF OperandsFine
  <2>3. /\ KeptAs(gen, p.e, c, p.t) /\ KeptAs(gen, q.e, c, q.t)
        /\ p.e.k \in Expression /\ q.e.k \in Expression
        /\ f.k = e.k /\ f.op = e.op /\ f.r = p.t /\ f.a[1] = p.e /\ f.a[2] = q.e
    BY <1>2, <2>1, <2>2 DEF f, r
  <2> QED BY <1>3, <1>7, <2>1, <2>3 DEF f, r
<1>8. CASE e.k = "binary" /\ e.op = "=="
  <2> DEFINE p == Operands(sub, e, Untyped, c)[1]
             q == Operands(sub, e, Untyped, c)[2]
  <2>1. /\ OperandsFine(T, sub, e, Untyped, c, p, q) /\ p.t = q.t
        /\ f = Annotated(e, <<p.e, q.e>>, p.t)
    BY <1>1, <1>8, EqualityTaken
  <2> HIDE DEF p, q, r, f
  <2>2. PICK y, z : Fine(T, sub, e.a[1], y, c, p) /\ Fine(T, sub, e.a[2], z, c, q)
    BY <2>1 DEF OperandsFine
  <2>3. /\ KeptAs(gen, p.e, c, p.t) /\ KeptAs(gen, q.e, c, q.t)
        /\ p.e.k \in Expression /\ q.e.k \in Expression
        /\ f.k = e.k /\ f.op = e.op /\ f.r = p.t /\ f.a[1] = p.e /\ f.a[2] = q.e
    BY <1>2, <2>1, <2>2 DEF f, r
  <2> QED BY <1>3, <1>8, <2>1, <2>3 DEF f, r
<1>9. CASE e.k = "tuple"
  <2> DEFINE p == Check(sub, e.a[1], Untyped, c)
             q == Check(sub, e.a[2], Untyped, c)
  <2>1. /\ Fine(T, sub, e.a[1], Untyped, c, p) /\ Fine(T, sub, e.a[2], Untyped, c, q)
        /\ r.t = Pair(p.t, q.t) /\ f = Annotated(e, <<p.e, q.e>>, r.t)
    BY <1>1, <1>9, TupleTaken
  <2> HIDE DEF p, q, r, f
  <2>2. /\ KeptAs(gen, p.e, c, p.t) /\ KeptAs(gen, q.e, c, q.t)
        /\ f.k = "tuple" /\ f.r = r.t /\ f.a[1] = p.e /\ f.a[2] = q.e
    BY <1>2, <1>9, <2>1 DEF f, r
  <2>3. f.r.fst = p.t /\ f.r.snd = q.t
    BY <2>1, <2>2, PairTypes
  <2>4. /\ Fits(Value(gen, p.e, c, FALSE), p.t, FALSE) => Fits(Value(gen, p.e, c, TRUE), p.t, TRUE)
        /\ Fits(Value(gen, q.e, c, FALSE), q.t, FALSE) => Fits(Value(gen, q.e, c, TRUE), q.t, TRUE)
    BY <2>2, FitsKept DEF KeptAs
  <2>5. Settles(GenValue(gen, f, c, FALSE), GenValue(gen, f, c, TRUE), f.r)
    BY <2>2, <2>3, <2>4 DEF GenValue, Settles, Given
  <2> QED BY <2>2, <2>5, ValueKept
<1> HIDE DEF r, f
<1> QED BY <1>4, <1>5, <1>6, <1>7, <1>8, <1>9

\* A node over many parts.
LEMMA ManyKept ==
  ASSUME NEW T, NEW sub, NEW gen, NEW nodes, Keeping(T, sub, gen, nodes), NEW e \in NodesOver(T),
         e.k \in {"list", "call", "struct", "variant"}, NEW x \in Expected, NEW c \in Contexts,
         Literate(nodes, Resolve(sub, e, x, c))
  PROVE  KeptBy(gen, Resolve(sub, e, x, c).e, c, Resolve(sub, e, x, c).t)
<1> DEFINE r == Resolve(sub, e, x, c)
           f == r.e
<1> SUFFICES KeptBy(gen, f, c, r.t)
  OBVIOUS
<1>1. r.ok /\ SimpleParts(nodes, f) /\ RegularAt(T, sub) /\ KeptAt(T, sub, gen, nodes)
  BY DEF Literate, Keeping
<1>2. ASSUME NEW rs, NEW t, DOMAIN rs = DOMAIN e.a,
             \A i \in DOMAIN e.a : \E y : Fine(T, sub, e.a[i], y, c, rs[i]),
             f = Annotated(e, Trees(rs), t)
      PROVE  /\ f.k = e.k /\ f.op = e.op /\ f.r = t /\ DOMAIN f.a = DOMAIN e.a
             /\ \A i \in DOMAIN e.a : /\ f.a[i] = rs[i].e /\ f.a[i].op = e.a[i].op
                                      /\ KeptAs(gen, f.a[i], c, rs[i].t)
  <2> HIDE DEF r, f
  <2>1. /\ f.k = e.k /\ f.op = e.op /\ f.r = t /\ DOMAIN f.a = DOMAIN e.a
        /\ \A i \in DOMAIN e.a : f.a[i] = rs[i].e
    BY <1>2, ManyAnnotated
  <2>2. ASSUME NEW i \in DOMAIN e.a PROVE f.a[i].op = e.a[i].op /\ KeptAs(gen, f.a[i], c, rs[i].t)
    <3>1. PICK y : Fine(T, sub, e.a[i], y, c, rs[i])
      BY <1>2
    <3>2. e.a[i] \in T /\ Apt(e.a[i])
      BY PartsOf, ExpressionsApt
    <3>3. AllSimple(nodes[rs[i].e])
      BY <1>1, <2>1 DEF SimpleParts
    <3>4. KeptAs(gen, rs[i].e, c, rs[i].t)
      BY <1>1, <3>1, <3>2, <3>3, PartKept
    <3> QED BY <2>1, <3>1, <3>4 DEF Fine
  <2> QED BY <2>1, <2>2
<1>3. CASE e.k = "list"
  <2>1. PICK rs : ElementsFine(T, sub, e, c, r.t.of, rs) /\ r.e = Annotated(e, Trees(rs), r.t)
    BY <1>1, <1>3, ListTaken
  <2>2. \A i \in DOMAIN e.a : \E y : Fine(T, sub, e.a[i], y, c, rs[i])
    BY <2>1 DEF ElementsFine
  <2> HIDE DEF r, f
  <2>3. /\ f.k = "list" /\ f.r = r.t /\ DOMAIN f.a = DOMAIN e.a
        /\ \A i \in DOMAIN e.a : KeptAs(gen, f.a[i], c, rs[i].t) /\ rs[i].t \in {f.r.of, Never}
    BY <1>2, <1>3, <2>1, <2>2 DEF f, r, ElementsFine
  <2>4. \A i \in DOMAIN f.a : Fits(Value(gen, f.a[i], c, FALSE), f.r.of, FALSE)
                                => Fits(Value(gen, f.a[i], c, TRUE), f.r.of, TRUE)
    BY <2>3, FitsKept DEF KeptAs
  <2>5. Settles(GenValue(gen, f, c, FALSE), GenValue(gen, f, c, TRUE), f.r)
    BY <2>3, <2>4 DEF GenValue, Settles, Given
  <2> QED BY <2>3, <2>5, ValueKept
<1>4. CASE e.k = "call"
  <2> DEFINE us == Signature[e.op].params
             rs == [i \in DOMAIN e.a |-> Check(sub, e.a[i], us[i], c)]
             ys == [i \in DOMAIN e.a |-> IF us[i] = AnyT THEN Untyped ELSE us[i]]
  <2>1. /\ \A i \in DOMAIN e.a : us[i] \in ValueTypes \cup {AnyT}
        /\ PartsFine(T, sub, e.a, ys, c, rs) /\ r.e = Annotated(e, Trees(rs), r.t)
    BY <1>1, <1>4, CallTaken
  <2>0. us = Signature[e.op].params /\ \A i \in DOMAIN e.a : ys[i] = IF us[i] = AnyT THEN Untyped ELSE us[i]
    OBVIOUS
  <2> HIDE DEF r, us, rs, ys, f
  <2>2. DOMAIN rs = DOMAIN e.a /\ \A i \in DOMAIN e.a : \E y : Fine(T, sub, e.a[i], y, c, rs[i])
    BY <2>1 DEF PartsFine
  <2>3. /\ f.k = "call" /\ f.op = e.op /\ f.r = r.t /\ DOMAIN f.a = DOMAIN e.a
        /\ \A i \in DOMAIN e.a : KeptAs(gen, f.a[i], c, rs[i].t)
    BY <1>2, <1>4, <2>1, <2>2 DEF f, r
  <2>4. \A i \in DOMAIN e.a : us[i] = AnyT \/ rs[i].t \in {us[i], Never}
    BY <2>0, <2>1, BasicTypes DEF PartsFine
  <2>5. \A i \in DOMAIN f.a : Value(gen, f.a[i], c, FALSE).ok => Value(gen, f.a[i], c, TRUE).ok
    BY <2>3 DEF KeptAs, KeptValue
  <2>6. \A i \in DOMAIN f.a : us[i] # AnyT /\ Fits(Value(gen, f.a[i], c, FALSE), us[i], FALSE)
                                => Fits(Value(gen, f.a[i], c, TRUE), us[i], TRUE)
    BY <2>3, <2>4, FitsKept DEF KeptAs
  <2>7. Passed(gen, f, c, FALSE) => Passed(gen, f, c, TRUE)
    <3> SUFFICES ASSUME Passed(gen, f, c, FALSE), NEW i \in DOMAIN f.a
                 PROVE  IF us[i] = AnyT THEN Value(gen, f.a[i], c, TRUE).ok
                        ELSE Fits(Value(gen, f.a[i], c, TRUE), us[i], TRUE)
      BY <2>0, <2>3 DEF Passed
    <3>1. IF us[i] = AnyT THEN Value(gen, f.a[i], c, FALSE).ok ELSE Fits(Value(gen, f.a[i], c, FALSE), us[i], FALSE)
      BY <2>0, <2>3 DEF Passed
    <3> QED BY <2>5, <2>6, <3>1
  <2>8. GenStmt(gen, f, c, FALSE) => GenStmt(gen, f, c, TRUE)
    BY <2>3, <2>7 DEF GenStmt
  <2>9. Settles(GenValue(gen, f, c, FALSE), GenValue(gen, f, c, TRUE), f.r)
    BY <2>3, <2>7 DEF GenValue, Settles, Given
  <2>10. KeptValue(GenValue(gen, f, c, FALSE), GenValue(gen, f, c, TRUE), r.t) /\ ~GenValue(gen, f, c, FALSE).lit
    BY <2>9, VariableKept
  <2> QED BY <2>8, <2>10 DEF KeptBy
<1>5. CASE e.k \in {"struct", "variant"}
  <2> DEFINE fields == FieldsAt(e)
             ys == [i \in DOMAIN e.a |-> TypeIn(fields, e.a[i].op)]
             rs == [i \in DOMAIN e.a |-> sub[e.a[i]][TypeIn(fields, e.a[i].op)][c]]
  <2>1. /\ Declared(fields) /\ Len(e.a) = Len(fields)
        /\ {e.a[i].op : i \in DOMAIN e.a} = NamesOf(fields)
        /\ e.k = "variant" => HasVariant(e.ty, e.op)
        /\ PartsFine(T, sub, e.a, ys, c, rs)
        /\ \A i \in DOMAIN e.a : ys[i] \in ValueTypes
        /\ r.t = e.ty /\ r.t \in ValueTypes /\ r.e = Annotated(e, Trees(rs), r.t)
    BY <1>1, <1>5, FieldsTaken, Zenon
  <2>2. \A i \in DOMAIN e.a : ys[i] = TypeIn(fields, e.a[i].op)
    OBVIOUS
  <2> HIDE DEF r, rs, ys, f
  <2>3. DOMAIN rs = DOMAIN e.a /\ \A i \in DOMAIN e.a : \E y : Fine(T, sub, e.a[i], y, c, rs[i])
    BY <2>1 DEF PartsFine
  <2>4. /\ f.k = e.k /\ f.op = e.op /\ f.r = r.t /\ DOMAIN f.a = DOMAIN e.a
        /\ \A i \in DOMAIN e.a : f.a[i].op = e.a[i].op /\ KeptAs(gen, f.a[i], c, rs[i].t)
    BY <1>2, <2>1, <2>3 DEF f, r
  <2>5. \A i \in DOMAIN e.a : rs[i].t \in {TypeIn(fields, e.a[i].op), Never}
    BY <2>1, <2>2, BasicTypes DEF PartsFine
  <2>6. \A i \in DOMAIN f.a : Fits(Value(gen, f.a[i], c, FALSE), TypeIn(fields, f.a[i].op), FALSE)
                                => Fits(Value(gen, f.a[i], c, TRUE), TypeIn(fields, f.a[i].op), TRUE)
    BY <2>4, <2>5, FitsKept DEF KeptAs
  <2>7. Filled(gen, f, fields, c, FALSE) => Filled(gen, f, fields, c, TRUE)
    BY <2>6 DEF Filled
  <2>8. fields = IF f.k = "struct" THEN Struct[f.r.con] ELSE FieldsOf(f.r, f.op)
    BY <2>1, <2>4 DEF FieldsAt
  <2> HIDE DEF fields
  <2>9. Settles(GenValue(gen, f, c, FALSE), GenValue(gen, f, c, TRUE), f.r)
    BY <1>5, <2>4, <2>7, <2>8 DEF GenValue, Settles, Given
  <2> QED BY <1>5, <2>4, <2>9, ValueKept
<1> QED BY <1>3, <1>4, <1>5

LEMMA BlockKept ==
  ASSUME NEW T, NEW sub, NEW gen, NEW nodes, Keeping(T, sub, gen, nodes), NEW e \in NodesOver(T),
         e.k = "block", NEW x \in Expected, NEW c \in Contexts, Literate(nodes, Resolve(sub, e, x, c))
  PROVE  KeptBy(gen, Resolve(sub, e, x, c).e, c, Resolve(sub, e, x, c).t)
<1> DEFINE r == Resolve(sub, e, x, c)
           f == r.e
<1> SUFFICES KeptBy(gen, f, c, r.t)
  OBVIOUS
<1>1. r.ok /\ SimpleParts(nodes, f) /\ RegularAt(T, sub) /\ KeptAt(T, sub, gen, nodes)
  BY DEF Literate, Keeping
<1>b. "block" \notin Expression
  BY DEF Expression
<1>2. CASE e.a = << >>
  <2>1. f = e
    BY <1>1, <1>2, EmptyBlockTaken, BadIsBad
  <2>2. GenStmt(gen, e, c, TRUE) /\ GenValue(gen, e, c, FALSE) = NoOperand
    BY <1>2 DEF GenStmt, GenValue, BlockValue
  <2>3. NoOperand.ok = FALSE
    BY DEF NoOperand
  <2> HIDE DEF r, f
  <2> QED BY <2>1, <2>2, <2>3 DEF KeptBy, KeptValue
<1>3. CASE e.a # << >>
  <2> DEFINE ys == [i \in DOMAIN e.a |-> IF i = Len(e.a) THEN x ELSE Untyped]
             rs == [i \in DOMAIN e.a |-> Check(sub, e.a[i], IF i = Len(e.a) THEN x ELSE Untyped, c)]
             k  == Len(e.a)
  <2>1. /\ PartsFine(T, sub, e.a, ys, c, rs)
        /\ r.t = rs[k].t /\ r.e = Annotated(e, Trees(rs), e.r)
    BY <1>1, <1>3, BlockTaken
  <2>2. k \in Nat /\ DOMAIN e.a = 1 .. k /\ k \in DOMAIN e.a /\ e.a \in Seq(T)
    <3>1. e.a \in Seq(T)
      BY NodeIs
    <3> QED BY <1>3, <3>1
  <2>4. \A i \in DOMAIN e.a : e.a[i] \in T /\ Apt(e.a[i])
    BY PartsOf, ExpressionsApt
  <2> HIDE DEF ys, rs, k, r, f
  <2>5. DOMAIN rs = DOMAIN e.a /\ \A i \in DOMAIN e.a : Fine(T, sub, e.a[i], ys[i], c, rs[i])
    BY <2>1 DEF PartsFine
  <2>6. f.k = "block" /\ DOMAIN f.a = DOMAIN e.a /\ \A i \in DOMAIN e.a : f.a[i] = rs[i].e
    BY <2>1, <2>5, ManyAnnotated DEF f
  <2>7. Len(f.a) = k /\ f.a # << >> /\ LastOf(f) = f.a[k]
    <3>1. \A i \in DOMAIN e.a : rs[i].e \in T /\ rs[i].e.k = e.a[i].k
      BY <2>5 DEF Fine
    <3>2. SameKinds(Trees(rs), e.a)
      BY <2>2, <2>5, <3>1, TreesFit
    <3>3. f.a = Trees(rs)
      BY <2>1, WithIs DEF Annotated, f
    <3>4. Len(f.a) = k
      BY <3>2, <3>3 DEF SameKinds, k
    <3>5. f.a # << >>
      BY <2>2, <2>6
    <3> QED BY <3>4, <3>5 DEF LastOf
  <2>9. ASSUME NEW i \in DOMAIN e.a PROVE KeptAs(gen, f.a[i], c, rs[i].t)
    <3>1. AllSimple(nodes[rs[i].e])
      BY <1>1, <2>6 DEF SimpleParts
    <3> QED BY <1>1, <2>4, <2>5, <2>6, <3>1, PartKept
  <2>10. \A i \in DOMAIN f.a : Runs(gen, f.a[i], c, FALSE) => Runs(gen, f.a[i], c, TRUE)
    BY <2>6, <2>9 DEF KeptAs
  <2>11. GenStmt(gen, f, c, FALSE) => GenStmt(gen, f, c, TRUE)
    BY <2>6, <2>10 DEF GenStmt
  <2>12. KeptAs(gen, LastOf(f), c, r.t) /\ (Runs(gen, LastOf(f), c, FALSE) => Runs(gen, LastOf(f), c, TRUE))
    BY <2>1, <2>2, <2>6, <2>7, <2>9, <2>10
  <2>13. (\A i \in 1 .. Len(f.a) - 1 : Runs(gen, f.a[i], c, FALSE))
           => \A i \in 1 .. Len(f.a) - 1 : Runs(gen, f.a[i], c, TRUE)
    <3> SUFFICES ASSUME \A i \in 1 .. k - 1 : Runs(gen, f.a[i], c, FALSE), NEW i \in 1 .. k - 1
                 PROVE  Runs(gen, f.a[i], c, TRUE)
      BY <2>7
    <3>1. i \in 1 .. k
      BY <2>2
    <3> QED BY <2>2, <2>6, <2>10, <3>1
  <2>14. \A ranged \in BOOLEAN : GenValue(gen, f, c, ranged) = BlockValue(gen, f, c, ranged)
    BY <2>6 DEF GenValue
  <2>15. KeptValue(GenValue(gen, f, c, FALSE), GenValue(gen, f, c, TRUE), r.t)
    <3>0. NoOperand.ok = FALSE /\ Left.lit = FALSE
      BY DEF NoOperand, Left, VarOperand
    <3>1. CASE ~ \A i \in 1 .. Len(f.a) - 1 : Runs(gen, f.a[i], c, FALSE)
      <4>1. GenValue(gen, f, c, FALSE) = NoOperand
        BY <2>14, <3>1 DEF BlockValue
      <4> QED BY <3>0, <4>1 DEF KeptValue
    <3>2. CASE (\A i \in 1 .. Len(f.a) - 1 : Runs(gen, f.a[i], c, FALSE)) /\ Diverging(LastOf(f))
      <4>1. /\ GenValue(gen, f, c, FALSE) = Given(Runs(gen, LastOf(f), c, FALSE), Left)
            /\ GenValue(gen, f, c, TRUE) = Given(Runs(gen, LastOf(f), c, TRUE), Left)
        BY <2>7, <2>13, <2>14, <3>2 DEF BlockValue
      <4> QED BY <2>12, <3>0, <4>1 DEF KeptValue, Given
    <3>3. CASE (\A i \in 1 .. Len(f.a) - 1 : Runs(gen, f.a[i], c, FALSE)) /\ ~Diverging(LastOf(f))
      <4>1. /\ GenValue(gen, f, c, FALSE) = Value(gen, LastOf(f), c, FALSE)
            /\ GenValue(gen, f, c, TRUE) = Value(gen, LastOf(f), c, TRUE)
        BY <2>7, <2>13, <2>14, <3>3 DEF BlockValue
      <4> QED BY <2>12, <4>1 DEF KeptAs
    <3> QED BY <3>1, <3>2, <3>3
  <2> QED BY <1>b, <2>6, <2>11, <2>15 DEF KeptBy
<1> QED BY <1>2, <1>3

LEMMA CaseKept ==
  ASSUME NEW T, NEW sub, NEW gen, NEW nodes, Keeping(T, sub, gen, nodes), Renotable(T), NEW e \in NodesOver(T),
         e.k \in {"case", "default"}, Apt(e), NEW x \in Expected, NEW c \in Contexts,
         Literate(nodes, Resolve(sub, e, x, c))
  PROVE  KeptBy(gen, Resolve(sub, e, x, c).e, c, Resolve(sub, e, x, c).t)
<1> DEFINE r == Resolve(sub, e, x, c)
           w == Within(e, c)
           b == sub[e.a[1]][x][w]
           named == [i \in DOMAIN e.cs |-> Annotated(e.cs[i], e.cs[i].a, FieldsOf(e.ty, e.op)[i].type)]
           f == r.e
<1> SUFFICES KeptBy(gen, f, c, r.t)
  OBVIOUS
<1>1. r.ok /\ SimpleParts(nodes, f) /\ RegularAt(T, sub) /\ KeptAt(T, sub, gen, nodes)
  BY DEF Literate, Keeping
<1>2. w \in Contexts /\ Body(T, sub, e.a[1], x, w, b) /\ r.t = b.t /\ f = With(e, e.ty, named, <<b.e>>, b.t)
  BY <1>1, CaseTaken
<1>3. e.a[1] \in T /\ Apt(e.a[1])
  BY PartsOf, ExpressionsApt
<1>4. f.k = e.k /\ f.cs = named /\ f.a = <<b.e>> /\ f.a[1] = b.e
  <2> HIDE DEF named, b, w, f
  <2> QED BY <1>2, WithIs
<1>5. w = IF f.k = "case" THEN Inside(f, c) ELSE c
  <2>1. CASE e.k = "case"
    <3>1. f.cs = [i \in DOMAIN e.cs |-> Annotated(e.cs[i], e.cs[i].a, FieldsOf(e.ty, e.op)[i].type)]
      BY <1>4
    <3>2. w = Within(e, c)
      OBVIOUS
    <3> HIDE DEF w, r, f, named
    <3> QED BY <1>4, <2>1, <3>1, <3>2, InsideIs
  <2>2. CASE e.k = "default"
    BY <1>4, <2>2 DEF Within
  <2> QED BY <2>1, <2>2
<1> HIDE DEF w, b, named, r, f
<1>6. KeptAs(gen, b.e, w, r.t)
  <2>1. AllSimple(nodes[b.e])
    BY <1>1, <1>4 DEF SimpleParts
  <2> QED BY <1>1, <1>2, <1>3, <2>1, BodyKept
<1>7. \A ranged \in BOOLEAN : /\ GenValue(gen, f, c, ranged) = Value(gen, b.e, w, ranged)
                              /\ GenStmt(gen, f, c, ranged) = Runs(gen, b.e, w, ranged)
  BY <1>4, <1>5 DEF GenValue, GenStmt
<1>8. f.k \notin Expression
  BY <1>4 DEF Expression
<1> QED BY <1>6, <1>7, <1>8 DEF KeptAs, KeptBy

LEMMA WhileKept ==
  ASSUME NEW T, NEW sub, NEW gen, NEW nodes, Keeping(T, sub, gen, nodes), NEW e \in NodesOver(T),
         e.k = "while", NEW x \in Expected, NEW c \in Contexts, Literate(nodes, Resolve(sub, e, x, c))
  PROVE  KeptBy(gen, Resolve(sub, e, x, c).e, c, Resolve(sub, e, x, c).t)
<1> DEFINE r == Resolve(sub, e, x, c)
           p == Check(sub, e.cs[1], Bool, c)
           l == [c EXCEPT !.loop = @ + 1]
           b == sub[e.a[1]][Unit][l]
           f == r.e
<1> SUFFICES KeptBy(gen, f, c, r.t)
  OBVIOUS
<1>1. r.ok /\ SimpleParts(nodes, f) /\ RegularAt(T, sub) /\ KeptAt(T, sub, gen, nodes)
  BY DEF Literate, Keeping
<1>3. /\ Fine(T, sub, e.cs[1], Bool, c, p) /\ p.t \in {Bool, Never}
      /\ l \in Contexts /\ Body(T, sub, e.a[1], Unit, l, b) /\ b.t \in {Unit, Never}
      /\ r.t = Unit /\ f = With(e, e.ty, <<p.e>>, <<b.e>>, Unit)
  BY <1>1, WhileTaken
<1>4. /\ e.a[1] \in T /\ Apt(e.a[1]) /\ e.cs[1] \in T /\ Apt(e.cs[1])
  BY PartsOf, ExpressionsApt
<1>l. l = [c EXCEPT !.loop = @ + 1]
  OBVIOUS
<1> HIDE DEF r, p, l, b, f
<1>5. f.k = "while" /\ f.a = <<b.e>> /\ f.cs = <<p.e>>
  BY <1>3, WithIs
<1>6. 1 \in DOMAIN f.a /\ f.a[1] = b.e /\ 1 \in DOMAIN f.cs /\ f.cs[1] = p.e
  BY <1>5
<1>7. AllSimple(nodes[p.e]) /\ AllSimple(nodes[b.e])
  BY <1>1, <1>6 DEF SimpleParts
<1>8. KeptAs(gen, p.e, c, p.t) /\ KeptAs(gen, b.e, l, b.t)
  BY <1>1, <1>3, <1>4, <1>7, PartKept, BodyKept
<1>9. Fits(Value(gen, p.e, c, FALSE), Bool, FALSE) => Fits(Value(gen, p.e, c, TRUE), Bool, TRUE)
  BY <1>3, <1>8, FitsKept DEF KeptAs
<1>10. Runs(gen, b.e, l, FALSE) => Runs(gen, b.e, l, TRUE)
  BY <1>8 DEF KeptAs
<1>11. GenStmt(gen, f, c, FALSE) => GenStmt(gen, f, c, TRUE)
  BY <1>5, <1>6, <1>9, <1>10, <1>l DEF GenStmt
<1> QED BY <1>5, <1>11, StatementKept

\* The branches of a node: what they run and what they yield.
KeptBranches(gen, ds, bs, c, t) ==
  \A i \in DOMAIN ds :
    /\ Runs(gen, bs[i].e, c, FALSE) => Runs(gen, bs[i].e, c, TRUE)
    /\ Yields(Value(gen, bs[i].e, c, FALSE), t, FALSE) => Yields(Value(gen, bs[i].e, c, TRUE), t, TRUE)

LEMMA BranchesKept ==
  ASSUME NEW T, NEW sub, NEW gen, NEW nodes, KeptAt(T, sub, gen, nodes),
         NEW ds, BranchesIn(T, ds), NEW y, NEW c \in Contexts, NEW bs, NEW t,
         BodiesFine(T, sub, ds, y, c, bs, t), \A i \in DOMAIN ds : AllSimple(nodes[bs[i].e])
  PROVE  KeptBranches(gen, ds, bs, c, t)
<1> SUFFICES ASSUME NEW i \in DOMAIN ds
             PROVE  /\ Runs(gen, bs[i].e, c, FALSE) => Runs(gen, bs[i].e, c, TRUE)
                    /\ Yields(Value(gen, bs[i].e, c, FALSE), t, FALSE)
                         => Yields(Value(gen, bs[i].e, c, TRUE), t, TRUE)
  BY DEF KeptBranches
<1>1. ds[i] \in T /\ Apt(ds[i]) /\ AllSimple(nodes[bs[i].e])
  BY DEF BranchesIn
<1>2. bs[i].t \in {t, Never} /\ \E z : Body(T, sub, ds[i], z, c, bs[i])
  BY DEF BodiesFine
<1>3. KeptAs(gen, bs[i].e, c, bs[i].t)
  BY <1>1, <1>2, BodyKept
<1> QED BY <1>2, <1>3, YieldsKept DEF KeptAs

LEMMA IfKept ==
  ASSUME NEW T, NEW sub, NEW gen, NEW nodes, Keeping(T, sub, gen, nodes), NEW e \in NodesOver(T),
         e.k = "if", NEW x \in Expected, NEW c \in Contexts, Literate(nodes, Resolve(sub, e, x, c))
  PROVE  KeptBy(gen, Resolve(sub, e, x, c).e, c, Resolve(sub, e, x, c).t)
<1> DEFINE r == Resolve(sub, e, x, c)
           y  == BranchContext(e, x)
           ps == [i \in DOMAIN e.cs |-> Check(sub, e.cs[i], Bool, c)]
           bs == Branches(sub, e.a, e.a, y, c)
           f  == r.e
<1> SUFFICES KeptBy(gen, f, c, r.t)
  OBVIOUS
<1>1. r.ok /\ SimpleParts(nodes, f) /\ RegularAt(T, sub) /\ KeptAt(T, sub, gen, nodes)
  BY DEF Literate, Keeping
<1>2. /\ \A i \in DOMAIN e.cs : Fine(T, sub, e.cs[i], Bool, c, ps[i]) /\ ps[i].t \in {Bool, Never}
      /\ BodiesFine(T, sub, e.a, y, c, bs, r.t)
      /\ y \in {x, Unit} /\ (y # Untyped => r.t \in {y, Never})
      /\ r.t \in Types /\ r.e = With(e, e.ty, Trees(ps), Trees(bs), r.t)
  BY <1>1, IfTaken
<1>3. DOMAIN ps = DOMAIN e.cs
  OBVIOUS
<1>4. /\ \A i \in DOMAIN e.a : e.a[i] \in T /\ e.a[i].k = "block" /\ Apt(e.a[i])
      /\ \A i \in DOMAIN e.cs : e.cs[i] \in T /\ Apt(e.cs[i])
  BY PartsOf, ExpressionsApt
<1> HIDE DEF r, y, ps, bs, f
<1>5. /\ f.k = "if" /\ f.r = r.t
      /\ DOMAIN f.cs = DOMAIN e.cs /\ \A i \in DOMAIN e.cs : f.cs[i] = ps[i].e
      /\ DOMAIN f.a = DOMAIN e.a /\ \A i \in DOMAIN e.a : f.a[i] = bs[i].e
  <2>1. f.k = e.k /\ f.r = r.t /\ f.cs = Trees(ps) /\ f.a = Trees(bs)
    BY <1>2, WithIs DEF f
  <2>2. DOMAIN bs = DOMAIN e.a
    BY <1>2 DEF BodiesFine
  <2> QED BY <1>3, <2>1, <2>2 DEF Trees
<1>6. ASSUME NEW i \in DOMAIN e.cs
      PROVE  Fits(Value(gen, f.cs[i], c, FALSE), Bool, FALSE) => Fits(Value(gen, f.cs[i], c, TRUE), Bool, TRUE)
  <2>1. AllSimple(nodes[ps[i].e])
    BY <1>1, <1>5 DEF SimpleParts
  <2>2. KeptAs(gen, ps[i].e, c, ps[i].t)
    BY <1>1, <1>2, <1>4, <2>1, PartKept
  <2> QED BY <1>2, <1>5, <2>2, FitsKept DEF KeptAs
<1>7. KeptBranches(gen, e.a, bs, c, r.t)
  <2>1. BranchesIn(T, e.a)
    BY <1>4 DEF BranchesIn
  <2>2. \A i \in DOMAIN e.a : AllSimple(nodes[bs[i].e])
    BY <1>1, <1>5 DEF SimpleParts
  <2> QED BY <1>1, <1>2, <2>1, <2>2, BranchesKept
<1>8. GenStmt(gen, f, c, FALSE) => GenStmt(gen, f, c, TRUE)
  BY <1>5, <1>6, <1>7 DEF GenStmt, KeptBranches
<1>9. Settles(GenValue(gen, f, c, FALSE), GenValue(gen, f, c, TRUE), f.r)
  BY <1>5, <1>6, <1>7 DEF GenValue, Settles, Given, KeptBranches
<1>10. KeptValue(GenValue(gen, f, c, FALSE), GenValue(gen, f, c, TRUE), r.t) /\ ~GenValue(gen, f, c, FALSE).lit
  BY <1>9, VariableKept
<1> QED BY <1>8, <1>10 DEF KeptBy

LEMMA SwitchKept ==
  ASSUME NEW T, NEW sub, NEW gen, NEW nodes, Keeping(T, sub, gen, nodes), NEW e \in NodesOver(T),
         e.k = "switch", NEW x \in Expected, NEW c \in Contexts, Literate(nodes, Resolve(sub, e, x, c))
  PROVE  KeptBy(gen, Resolve(sub, e, x, c).e, c, Resolve(sub, e, x, c).t)
<1> DEFINE r == Resolve(sub, e, x, c)
           p  == Check(sub, e.cs[1], Untyped, c)
           bs == Branches(sub, e.a, Bodies(e), x, c)
           f  == r.e
<1> SUFFICES KeptBy(gen, f, c, r.t)
  OBVIOUS
<1>1. r.ok /\ SimpleParts(nodes, f) /\ RegularAt(T, sub) /\ KeptAt(T, sub, gen, nodes)
  BY DEF Literate, Keeping
<1>2. /\ Fine(T, sub, e.cs[1], Untyped, c, p) /\ LegalSwitch(e, p.t)
      /\ BodiesFine(T, sub, e.a, x, c, bs, r.t) /\ e.a # << >>
      /\ r.t \in Types /\ r.e = With(e, p.t, <<p.e>>, Trees(bs), r.t)
  BY <1>1, SwitchTaken
<1>3. e.cs[1] \in T /\ Apt(e.cs[1])
  BY PartsOf, ExpressionsApt
<1> HIDE DEF r, p, bs, f
<1>4. \A i \in DOMAIN e.a : e.a[i] \in T /\ e.a[i].k \in {"case", "default"} /\ Apt(e.a[i])
  BY <1>2, PartsOf DEF Apt, LegalSwitch, Patterns, Fitting
<1>5. /\ f.k = "switch" /\ f.r = r.t /\ f.ty = p.t /\ f.cs = <<p.e>> /\ f.cs[1] = p.e /\ 1 \in DOMAIN f.cs
      /\ DOMAIN f.a = DOMAIN e.a /\ \A i \in DOMAIN e.a : f.a[i] = bs[i].e
  <2>1. f.k = e.k /\ f.r = r.t /\ f.ty = p.t /\ f.cs = <<p.e>> /\ f.a = Trees(bs)
    BY <1>2, WithIs DEF f
  <2>2. DOMAIN bs = DOMAIN e.a
    BY <1>2 DEF BodiesFine
  <2> QED BY <2>1, <2>2 DEF Trees
<1>6. Fits(Value(gen, f.cs[1], c, FALSE), f.ty, FALSE) => Fits(Value(gen, f.cs[1], c, TRUE), f.ty, TRUE)
  <2>1. AllSimple(nodes[p.e])
    BY <1>1, <1>5 DEF SimpleParts
  <2>2. KeptAs(gen, p.e, c, p.t)
    BY <1>1, <1>2, <1>3, <2>1, PartKept
  <2> QED BY <1>5, <2>2, FitsKept DEF KeptAs
<1>7. KeptBranches(gen, e.a, bs, c, r.t)
  <2>1. BranchesIn(T, e.a)
    BY <1>4 DEF BranchesIn
  <2>2. \A i \in DOMAIN e.a : AllSimple(nodes[bs[i].e])
    BY <1>1, <1>5 DEF SimpleParts
  <2> QED BY <1>1, <1>2, <2>1, <2>2, BranchesKept
<1>c. Chain(gen, f, c, FALSE) => Chain(gen, f, c, TRUE)
  BY <1>6 DEF Chain
<1>8. GenStmt(gen, f, c, FALSE) => GenStmt(gen, f, c, TRUE)
  BY <1>5, <1>c, <1>7 DEF GenStmt, KeptBranches
<1>9. Settles(GenValue(gen, f, c, FALSE), GenValue(gen, f, c, TRUE), f.r)
  BY <1>5, <1>c, <1>7 DEF GenValue, Settles, Given, KeptBranches
<1>10. KeptValue(GenValue(gen, f, c, FALSE), GenValue(gen, f, c, TRUE), r.t) /\ ~GenValue(gen, f, c, FALSE).lit
  BY <1>9, VariableKept
<1> QED BY <1>8, <1>10 DEF KeptBy

-----------------------------------------------------------------------------
(* SimpleLiteralsFit. *)

LEMMA ResolveKept ==
  ASSUME NEW T, NEW sub, NEW gen, NEW nodes, Keeping(T, sub, gen, nodes), Renotable(T), NEW e \in NodesOver(T),
         Apt(e), NEW x \in Expected, NEW c \in Contexts, Literate(nodes, Resolve(sub, e, x, c))
  PROVE  KeptBy(gen, Resolve(sub, e, x, c).e, c, Resolve(sub, e, x, c).t)
BY KindsOfNodes, LeafKept, JumpKept, ReturnKept, OneKept, TwoKept, ManyKept,
   BlockKept, CaseKept, WhileKept, IfKept, SwitchKept

LEMMA CheckerKept ==
  \A n \in Levels : KeptAt(TreesAt[n], Checker[n], Generator[n], Nodes[n])
<1> DEFINE K == {n \in Levels : KeptAt(TreesAt[n], Checker[n], Generator[n], Nodes[n])}
<1>1. 0 \in K
  BY TreesAre, DepthIsNat DEF KeptAt, Levels
<1>2. ASSUME NEW n \in Levels \ {0}, n - 1 \in K PROVE n \in K
  <2> DEFINE T == TreesAt[n - 1]
             sub == Checker[n - 1]
             gen == Generator[n - 1]
             nodes == Nodes[n - 1]
             step == NodesStep(nodes, NodesOver(T))
             emits == GeneratorStep(gen, NodesOver(T))
  <2>1. /\ TreesAt[n] = NodesOver(T) /\ Checker[n] = CheckerStep(sub, NodesOver(T))
        /\ Nodes[n] = step /\ Generator[n] = emits
    BY TreesAre, CheckerIs, NodesIs, GeneratorIs
  <2>2. Keeping(T, sub, gen, nodes) /\ Renotable(T) /\ RegularAt(T, sub)
    <3>1. n - 1 \in Levels
      BY DepthIsNat DEF Levels
    <3> QED BY <1>2, <3>1, TreesRenotable, CheckerRegular, TreesProper, TreesLiteral DEF Keeping
  <2> HIDE DEF T, sub, nodes, gen
  <2>3. ASSUME NEW d \in NodesOver(T), NEW x \in Expected, NEW c \in Contexts, Apt(d),
               Resolve(sub, d, x, c).ok, AllSimple(step[Resolve(sub, d, x, c).e])
        PROVE  KeptAs(emits, Resolve(sub, d, x, c).e, c, Resolve(sub, d, x, c).t)
    <3> DEFINE r == Resolve(sub, d, x, c)
    <3>1. r.e \in NodesOver(T)
      BY <2>2, <2>3, ResolveRegular DEF Regular
    <3>2. Literate(nodes, r)
      BY <2>3, <3>1, SimpleOf DEF Literate
    <3>3. KeptBy(gen, r.e, c, r.t)
      BY <2>2, <2>3, <3>2, ResolveKept
    <3>4. \A ranged \in BOOLEAN : /\ Value(emits, r.e, c, ranged) = GenValue(gen, r.e, c, ranged)
                                  /\ Runs(emits, r.e, c, ranged) <=> GenStmt(gen, r.e, c, ranged)
      <4> HIDE DEF r
      <4> QED BY <3>1, GeneratorStepIs
    <3> HIDE DEF r, emits
    <3>5. KeptAs(emits, r.e, c, r.t)
      BY <3>3, <3>4 DEF KeptAs, KeptBy
    <3> QED BY <3>5 DEF r
  <2> HIDE DEF step, emits
  <2>4. \A d \in NodesOver(T) : \A x \in Expected, c \in Contexts :
          CheckerStep(sub, NodesOver(T))[d][x][c] = Resolve(sub, d, x, c)
    BY DEF CheckerStep
  <2>5. KeptAt(NodesOver(T), CheckerStep(sub, NodesOver(T)), emits, step)
    BY <2>3, <2>4 DEF KeptAt
  <2> QED BY <2>1, <2>5
<1> HIDE DEF K
<1>3. \A n \in Levels : n \in K
  BY <1>1, <1>2, LevelInduct
<1> QED BY <1>3 DEF K

\* A function that was accepted and is emitted is emitted with the check, too.
LEMMA ResultKept ==
  ASSUME NEW p \in Programs, Result(p.body, p).ok, AllSimple(Nodes[Depth][Result(p.body, p).e]),
         Emits(Result(p.body, p).e, p, FALSE)
  PROVE  Emits(Result(p.body, p).e, p, TRUE)
<1> DEFINE r == Result(p.body, p)
           g == Outside(p)
           T == TreesAt[Depth]
<1>1. /\ Depth \in Levels /\ g \in Contexts /\ Apt(p.body) /\ p.body \in T
      /\ Body(T, Checker[Depth], p.body, p.ret, g, r) /\ r.t \in {p.ret, Never}
  BY BodyChecked
<1>2. AllSimple(Nodes[Depth][r.e]) /\ Emits(r.e, p, FALSE)
  OBVIOUS
<1> HIDE DEF r, g, T
<1>3. KeptAs(Generator[Depth], r.e, g, r.t)
  BY <1>1, <1>2, CheckerKept, BodyKept DEF T
<1>4. CASE p.ret = Unit
  BY <1>2, <1>3, <1>4 DEF Emits, KeptAs, g, r
<1>5. CASE p.ret # Unit
  <2>1. Yields(Value(Generator[Depth], r.e, g, FALSE), p.ret, FALSE)
    BY <1>2, <1>5 DEF Emits, g
  <2>2. Yields(Value(Generator[Depth], r.e, g, TRUE), p.ret, TRUE)
    BY <1>1, <1>3, <2>1, YieldsKept DEF KeptAs
  <2> QED BY <1>5, <2>2 DEF Emits, g, r
<1> QED BY <1>4, <1>5

\* Where no operator joins two constants and no minus sign stands on an
\* unsigned one, what is emitted is emitted with every literal in the range of
\* the Go type it goes to.
THEOREM SimpleLiteralsAreKept == Spec => []SimpleLiteralsFit
<1>1. Annotating => SimpleLiteralsFit
  <2> SUFFICES ASSUME Annotating, phase = "checked", SimpleLiterals, Emits(tree, program, FALSE)
               PROVE  Emits(tree, program, TRUE)
    BY DEF SimpleLiteralsFit, LiteralsFit
  <2>1. program \in Programs /\ Result(program.body, program).ok /\ tree = Result(program.body, program).e
    BY DEF Annotating
  <2>2. AllSimple(Nodes[Depth][tree])
    BY DEF SimpleLiterals, AllSimple
  <2> QED BY <2>1, <2>2, ResultKept
<1> QED BY <1>1, AnnotatingInvariant, PTL
=============================================================================
