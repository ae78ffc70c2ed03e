----------------------------- MODULE LoopsProofs -----------------------------
(***************************************************************************)
(* Proofs about loops over containers, for any number of containers, keys  *)
(* and values and any length, and about loops over ranges, for every width *)
(* of the integers.                                                        *)
(***************************************************************************)
EXTENDS ForLoops, RangeLoops, FiniteSetTheorems, TLAPS

ST == INSTANCE SequenceTheorems

(***************************************************************************)
(* The inductive invariant: the container of the entry keeps its length,   *)
(* and at the head of the loop the index counts the visits made.           *)
(***************************************************************************)
FreshOK ==
  pc = "enter" =>
    /\ visited = <<>> /\ result = <<>> /\ keys = <<>> /\ idx = -1 /\ len = 0
    /\ ~broken /\ ~reassigned

LengthOK ==
  /\ shape = "Array" => \A r, s \in Refs \cup {Temp} : Len(heap[r]) = Len(heap[s])
  /\ ~reassigned => vbl = tmp \/ shape = "Array"
  /\ pc \in {"top", "body"} => len = IF Indexed THEN Len(heap[tmp]) ELSE Len(keys)
  /\ pc # "enter" /\ ~Indexed => Len(keys) = len

VisitOK ==
  /\ \A i \in 1 .. Len(visited) : visited[i].at = Order[i]
  /\ Len(visited) <= len
  /\ pc \in {"top", "body"} => idx = Len(visited) - 1 /\ ~broken
  /\ pc = "body" => visited # <<>>
  /\ pc = "done" /\ ~broken => Len(visited) = len

YieldOK ==
  form = "Yield" /\ pc \in {"top", "body", "done"} =>
    /\ Len(result) = len /\ ~broken
    /\ \A i \in 1 .. Stored : result[i] = visited[i].val

FInv ==
  /\ TypeOK /\ FreshOK /\ LengthOK /\ VisitOK /\ YieldOK /\ PanicNeedsReassignment
-----------------------------------------------------------------------------
(* The containers.                                                         *)

\* A List or an Array is a sequence, and writing an element keeps its length.
LEMMA ListFacts ==
  ASSUME NEW c \in Lists(MaxLen)
  PROVE  /\ c \in Seq(Vals) /\ Len(c) \in 0 .. MaxLen
         /\ \A i \in 1 .. Len(c), v \in Vals :
              /\ [c EXCEPT ![i] = v] \in Lists(MaxLen)
              /\ Len([c EXCEPT ![i] = v]) = Len(c)
<1>1. PICK m \in 0 .. MaxLen : c \in [1 .. m -> Vals]
  BY DEF Lists
<1>2. m \in Nat /\ c \in Seq(Vals) /\ Len(c) = m
  BY <1>1, ForLoopsAssumption
<1>3. ASSUME NEW i \in 1 .. Len(c), NEW v \in Vals
      PROVE  /\ [c EXCEPT ![i] = v] \in Lists(MaxLen)
             /\ Len([c EXCEPT ![i] = v]) = Len(c)
  <2>1. [c EXCEPT ![i] = v] \in [1 .. m -> Vals]
    BY <1>1, <1>2
  <2>2. [c EXCEPT ![i] = v] \in Lists(MaxLen)
    BY <1>1, <2>1 DEF Lists
  <2>3. Len([c EXCEPT ![i] = v]) = Len(c)
    BY <1>2, ST!ExceptSeq
  <2> QED
    BY <2>2, <2>3
<1> QED
  BY <1>1, <1>2, <1>3, ForLoopsAssumption

\* What the type of the heap says of each shape.
LEMMA ShapeFacts ==
  ASSUME TypeOK
  PROVE  /\ Indexed => Containers = Lists(MaxLen)
         /\ shape = "Set" => Containers = Tables({TRUE})
         /\ shape = "Map" => Containers = Tables(Vals)
         /\ shape \in {"List", "Array", "Set", "Map"}
         /\ tmp \in Refs \cup {Temp} /\ vbl \in Refs \cup {Temp}
         /\ \A r \in Refs \cup {Temp} : heap[r] \in Containers
<1>1. shape \in {"List", "Array", "Set", "Map"}
  BY ForLoopsAssumption DEF TypeOK
<1>2. \A r \in Refs \cup {Temp} : heap[r] \in Containers
  BY DEF TypeOK
<1>3. Indexed => Containers = Lists(MaxLen)
  BY DEF Containers, Indexed
<1>4. shape = "Set" => Containers = Tables({TRUE})
  BY DEF Containers, Indexed
<1>5. shape = "Map" => Containers = Tables(Vals)
  BY DEF Containers, Indexed
<1> QED
  BY <1>1, <1>2, <1>3, <1>4, <1>5 DEF TypeOK

\* The keys of a Set or a Map.
LEMMA TableFacts ==
  ASSUME NEW v, NEW c \in Tables(v)
  PROVE  /\ DOMAIN c \subseteq Keys /\ \A k \in DOMAIN c : c[k] \in v
         /\ \A d \in SUBSET Keys : \A f \in [d -> v] : f \in Tables(v)
<1>1. PICK d \in SUBSET Keys : c \in [d -> v]
  BY DEF Tables
<1> QED
  BY <1>1 DEF Tables

\* MPKEYS gives a sequence of keys.
LEMMA OrderingFacts ==
  ASSUME NEW d \in SUBSET Keys, NEW ks \in Orderings(d)
  PROVE  ks \in Seq(Keys) /\ Len(ks) \in Nat
<1>1. PICK n \in Nat : n = Cardinality(d)
  <2>1. IsFiniteSet(d)
    BY ForLoopsAssumption, FS_Subset
  <2>2. Cardinality(d) \in Nat
    BY <2>1, FS_CardinalityType
  <2> QED
    BY <2>2
<1>2. ks \in [1 .. n -> d]
  BY <1>1 DEF Orderings
<1>3. ks \in [1 .. n -> Keys]
  BY <1>2
<1>4. ks \in Seq(Keys)
  BY <1>3, ST!SeqDef
<1> QED
  BY <1>4, ST!LenProperties

\* What appending a visit does.
LEMMA AppendFacts ==
  ASSUME NEW s \in Seq(Visit), NEW x \in Visit
  PROVE  /\ Append(s, x) \in Seq(Visit) /\ Append(s, x) # <<>>
         /\ Len(s) \in Nat /\ Len(Append(s, x)) = Len(s) + 1
         /\ \A n \in 1 .. Len(s) : Append(s, x)[n] = s[n]
         /\ Append(s, x)[Len(s) + 1] = x
<1>1. /\ Append(s, x) \in Seq(Visit) /\ Len(Append(s, x)) = Len(s) + 1
      /\ \A n \in 1 .. Len(s) : Append(s, x)[n] = s[n]
      /\ Append(s, x)[Len(s) + 1] = x
  BY ST!AppendProperties
<1>2. Len(s) \in Nat
  BY ST!LenProperties
<1>3. Append(s, x) # <<>>
  BY <1>1, <1>2, ST!EmptySeq
<1> QED
  BY <1>1, <1>2, <1>3
-----------------------------------------------------------------------------
THEOREM InitFInv == Init => FInv
<1> SUFFICES ASSUME Init PROVE FInv
  OBVIOUS
<1>1. len = 0 /\ idx = -1 /\ <<>> \in Seq(Visit) /\ <<>> \in Seq(Keys)
      /\ <<>> \in Seq(Keys \cup Vals \cup {Zero}) /\ Len(visited) = 0
  BY ST!EmptySeq DEF Init
<1>2. TypeOK
  <2>1. /\ vbl \in Refs /\ tmp \in Refs \cup {Temp} /\ form \in {"Body", "Yield"}
        /\ heap \in [Refs \cup {Temp} -> Containers]
    BY DEF Init
  <2>2. len \in Nat /\ idx \in -1 .. len /\ ops \in 0 .. MaxOps
    BY <1>1, ForLoopsAssumption DEF Init
  <2>3. visited \in Seq(Visit) /\ keys \in Seq(Keys) /\ result \in Seq(Keys \cup Vals \cup {Zero})
    BY <1>1, Zenon DEF Init
  <2> QED
    BY <2>1, <2>2, <2>3 DEF Init, TypeOK
<1>3. FreshOK
  BY DEF Init, FreshOK
<1>4. LengthOK
  BY DEF Init, LengthOK
<1>5. VisitOK
  BY <1>1 DEF Init, VisitOK
<1>6. YieldOK /\ PanicNeedsReassignment
  BY DEF Init, YieldOK, PanicNeedsReassignment
<1> QED
  BY <1>2, <1>3, <1>4, <1>5, <1>6 DEF FInv

\* What the evaluation of items establishes.
LEMMA EvalFacts ==
  ASSUME FInv, EvalItems
  PROVE  /\ heap' \in [Refs \cup {Temp} -> Containers] /\ tmp' \in Refs \cup {Temp}
         /\ keys' \in Seq(Keys) /\ len' \in Nat
         /\ len' = IF Indexed THEN Len(heap'[tmp']) ELSE Len(keys')
         /\ shape = "Array" => \A r, s \in Refs \cup {Temp} : Len(heap'[r]) = Len(heap'[s])
         /\ tmp' = vbl \/ shape = "Array"
<1>1. /\ TypeOK /\ vbl \in Refs /\ heap[vbl] \in Containers /\ Temp \in DOMAIN heap
      /\ heap \in [Refs \cup {Temp} -> Containers]
      /\ shape \in {"List", "Array", "Set", "Map"}
      /\ shape = "Array" => \A r, s \in Refs \cup {Temp} : Len(heap[r]) = Len(heap[s])
  BY ShapeFacts DEF FInv, TypeOK, LengthOK
<1>2. CASE shape = "Array" /\ ~live
  <2>1. tmp' = Temp /\ heap' = [heap EXCEPT ![Temp] = heap[vbl]]
    BY <1>2 DEF EvalItems
  <2>2. \A r \in Refs \cup {Temp} : heap'[r] = IF r = Temp THEN heap[vbl] ELSE heap[r]
    BY <2>1, <1>1
  <2>3. \A r \in Refs \cup {Temp} : Len(heap'[r]) = Len(heap[vbl])
    BY <2>2, <1>1, <1>2
  <2>4. keys' = <<>> /\ len' = Len(heap[vbl]) /\ Indexed
    BY <1>2 DEF EvalItems, Indexed
  <2>5. Len(heap[vbl]) \in Nat
    BY <1>1, <2>4, ShapeFacts, ListFacts, ForLoopsAssumption
  <2>6. heap' \in [Refs \cup {Temp} -> Containers]
    BY <2>1, <1>1
  <2> QED
    BY <2>1, <2>3, <2>4, <2>5, <2>6, <1>2, ST!EmptySeq
<1>3. CASE shape \in {"List", "Array"} /\ ~(shape = "Array" /\ ~live)
  <2>1. tmp' = vbl /\ heap' = heap /\ keys' = <<>> /\ len' = Len(heap[vbl]) /\ Indexed
    BY <1>3 DEF EvalItems, Indexed
  <2>2. Len(heap[vbl]) \in Nat
    BY <1>1, <2>1, ShapeFacts, ListFacts, ForLoopsAssumption
  <2> QED
    BY <2>1, <2>2, <1>1, ST!EmptySeq
<1>4. CASE shape \in {"Set", "Map"}
  <2>1. ~Indexed /\ shape # "Array"
    BY <1>4 DEF Indexed
  <2>2. PICK d \in SUBSET Keys : d = DOMAIN heap[vbl]
    BY <1>1, <1>4, ShapeFacts, TableFacts
  <2>3. keys' \in Orderings(d) /\ len' = Len(keys') /\ tmp' = vbl /\ heap' = heap
    BY <2>1, <2>2 DEF EvalItems
  <2> QED
    BY <2>1, <2>3, <1>1, OrderingFacts
<1> QED
  BY <1>1, <1>2, <1>3, <1>4

LEMMA EvalItemsStep ==
  ASSUME FInv, EvalItems
  PROVE  FInv'
<1>1. /\ pc = "enter" /\ pc' = "top" /\ shape' = shape /\ form' = form /\ live' = live
      /\ vbl' = vbl /\ idx' = idx /\ visited' = visited /\ broken' = broken
      /\ reassigned' = reassigned /\ ops' = ops
      /\ visited = <<>> /\ Len(visited) = 0 /\ idx = -1 /\ ~broken /\ ~reassigned
  BY ST!EmptySeq DEF FInv, FreshOK, EvalItems, loop
<1>2. Containers' = Containers /\ Indexed' = Indexed
  BY <1>1 DEF Containers, Indexed
<1>3. result' \in Seq(Keys \cup Vals \cup {Zero})
      /\ (form = "Yield" => Len(result') = len')
  <2>1. len' \in Nat /\ result' = IF form = "Yield" THEN [i \in 1 .. len' |-> Zero] ELSE <<>>
    BY EvalFacts DEF EvalItems
  <2>2. /\ [i \in 1 .. len' |-> Zero] \in Seq(Keys \cup Vals \cup {Zero})
        /\ Len([i \in 1 .. len' |-> Zero]) = len'
    BY <2>1
  <2>3. CASE form = "Yield"
    BY <2>1, <2>2, <2>3, Zenon
  <2>4. CASE form # "Yield"
    BY <2>1, <2>4, ST!EmptySeq
  <2> QED
    BY <2>3, <2>4
<1>4. TypeOK'
  <2>1. idx' \in -1 .. len'
    BY <1>1, EvalFacts
  <2> QED
    BY <2>1, <1>1, <1>2, <1>3, EvalFacts DEF FInv, TypeOK
<1>5. LengthOK'
  BY <1>1, <1>2, EvalFacts DEF LengthOK
<1>6. VisitOK'
  BY <1>1, EvalFacts DEF VisitOK
<1>7. YieldOK'
  BY <1>1, <1>3 DEF YieldOK, Stored
<1> QED
  BY <1>1, <1>4, <1>5, <1>6, <1>7 DEF FInv, FreshOK, PanicNeedsReassignment
-----------------------------------------------------------------------------
\* The head of the loop, while it does not index past the end.
LEMMA HeaderFacts ==
  ASSUME FInv, Header
  PROVE  /\ len \in Nat /\ idx' = Len(visited) /\ Len(visited) \in Nat /\ idx' <= len
         /\ ~broken /\ idx' \in -1 .. len
         /\ ~Indexed => Len(keys) = len
         /\ Indexed => Len(heap[tmp]) = len
         /\ Indexed /\ ~(shape = "List" /\ live /\ reassigned) => Len(Items) = len
<1>1. /\ len \in Nat /\ Len(visited) \in Nat /\ idx = Len(visited) - 1 /\ Len(visited) <= len
      /\ ~broken /\ pc = "top"
  BY ST!LenProperties DEF FInv, TypeOK, VisitOK, Header
<1>2. idx' = Len(visited)
  BY <1>1 DEF Header
<1>3. (~Indexed => Len(keys) = len) /\ (Indexed => Len(heap[tmp]) = len)
  BY <1>1 DEF FInv, LengthOK
<1>4. Indexed /\ ~(shape = "List" /\ live /\ reassigned) => Len(Items) = len
  BY <1>3, ShapeFacts DEF FInv, LengthOK, Items, Indexed
<1> QED
  BY <1>1, <1>2, <1>3, <1>4

LEMMA ExhaustedStep ==
  ASSUME FInv, Exhausted
  PROVE  FInv'
<1>1. /\ Header /\ Done /\ pc = "top" /\ pc' = "done" /\ shape' = shape /\ form' = form
      /\ live' = live /\ heap' = heap /\ vbl' = vbl /\ tmp' = tmp /\ keys' = keys /\ len' = len
      /\ visited' = visited /\ result' = result /\ broken' = broken
      /\ reassigned' = reassigned /\ ops' = ops
  BY DEF Exhausted, loop, Header
<1>2. idx' = Len(visited) /\ Len(visited) = len /\ ~broken /\ idx' \in -1 .. len /\ len \in Nat
  BY <1>1, HeaderFacts DEF Done
<1>3. Containers' = Containers /\ Indexed' = Indexed /\ Order' = Order
  BY <1>1 DEF Containers, Indexed, Order
<1>4. TypeOK'
  BY <1>1, <1>2, <1>3 DEF FInv, TypeOK
<1>5. LengthOK' /\ FreshOK' /\ PanicNeedsReassignment'
  BY <1>1, <1>3 DEF FInv, LengthOK, FreshOK, PanicNeedsReassignment
<1>6. VisitOK'
  BY <1>1, <1>2, <1>3 DEF FInv, VisitOK
<1>7. YieldOK'
  BY <1>1 DEF FInv, YieldOK, Stored
<1> QED
  BY <1>4, <1>5, <1>6, <1>7 DEF FInv

LEMMA IndexPanicStep ==
  ASSUME FInv, IndexPanic
  PROVE  FInv'
<1>1. /\ Header /\ ~Done /\ Indexed /\ idx' >= Len(Items) /\ pc = "top" /\ pc' = "panicked"
      /\ shape' = shape /\ form' = form
      /\ live' = live /\ heap' = heap /\ vbl' = vbl /\ tmp' = tmp /\ keys' = keys /\ len' = len
      /\ visited' = visited /\ result' = result /\ broken' = broken
      /\ reassigned' = reassigned /\ ops' = ops
  BY DEF IndexPanic, loop, Header
<1>2. idx' = Len(visited) /\ ~broken /\ idx' \in -1 .. len /\ len \in Nat /\ idx' < len
  BY <1>1, HeaderFacts DEF Done
<1>3. Containers' = Containers /\ Indexed' = Indexed /\ Order' = Order
  BY <1>1 DEF Containers, Indexed, Order
<1>4. shape = "List" /\ live /\ reassigned
  BY <1>1, <1>2, HeaderFacts
<1>5. TypeOK'
  BY <1>1, <1>2, <1>3 DEF FInv, TypeOK
<1>6. LengthOK' /\ FreshOK' /\ PanicNeedsReassignment'
  BY <1>1, <1>3, <1>4 DEF FInv, LengthOK, FreshOK, PanicNeedsReassignment
<1>7. VisitOK'
  BY <1>1, <1>2, <1>3 DEF FInv, VisitOK
<1> QED
  BY <1>1, <1>5, <1>6, <1>7 DEF FInv, YieldOK

\* The three ways to bind the loop variables.
LEMMA BindStep ==
  ASSUME FInv, Header, ~Done, NEW place, NEW val, NEW present,
         Bind(place, val, present),
         place \in Keys \cup (0 .. MaxLen - 1), val \in Keys \cup Vals \cup {Zero},
         present \in BOOLEAN, place = Order[idx' + 1]
  PROVE  FInv'
<1> DEFINE x == [at |-> place, val |-> val, present |-> present,
                 from |-> IF live THEN vbl ELSE tmp]
<1>1. /\ pc = "top" /\ pc' = "body" /\ shape' = shape /\ form' = form
      /\ live' = live /\ heap' = heap /\ vbl' = vbl /\ tmp' = tmp /\ keys' = keys /\ len' = len
      /\ visited' = Append(visited, x) /\ result' = result /\ broken' = broken
      /\ reassigned' = reassigned /\ ops' = ops
  BY DEF Bind, loop, Header
<1>2. /\ idx' = Len(visited) /\ ~broken /\ idx' \in -1 .. len /\ len \in Nat /\ idx' < len
      /\ Len(visited) \in Nat
  BY HeaderFacts DEF Done
<1>3. Containers' = Containers /\ Indexed' = Indexed /\ Order' = Order
  BY <1>1 DEF Containers, Indexed, Order
<1>4. x \in Visit /\ x.at = place /\ x.val = val
  <2>1. (IF live THEN vbl ELSE tmp) \in Refs \cup {Temp}
    BY ShapeFacts DEF FInv
  <2> QED
    BY <2>1 DEF Visit
<1> HIDE DEF x
<1>5. /\ visited' \in Seq(Visit) /\ visited' # <<>> /\ Len(visited') = Len(visited) + 1
      /\ \A n \in 1 .. Len(visited) : visited'[n] = visited[n]
      /\ visited'[Len(visited) + 1] = x
  BY <1>1, <1>4, AppendFacts DEF FInv, TypeOK
<1>6. TypeOK'
  BY <1>1, <1>2, <1>3, <1>5 DEF FInv, TypeOK
<1>7. LengthOK' /\ FreshOK' /\ PanicNeedsReassignment'
  BY <1>1, <1>3 DEF FInv, LengthOK, FreshOK, PanicNeedsReassignment
<1>8. VisitOK'
  <2>1. \A i \in 1 .. Len(visited') : visited'[i].at = Order[i]
    BY <1>2, <1>4, <1>5 DEF FInv, VisitOK
  <2> QED
    BY <2>1, <1>1, <1>2, <1>3, <1>5 DEF VisitOK
<1>9. YieldOK'
  BY <1>1, <1>2, <1>5 DEF FInv, YieldOK, Stored
<1> QED
  BY <1>6, <1>7, <1>8, <1>9 DEF FInv

LEMMA NextElementStep ==
  ASSUME FInv, NextElement
  PROVE  FInv'
<1>1. /\ Header /\ ~Done /\ Indexed /\ idx' < Len(Items)
      /\ Bind(idx', Items[idx' + 1], TRUE)
  BY DEF NextElement
<1>2. /\ idx' \in -1 .. len /\ len \in Nat /\ idx' < len /\ idx' = Len(visited)
      /\ Len(visited) \in Nat
  BY <1>1, HeaderFacts DEF Done
<1>3. Items \in Lists(MaxLen)
  BY <1>1, ShapeFacts DEF FInv, Items
<1>4. Items \in Seq(Vals) /\ Len(Items) \in 0 .. MaxLen
  BY <1>3, ListFacts
<1>5. idx' \in 0 .. MaxLen - 1 /\ idx' + 1 \in 1 .. Len(Items)
  BY <1>1, <1>2, <1>4, ForLoopsAssumption
<1>6. Items[idx' + 1] \in Vals
  BY <1>4, <1>5, ST!ElementOfSeq
<1>7. idx' = Order[idx' + 1]
  BY <1>1, <1>2 DEF Order
<1> QED
  BY <1>1, <1>5, <1>6, <1>7, BindStep

\* The key MPKEYS gave for the next iteration.
LEMMA NextKey ==
  ASSUME FInv, Header, ~Done, ~Indexed
  PROVE  keys[idx' + 1] \in Keys /\ keys[idx' + 1] = Order[idx' + 1]
<1>1. /\ idx' + 1 \in 1 .. len /\ Len(keys) = len /\ keys \in Seq(Keys)
  BY HeaderFacts DEF Done, FInv, TypeOK
<1> QED
  BY <1>1, ST!ElementOfSeq DEF Order

LEMMA NextMemberStep ==
  ASSUME FInv, NextMember
  PROVE  FInv'
<1>1. /\ Header /\ ~Done /\ ~Indexed
      /\ Bind(keys[idx' + 1], keys[idx' + 1], TRUE)
  BY DEF NextMember, Indexed
<1> QED
  BY <1>1, NextKey, BindStep

LEMMA NextEntryStep ==
  ASSUME FInv, NextEntry
  PROVE  FInv'
<1> DEFINE k == keys[idx' + 1]
           v == IF k \in DOMAIN Items THEN Items[k] ELSE Zero
<1>1. /\ Header /\ ~Done /\ ~Indexed /\ shape = "Map"
      /\ Bind(k, v, k \in DOMAIN Items)
  BY DEF NextEntry, Indexed
<1>2. Items \in Tables(Vals)
  BY <1>1, ShapeFacts DEF FInv, Items
<1>3. v \in Vals \cup {Zero}
  BY <1>2, TableFacts
<1>4. k \in Keys /\ k = Order[idx' + 1]
  BY <1>1, NextKey
<1>5. (k \in DOMAIN Items) \in BOOLEAN
  OBVIOUS
<1> HIDE DEF k, v
<1> QED
  BY <1>1, <1>3, <1>4, <1>5, BindStep
-----------------------------------------------------------------------------
\* A statement of the body leaves the loop alone; it keeps the invariant if
\* the containers stay of their type and the one of the entry of its length.
LEMMA StatementStep ==
  ASSUME FInv, Statement,
         heap' \in [Refs \cup {Temp} -> Containers], vbl' \in Refs, reassigned' \in BOOLEAN,
         Indexed => \A r \in Refs \cup {Temp} : Len(heap'[r]) = Len(heap[r]),
         ~reassigned' => ~reassigned /\ (vbl' = vbl \/ shape = "Array")
  PROVE  FInv'
<1>1. /\ pc = "body" /\ pc' = pc /\ ops < MaxOps /\ ops' = ops + 1 /\ shape' = shape
      /\ form' = form /\ live' = live /\ tmp' = tmp /\ keys' = keys /\ len' = len /\ idx' = idx
      /\ visited' = visited /\ result' = result /\ broken' = broken
  BY DEF Statement, loop
<1>2. Containers' = Containers /\ Indexed' = Indexed /\ Order' = Order
  BY <1>1 DEF Containers, Indexed, Order
<1>3. ops' \in 0 .. MaxOps
  BY <1>1, ForLoopsAssumption DEF FInv, TypeOK
<1>4. TypeOK'
  BY <1>1, <1>2, <1>3 DEF FInv, TypeOK
<1>5. LengthOK'
  <2>1. tmp \in Refs \cup {Temp}
    BY DEF FInv, TypeOK
  <2>2. shape = "Array" => \A r, s \in Refs \cup {Temp} : Len(heap'[r]) = Len(heap'[s])
    BY DEF FInv, LengthOK, Indexed
  <2> QED
    BY <2>1, <2>2, <1>1, <1>2 DEF FInv, LengthOK
<1>6. VisitOK'
  BY <1>1, <1>2 DEF FInv, VisitOK
<1>7. YieldOK'
  BY <1>1 DEF FInv, YieldOK, Stored
<1> QED
  BY <1>1, <1>4, <1>5, <1>6, <1>7 DEF FInv, FreshOK, PanicNeedsReassignment

LEMMA SetAtStep ==
  ASSUME FInv, SetAt
  PROVE  FInv'
<1>1. Statement /\ Indexed /\ vbl' = vbl /\ reassigned' = reassigned
  BY DEF SetAt
<1>2. PICK i \in 1 .. Len(heap[vbl]), v \in Vals : heap' = [heap EXCEPT ![vbl][i] = v]
  BY DEF SetAt
<1>3. /\ heap \in [Refs \cup {Temp} -> Containers] /\ vbl \in Refs /\ reassigned \in BOOLEAN
      /\ heap[vbl] \in Lists(MaxLen) /\ Containers = Lists(MaxLen)
  BY <1>1, ShapeFacts DEF FInv, TypeOK
<1>4. /\ [heap[vbl] EXCEPT ![i] = v] \in Lists(MaxLen)
      /\ Len([heap[vbl] EXCEPT ![i] = v]) = Len(heap[vbl])
  BY <1>3, ListFacts
<1>5. \A r \in Refs \cup {Temp} :
        heap'[r] = IF r = vbl THEN [heap[vbl] EXCEPT ![i] = v] ELSE heap[r]
  BY <1>2, <1>3
<1>6. heap' \in [Refs \cup {Temp} -> Containers]
  BY <1>2, <1>3, <1>4
<1>7. \A r \in Refs \cup {Temp} : Len(heap'[r]) = Len(heap[r])
  BY <1>4, <1>5
<1>8. ~reassigned' => ~reassigned /\ (vbl' = vbl \/ shape = "Array")
  BY <1>1
<1> QED
  BY <1>1, <1>3, <1>6, <1>7, <1>8, StatementStep

\* The values a Set and a Map hold.
LEMMA TableShape ==
  ASSUME TypeOK, ~Indexed
  PROVE  Containers = Tables(IF shape = "Set" THEN {TRUE} ELSE Vals)
BY ShapeFacts DEF Indexed

LEMMA PutStep ==
  ASSUME FInv, Put
  PROVE  FInv'
<1> DEFINE V == IF shape = "Set" THEN {TRUE} ELSE Vals
<1>1. Statement /\ ~Indexed /\ vbl' = vbl /\ reassigned' = reassigned
  BY DEF Put
<1>2. PICK k \in Keys, v \in V :
        heap' = [heap EXCEPT ![vbl] = [j \in DOMAIN @ \cup {k} |-> IF j = k THEN v ELSE @[j]]]
  BY DEF Put
<1>3. /\ heap \in [Refs \cup {Temp} -> Containers] /\ vbl \in Refs /\ reassigned \in BOOLEAN
      /\ Containers = Tables(V) /\ heap[vbl] \in Tables(V)
  BY <1>1, TableShape DEF FInv, TypeOK
<1> DEFINE t == [j \in DOMAIN heap[vbl] \cup {k} |-> IF j = k THEN v ELSE heap[vbl][j]]
<1> HIDE DEF V
<1>4. t \in Tables(V)
  <2>1. DOMAIN heap[vbl] \subseteq Keys /\ \A j \in DOMAIN heap[vbl] : heap[vbl][j] \in V
    BY <1>3, TableFacts
  <2>2. DOMAIN heap[vbl] \cup {k} \in SUBSET Keys /\ t \in [DOMAIN heap[vbl] \cup {k} -> V]
    BY <2>1
  <2> QED
    BY <2>2 DEF Tables
<1>5. heap' = [heap EXCEPT ![vbl] = t]
  BY <1>2
<1> HIDE DEF t
<1>6. heap' \in [Refs \cup {Temp} -> Containers]
  BY <1>3, <1>4, <1>5
<1>7. ~reassigned' => ~reassigned /\ (vbl' = vbl \/ shape = "Array")
  BY <1>1
<1> QED
  BY <1>1, <1>3, <1>6, <1>7, StatementStep

LEMMA DeleteStep ==
  ASSUME FInv, Delete
  PROVE  FInv'
<1> DEFINE V == IF shape = "Set" THEN {TRUE} ELSE Vals
<1>1. Statement /\ ~Indexed /\ vbl' = vbl /\ reassigned' = reassigned
  BY DEF Delete
<1>2. PICK k \in Keys : heap' = [heap EXCEPT ![vbl] = Restrict(@, DOMAIN @ \ {k})]
  BY DEF Delete
<1>3. /\ heap \in [Refs \cup {Temp} -> Containers] /\ vbl \in Refs /\ reassigned \in BOOLEAN
      /\ Containers = Tables(V) /\ heap[vbl] \in Tables(V)
  BY <1>1, TableShape DEF FInv, TypeOK
<1> DEFINE t == Restrict(heap[vbl], DOMAIN heap[vbl] \ {k})
<1> HIDE DEF V
<1>4. t \in Tables(V)
  <2>1. DOMAIN heap[vbl] \subseteq Keys /\ \A j \in DOMAIN heap[vbl] : heap[vbl][j] \in V
    BY <1>3, TableFacts
  <2>2. DOMAIN heap[vbl] \ {k} \in SUBSET Keys /\ t \in [DOMAIN heap[vbl] \ {k} -> V]
    BY <2>1 DEF Restrict
  <2> QED
    BY <2>2 DEF Tables
<1>5. heap' = [heap EXCEPT ![vbl] = t]
  BY <1>2
<1> HIDE DEF t
<1>6. heap' \in [Refs \cup {Temp} -> Containers]
  BY <1>3, <1>4, <1>5
<1>7. ~reassigned' => ~reassigned /\ (vbl' = vbl \/ shape = "Array")
  BY <1>1
<1> QED
  BY <1>1, <1>3, <1>6, <1>7, StatementStep

LEMMA ReassignStep ==
  ASSUME FInv, Reassign
  PROVE  FInv'
<1>1. Statement /\ reassigned' = TRUE
  BY DEF Reassign
<1>2. PICK r \in Refs :
        IF shape = "Array"
          THEN heap' = [heap EXCEPT ![vbl] = heap[r]] /\ vbl' = vbl
          ELSE vbl' = r /\ heap' = heap
  BY DEF Reassign
<1>3. heap \in [Refs \cup {Temp} -> Containers] /\ vbl \in Refs
  BY DEF FInv, TypeOK
<1>4. CASE shape = "Array"
  <2>1. \A q \in Refs \cup {Temp} : heap'[q] = IF q = vbl THEN heap[r] ELSE heap[q]
    BY <1>2, <1>3, <1>4
  <2>2. \A q \in Refs \cup {Temp} : Len(heap'[q]) = Len(heap[q])
    BY <2>1, <1>3, <1>4 DEF FInv, LengthOK
  <2>3. heap' \in [Refs \cup {Temp} -> Containers] /\ vbl' \in Refs
    BY <1>2, <1>3, <1>4
  <2> QED
    BY <2>2, <2>3, <1>1, StatementStep
<1>5. CASE shape # "Array"
  <2>1. heap' = heap /\ vbl' \in Refs
    BY <1>2, <1>5
  <2> QED
    BY <2>1, <1>1, <1>3, StatementStep
<1> QED
  BY <1>4, <1>5
-----------------------------------------------------------------------------
\* continue and the end of the body go back to the head of the loop.
LEMMA BackToTop ==
  ASSUME FInv, pc = "body", form = "Body", pc' = "top",
         UNCHANGED <<loop, heap, vbl, tmp, keys, len, idx, visited, result, broken, reassigned,
                     ops>>
  PROVE  FInv'
<1>1. Containers' = Containers /\ Indexed' = Indexed /\ Order' = Order
  BY DEF Containers, Indexed, Order, loop
<1>2. TypeOK'
  BY <1>1 DEF FInv, TypeOK, loop
<1>3. LengthOK' /\ FreshOK' /\ PanicNeedsReassignment'
  BY <1>1 DEF FInv, LengthOK, FreshOK, PanicNeedsReassignment, loop
<1>4. VisitOK'
  BY <1>1 DEF FInv, VisitOK
<1> QED
  BY <1>2, <1>3, <1>4 DEF FInv, YieldOK, loop

LEMMA BreakStep ==
  ASSUME FInv, Break
  PROVE  FInv'
<1>1. /\ pc = "body" /\ form = "Body" /\ pc' = "done" /\ shape' = shape /\ form' = form
      /\ live' = live /\ heap' = heap /\ vbl' = vbl /\ tmp' = tmp /\ keys' = keys /\ len' = len
      /\ idx' = idx /\ visited' = visited /\ result' = result /\ broken' = TRUE
      /\ reassigned' = reassigned /\ ops' = ops
  BY DEF Break, loop
<1>2. Containers' = Containers /\ Indexed' = Indexed /\ Order' = Order
  BY <1>1 DEF Containers, Indexed, Order
<1>3. TypeOK'
  BY <1>1, <1>2 DEF FInv, TypeOK
<1>4. LengthOK' /\ FreshOK' /\ PanicNeedsReassignment'
  BY <1>1, <1>2 DEF FInv, LengthOK, FreshOK, PanicNeedsReassignment
<1>5. VisitOK'
  BY <1>1, <1>2 DEF FInv, VisitOK
<1> QED
  BY <1>1, <1>3, <1>4, <1>5 DEF FInv, YieldOK

LEMMA YieldStep ==
  ASSUME FInv, Yield
  PROVE  FInv'
<1> DEFINE v == visited[Len(visited)].val
           Elem == Keys \cup Vals \cup {Zero}
<1>1. /\ pc = "body" /\ form = "Yield" /\ pc' = "top" /\ shape' = shape /\ form' = form
      /\ live' = live /\ heap' = heap /\ vbl' = vbl /\ tmp' = tmp /\ keys' = keys /\ len' = len
      /\ idx' = idx /\ visited' = visited /\ broken' = broken
      /\ reassigned' = reassigned /\ ops' = ops
      /\ result' = [result EXCEPT ![idx + 1] = v]
  BY DEF Yield, loop
<1>2. /\ visited \in Seq(Visit) /\ result \in Seq(Elem) /\ len \in Nat
      /\ Len(visited) \in Nat /\ Len(visited) >= 1 /\ Len(visited) <= len
      /\ idx = Len(visited) - 1 /\ Len(result) = len /\ ~broken
      /\ \A i \in 1 .. Len(visited) - 1 : result[i] = visited[i].val
  BY <1>1, ST!LenProperties, ST!EmptySeq DEF FInv, TypeOK, VisitOK, YieldOK, Stored
<1>3. v \in Elem
  <2>1. visited[Len(visited)] \in Visit
    BY <1>2, ST!ElementOfSeq
  <2> QED
    BY <2>1 DEF Visit
<1> HIDE DEF Elem
<1>4. /\ result' \in Seq(Elem) /\ Len(result') = Len(result)
      /\ \A n \in 1 .. Len(result) : result'[n] = IF n = Len(visited) THEN v ELSE result[n]
  <2> HIDE DEF v
  <2>1. idx + 1 = Len(visited) /\ Len(visited) \in 1 .. Len(result)
    BY <1>2
  <2>2. result' = [result EXCEPT ![Len(visited)] = v]
    BY <1>1, <2>1
  <2> HIDE <1>1
  <2>3. result' \in Seq(Elem) /\ Len(result') = Len(result)
    BY <2>1, <2>2, <1>2, <1>3, ST!ExceptSeq
  <2>4. DOMAIN result = 1 .. Len(result)
    BY <1>2, ST!LenProperties
  <2>5. \A n \in 1 .. Len(result) : result'[n] = IF n = Len(visited) THEN v ELSE result[n]
    BY <2>2, <2>4
  <2> QED
    BY <2>3, <2>5
<1>5. Containers' = Containers /\ Indexed' = Indexed /\ Order' = Order
  BY <1>1 DEF Containers, Indexed, Order
<1>6. TypeOK'
  BY <1>1, <1>4, <1>5 DEF FInv, TypeOK, Elem
<1>7. LengthOK' /\ FreshOK' /\ PanicNeedsReassignment'
  BY <1>1, <1>5 DEF FInv, LengthOK, FreshOK, PanicNeedsReassignment
<1>8. VisitOK'
  BY <1>1, <1>5 DEF FInv, VisitOK
<1>9. YieldOK'
  <2>1. \A n \in 1 .. Len(visited) : result'[n] = visited[n].val
    BY <1>2, <1>4
  <2> QED
    BY <2>1, <1>1, <1>2, <1>4 DEF YieldOK, Stored
<1> QED
  BY <1>6, <1>7, <1>8, <1>9 DEF FInv

LEMMA StutterStep ==
  ASSUME FInv, UNCHANGED vars
  PROVE  FInv'
<1>1. Containers' = Containers /\ Indexed' = Indexed /\ Order' = Order
  BY DEF Containers, Indexed, Order, vars, loop
<1>2. TypeOK'
  BY <1>1 DEF FInv, TypeOK, vars, loop
<1>3. LengthOK' /\ FreshOK' /\ PanicNeedsReassignment'
  BY <1>1 DEF FInv, LengthOK, FreshOK, PanicNeedsReassignment, vars, loop
<1>4. VisitOK' /\ YieldOK'
  BY <1>1 DEF FInv, VisitOK, YieldOK, Stored, vars, loop
<1> QED
  BY <1>2, <1>3, <1>4 DEF FInv

THEOREM NextFInv == FInv /\ [Next]_vars => FInv'
<1> SUFFICES ASSUME FInv, [Next]_vars PROVE FInv'
  OBVIOUS
<1>1. CASE Continue
  BY <1>1, BackToTop DEF Continue
<1>2. CASE EndBody
  BY <1>2, BackToTop DEF EndBody
<1> QED
  BY <1>1, <1>2, EvalItemsStep, ExhaustedStep, NextElementStep, IndexPanicStep, NextMemberStep,
     NextEntryStep, SetAtStep, PutStep, DeleteStep, ReassignStep, BreakStep, YieldStep,
     StutterStep DEF Next, Stopped

THEOREM FInvHolds == Spec => []FInv
BY InitFInv, NextFInv, PTL DEF Spec

(***************************************************************************)
(* Whatever the body does to the containers, the loop's own state keeps    *)
(* its types: the index stays between -1 and the length taken on entry.    *)
(***************************************************************************)
THEOREM TypeCorrect == Spec => []TypeOK
<1>1. FInv => TypeOK
  BY DEF FInv
<1> QED
  BY <1>1, FInvHolds, PTL

(***************************************************************************)
(* For every container: the places are visited in their order on entry,    *)
(* none twice and none skipped.                                            *)
(***************************************************************************)
THEOREM EachOnceInOrderHolds == Spec => []EachOnceInOrder
<1>1. FInv => EachOnceInOrder
  BY DEF FInv, VisitOK, EachOnceInOrder
<1> QED
  BY <1>1, FInvHolds, PTL

(***************************************************************************)
(* For every container: a loop that is not broken off visits as many       *)
(* places as the container had on entry.                                   *)
(***************************************************************************)
THEOREM CompleteUnlessBrokenHolds == Spec => []CompleteUnlessBroken
<1>1. FInv => CompleteUnlessBroken
  <2> SUFFICES ASSUME FInv, pc = "done", ~broken PROVE Len(visited) = Len(Order)
    BY DEF CompleteUnlessBroken
  <2>1. Len(visited) = len /\ len \in Nat
    BY DEF FInv, VisitOK, TypeOK
  <2>2. CASE Indexed
    <3>1. Order = [i \in 1 .. len |-> i - 1]
      BY <2>2 DEF Order
    <3>2. Len([i \in 1 .. len |-> i - 1]) = len
      BY <2>1
    <3> QED
      BY <3>1, <3>2, <2>1
  <2>3. CASE ~Indexed
    BY <2>1, <2>3 DEF FInv, LengthOK, Order
  <2> QED
    BY <2>2, <2>3
<1> QED
  BY <1>1, FInvHolds, PTL

(***************************************************************************)
(* For every container and every body: a loop indexes past the end only of *)
(* a List variable the body assigned to.                                   *)
(***************************************************************************)
THEOREM PanicNeedsReassignmentHolds == Spec => []PanicNeedsReassignment
<1>1. FInv => PanicNeedsReassignment
  BY DEF FInv
<1> QED
  BY <1>1, FInvHolds, PTL

(***************************************************************************)
(* For every container: a yield stores the value of each visit in the slot *)
(* of that visit, and the List has no slot left over.                      *)
(***************************************************************************)
THEOREM YieldInOrderHolds == Spec => []YieldInOrder
<1>1. FInv => YieldInOrder
  <2> SUFFICES ASSUME FInv, form = "Yield", pc = "done"
               PROVE  /\ Len(result) = Len(visited)
                      /\ \A i \in 1 .. Len(result) : result[i] = visited[i].val
    BY DEF YieldInOrder
  <2> QED
    BY DEF FInv, VisitOK, YieldOK, Stored
<1> QED
  BY <1>1, FInvHolds, PTL
-----------------------------------------------------------------------------
(***************************************************************************)
(* The loop implements ForEach: the index and the keys stand for the list  *)
(* of the places that are left, the filled slots for what was yielded.     *)
(***************************************************************************)
\* A container has each place once.
Ordered(o) == o \in Seq(Places) /\ Len(o) <= Cardinality(Keys) + MaxLen /\ IsInjective(o)

LEMMA OrderedIs ==
  ASSUME NEW o, Ordered(o)
  PROVE  o \in Abstract!Orders
<1> DEFINE n == Len(o)
           most == Cardinality(Keys) + MaxLen
<1>1. n \in Nat /\ o \in [1 .. n -> Places] /\ most \in Nat /\ n <= most
  BY ForLoopsAssumption, FS_CardinalityType DEF Ordered
<1>2. Abstract!IsInjective(o)
  BY DEF Ordered, IsInjective, Abstract!IsInjective
<1> HIDE DEF n, most
<1>3. n \in 0 .. most
  BY <1>1
<1> QED BY <1>1, <1>2, <1>3 DEF Abstract!Orders, Places, most

LEMMA IndexOrder ==
  ASSUME NEW n \in 0 .. MaxLen
  PROVE  Ordered([i \in 1 .. n |-> i - 1])
<1>1. n \in Nat /\ MaxLen \in Nat /\ n <= MaxLen
  BY ForLoopsAssumption
<1>2. [i \in 1 .. n |-> i - 1] \in Seq(Places)
  BY <1>1 DEF Places
<1>3. IsInjective([i \in 1 .. n |-> i - 1])
  BY <1>1 DEF IsInjective
<1>4. Len([i \in 1 .. n |-> i - 1]) = n /\ Cardinality(Keys) \in Nat
  BY <1>1, ForLoopsAssumption, FS_CardinalityType
<1> QED BY <1>1, <1>2, <1>3, <1>4 DEF Ordered

LEMMA KeyOrder ==
  ASSUME NEW d \in SUBSET Keys, NEW ks \in Orderings(d)
  PROVE  Ordered(ks)
<1> DEFINE n == Cardinality(d)
<1>1. IsFiniteSet(d) /\ n \in Nat
  BY ForLoopsAssumption, FS_Subset, FS_CardinalityType
<1> HIDE DEF n
<1>2. ks \in [1 .. n -> d] /\ Range(ks) = d
  BY DEF Orderings, n
<1>3. ks \in Surjection(1 .. n, d)
  BY <1>2 DEF Surjection, Range
<1>4. IsFiniteSet(1 .. n) /\ Cardinality(1 .. n) = n
  BY <1>1, FS_Interval
<1>5. ks \in Injection(1 .. n, d)
  BY <1>3, <1>4, FS_SurjSameCardinalityImpliesInj DEF n
<1>6. ks \in [1 .. n -> Places]
  BY <1>2 DEF Places
<1>7. ks \in Seq(Places)
  BY <1>1, <1>6
<1>8. n <= Cardinality(Keys) /\ Cardinality(Keys) \in Nat /\ MaxLen \in Nat
  BY ForLoopsAssumption, FS_Subset, FS_CardinalityType DEF n
<1>9. Len(ks) = n
  BY <1>1, <1>2
<1> QED BY <1>5, <1>7, <1>8, <1>9 DEF Ordered, Injection

\* Once the loop was entered, its order has len places.
LEMMA OrderFacts ==
  ASSUME FInv, pc # "enter"
  PROVE  /\ \E S : Order \in Seq(S)
         /\ Len(Order) = len /\ len \in Nat /\ Len(visited) \in 0 .. len
<1>1. len \in Nat /\ keys \in Seq(Keys) /\ Len(visited) \in 0 .. len
  BY ST!LenProperties DEF FInv, TypeOK, VisitOK
<1>2. CASE Indexed
  <2>1. [i \in 1 .. len |-> i - 1] \in Seq(Int) /\ Len([i \in 1 .. len |-> i - 1]) = len
    BY <1>1
  <2> QED BY <1>1, <1>2, <2>1 DEF Order
<1>3. CASE ~Indexed
  BY <1>1, <1>3 DEF Order, FInv, LengthOK
<1> QED BY <1>2, <1>3

\* While a place is left, the next one is the first of Todo.
LEMMA TodoLeft ==
  ASSUME FInv, pc # "enter", Len(visited) < len
  PROVE  /\ Todo # <<>> /\ Head(Todo) = Order[Len(visited) + 1]
         /\ Tail(Todo) = SubSeq(Order, Len(visited) + 1 + 1, Len(Order))
<1> DEFINE n == Len(visited)
<1>1. PICK S : Order \in Seq(S)
  BY OrderFacts
<1>2. Len(Order) = len /\ len \in Nat /\ n \in 0 .. len /\ n + 1 <= len
  BY OrderFacts
<1>3. n + 1 \in 1 .. Len(Order) /\ Len(Order) \in n + 1 .. Len(Order)
  BY <1>2
<1> HIDE DEF n
<1>4. /\ Head(SubSeq(Order, n + 1, Len(Order))) = Order[n + 1]
      /\ Tail(SubSeq(Order, n + 1, Len(Order))) = SubSeq(Order, n + 1 + 1, Len(Order))
  BY <1>1, <1>3, ST!HeadTailOfSubSeq
<1>5. \A i \in n + 1 .. Len(Order) : Order[i] \in S
  BY <1>1, <1>2, <1>3
<1>6. Len(SubSeq(Order, n + 1, Len(Order))) = Len(Order) - (n + 1) + 1
  BY <1>2, <1>3, <1>5, ST!SubSeqProperties
<1>7. SubSeq(Order, n + 1, Len(Order)) # <<>>
  BY <1>2, <1>3, <1>6
<1> QED BY <1>4, <1>7 DEF Todo, n

\* A visit takes the first of the places that are left.
LEMMA VisitIsVisit ==
  ASSUME FInv, FInv', pc = "top", pc' = "body", UNCHANGED <<loop, keys, len, result>>,
         NEW r \in Visit, visited' = Append(visited, r)
  PROVE  Abstract!Visit
<1> DEFINE n == Len(visited)
<1>1. Order' = Order
  BY DEF Order, Indexed, loop
<1>2. Len(Order) = len /\ len \in Nat /\ n \in 0 .. len
  BY OrderFacts
<1>3. /\ visited \in Seq(Visit) /\ Len(visited') = n + 1
      /\ \A i \in 1 .. n : visited'[i] = visited[i]
      /\ visited'[n + 1] = r
  BY AppendFacts DEF FInv, TypeOK
<1>4. n + 1 <= len /\ r.at = Order[n + 1]
  <2>1. n + 1 \in 1 .. n + 1
    BY <1>2
  <2> QED BY <1>1, <1>3, <2>1 DEF FInv, VisitOK
<1>5. /\ Todo # <<>> /\ Head(Todo) = Order[n + 1]
      /\ Tail(Todo) = SubSeq(Order, n + 1 + 1, Len(Order))
  BY <1>2, <1>4, TodoLeft
<1>6. Todo' = Tail(Todo)
  BY <1>1, <1>3, <1>5 DEF Todo
<1>7. Seen' = Append(Seen, [at |-> Head(Todo), val |-> r.val])
  <2> DEFINE f(v) == [at |-> v.at, val |-> v.val]
  <2>1. Seen = [i \in 1 .. n |-> f(visited[i])] /\ Seen' = [i \in 1 .. n + 1 |-> f(visited'[i])]
    BY <1>3 DEF Seen
  <2>2. f(r) = [at |-> Head(Todo), val |-> r.val]
    BY <1>4, <1>5
  <2>3. \A i \in 1 .. n + 1 : f(visited'[i]) = IF i = n + 1 THEN f(r) ELSE f(visited[i])
    BY <1>2, <1>3
  <2> HIDE DEF f
  <2>4. Append([i \in 1 .. n |-> f(visited[i])], f(r))
          = [i \in 1 .. n + 1 |-> IF i = n + 1 THEN f(r) ELSE f(visited[i])]
    BY <1>2
  <2> QED BY <2>1, <2>2, <2>3, <2>4
<1>8. r.val \in Keys \cup Vals \cup {Zero}
  BY DEF Visit
<1>9. Out' = Out
  <2>1. Stored' = Stored
    BY <1>2, <1>3 DEF Stored
  <2> QED BY <2>1 DEF Out, loop
<1>10. Phase = "top" /\ Phase' = "body" /\ form' = form
  BY DEF Phase, loop
<1> QED BY <1>5, <1>6, <1>7, <1>8, <1>9, <1>10 DEF Abstract!Visit

\* Between two visits nothing is taken.
LEMMA SameTodo ==
  ASSUME UNCHANGED <<loop, keys, len, visited>>
  PROVE  Todo' = Todo /\ Seen' = Seen
BY DEF Todo, Seen, Order, Indexed, loop

\* A yield appends the value of its visit.
LEMMA YieldIsYield ==
  ASSUME FInv, FInv', Yield
  PROVE  Abstract!Yield
<1> DEFINE n == Len(visited)
           v == visited[n].val
<1>1. /\ pc = "body" /\ pc' = "top" /\ form = "Yield" /\ form' = "Yield"
      /\ UNCHANGED <<loop, keys, len, idx, visited>>
      /\ result' = [result EXCEPT ![idx + 1] = v]
  BY DEF Yield, loop
<1>2. /\ n \in Nat /\ n >= 1 /\ n <= len /\ len \in Nat /\ idx + 1 = n
      /\ Len(result) = len /\ Len(result') = len
      /\ result \in Seq(Keys \cup Vals \cup {Zero}) /\ DOMAIN result = 1 .. len
  BY <1>1, ST!LenProperties, ST!EmptySeq DEF FInv, TypeOK, VisitOK, YieldOK
<1>3. \A i \in 1 .. n : result'[i] = IF i = n THEN v ELSE result[i]
  <2> HIDE DEF v
  <2> QED BY <1>1, <1>2
<1>4. Out = [i \in 1 .. n - 1 |-> result[i]] /\ Out' = [i \in 1 .. n |-> result'[i]]
  <2>1. Stored = n - 1 /\ Stored' = n
    BY <1>1 DEF Stored
  <2>2. Out = SubSeq(result, 1, n - 1) /\ Out' = SubSeq(result', 1, n)
    BY <1>1, <2>1 DEF Out
  <2> QED BY <1>2, <2>2
<1>5. Out' = Append(Out, v)
  <2> HIDE DEF v
  <2>1. Append([i \in 1 .. n - 1 |-> result[i]], v)
          = [i \in 1 .. n |-> IF i = n THEN v ELSE result[i]]
    BY <1>2
  <2> QED BY <1>3, <1>4, <2>1
<1>6. Len(Seen) = n /\ Seen[n].val = v
  BY <1>2 DEF Seen
<1>7. Phase = "body" /\ Phase' = "top"
  BY <1>1 DEF Phase
<1> QED BY <1>1, <1>5, <1>6, <1>7, SameTodo DEF Abstract!Yield

\* Before the first visit nothing was yielded.
LEMMA NoneYielded ==
  ASSUME visited = <<>>, pc \in {"enter", "top"}, form # "Yield" => result = <<>>
  PROVE  Out = <<>>
<1>1. Stored = 0
  BY DEF Stored
<1>2. CASE form = "Yield"
  BY <1>1, <1>2, ST!SubSeqEmpty DEF Out
<1>3. CASE form # "Yield"
  BY <1>3 DEF Out
<1> QED BY <1>2, <1>3

LEMMA InitIsAbstractInit == Init => Abstract!Init
<1> SUFFICES ASSUME Init PROVE Abstract!Init
  OBVIOUS
<1>1. Len(Order) = 0 /\ visited = <<>> /\ pc = "enter"
  <2>1. CASE Indexed
    <3>1. Order = [i \in 1 .. 0 |-> i - 1]
      BY <2>1 DEF Init, Order
    <3>2. Len([i \in 1 .. 0 |-> i - 1]) = 0
      OBVIOUS
    <3> QED BY <3>1, <3>2 DEF Init
  <2>2. CASE ~Indexed
    BY <2>2 DEF Init, Order
  <2> QED BY <2>1, <2>2
<1>2. Todo = <<>>
  BY <1>1, ST!SubSeqEmpty DEF Todo
<1>3. Seen = <<>>
  BY <1>1 DEF Seen
<1>4. Phase = "new"
  BY <1>1 DEF Phase
<1>5. Out = <<>>
  BY <1>1, NoneYielded DEF Init
<1>6. form \in {"Body", "Yield"}
  BY DEF Init
<1> QED BY <1>2, <1>3, <1>4, <1>5, <1>6 DEF Abstract!Init

LEMMA EntryIsStart ==
  ASSUME FInv, FInv', EvalItems
  PROVE  Abstract!Start
<1>1. /\ pc = "enter" /\ pc' = "top" /\ visited = <<>> /\ visited' = <<>>
      /\ shape' = shape /\ form' = form /\ result = <<>>
      /\ form # "Yield" => result' = <<>>
  BY DEF EvalItems, FInv, FreshOK, loop
<1>2. Ordered(Order')
  <2>1. CASE Indexed
    <3>1. heap[vbl] \in Lists(MaxLen) /\ len' = Len(heap[vbl])
      BY <2>1, ShapeFacts DEF EvalItems, FInv
    <3>2. len' \in 0 .. MaxLen /\ Order' = [i \in 1 .. len' |-> i - 1]
      BY <1>1, <2>1, <3>1, ListFacts DEF Order, Indexed
    <3> QED BY <3>2, IndexOrder
  <2>2. CASE ~Indexed
    <3>1. DOMAIN heap[vbl] \in SUBSET Keys
      BY <2>2, ShapeFacts, TableFacts DEF FInv, Indexed
    <3>2. keys' \in Orderings(DOMAIN heap[vbl]) /\ Order' = keys'
      BY <1>1, <2>2 DEF EvalItems, Order, Indexed
    <3> QED BY <3>1, <3>2, KeyOrder
  <2> QED BY <2>1, <2>2
<1>3. Todo' = Order'
  <2>1. Order' \in Seq(Places)
    BY <1>2 DEF Ordered
  <2>2. Len(visited') + 1 = 1
    BY <1>1
  <2> QED BY <2>1, <2>2, ST!SubSeqFull DEF Todo
<1>4. Seen' = <<>> /\ Seen = <<>>
  BY <1>1 DEF Seen
<1>5. Order' \in Abstract!Orders
  BY <1>2, OrderedIs
<1>6. Out = <<>> /\ Out' = <<>>
  <2>1. Out = <<>>
    BY <1>1, NoneYielded
  <2>2. Stored' = 0
    BY <1>1 DEF Stored
  <2>3. CASE form = "Yield"
    BY <1>1, <2>2, <2>3, ST!SubSeqEmpty DEF Out
  <2>4. CASE form # "Yield"
    BY <1>1, <2>4 DEF Out
  <2> QED BY <2>1, <2>3, <2>4
<1>7. Phase = "new" /\ Phase' = "top"
  BY <1>1 DEF Phase
<1> QED BY <1>1, <1>3, <1>4, <1>5, <1>6, <1>7 DEF Abstract!Start

LEMMA NextIsAbstractNext ==
  FInv /\ FInv' /\ [Next]_vars => [Abstract!Next]_Abstract!vars
<1> SUFFICES ASSUME FInv, FInv', [Next]_vars PROVE [Abstract!Next]_Abstract!vars
  OBVIOUS
<1>1. CASE EvalItems
  BY <1>1, EntryIsStart DEF Abstract!Next
<1>2. CASE Exhausted
  <2>1. /\ pc = "top" /\ pc' = "done" /\ UNCHANGED <<loop, keys, len, visited, result>>
        /\ broken' = broken
    BY <1>2 DEF Exhausted, Header
  <2>2. Len(visited) = len /\ Len(Order) = len /\ len \in Nat /\ ~broken
    BY <2>1, OrderFacts DEF FInv, VisitOK
  <2>3. Todo = <<>>
    BY <2>2, ST!SubSeqEmpty DEF Todo
  <2>4. Out' = Out
    <3>1. CASE form = "Yield"
      <4>1. Len(result) = len /\ result \in Seq(Keys \cup Vals \cup {Zero})
        BY <2>1, <3>1 DEF FInv, YieldOK, TypeOK
      <4>2. SubSeq(result, 1, Len(result)) = result
        BY <4>1, ST!SubSeqFull
      <4>3. Out = SubSeq(result, 1, Len(result)) /\ Out' = result
        BY <2>1, <2>2, <3>1, <4>1 DEF Out, Stored
      <4> QED BY <4>2, <4>3
    <3>2. CASE form # "Yield"
      BY <2>1, <3>2 DEF Out, loop
    <3> QED BY <3>1, <3>2
  <2>5. Phase = "top" /\ Phase' = "over" /\ form' = form
    BY <2>1, <2>2 DEF Phase, loop
  <2>6. Abstract!Finish
    BY <2>1, <2>3, <2>4, <2>5, SameTodo DEF Abstract!Finish
  <2> QED BY <2>6 DEF Abstract!Next
<1>3. CASE NextElement \/ NextMember \/ NextEntry
  <2>1. /\ pc = "top" /\ pc' = "body" /\ UNCHANGED <<loop, keys, len, result>>
        /\ \E r : visited' = Append(visited, r)
    BY <1>3 DEF NextElement, NextMember, NextEntry, Header, Bind
  <2>2. PICK r : visited' = Append(visited, r)
    BY <2>1
  <2>3. r \in Visit
    <3>1. visited' \in Seq(Visit) /\ visited \in Seq(Visit)
      BY DEF FInv, TypeOK
    <3>2. Len(visited') = Len(visited) + 1 /\ visited'[Len(visited) + 1] = r
      BY <2>2, <3>1
    <3> QED BY <3>1, <3>2
  <2>4. Abstract!Visit
    BY <2>1, <2>2, <2>3, VisitIsVisit
  <2> QED BY <2>4 DEF Abstract!Next
<1>4. CASE IndexPanic
  <2>1. /\ pc = "top" /\ pc' = "panicked" /\ UNCHANGED <<loop, keys, len, visited, result>>
    BY <1>4 DEF IndexPanic, Header
  <2>2. Len(visited) < len
    BY <1>4, HeaderFacts DEF IndexPanic, Done
  <2>3. Todo # <<>>
    BY <2>1, <2>2, TodoLeft
  <2>4. Phase = "top" /\ Phase' = "panicked" /\ form' = form /\ Out' = Out
    BY <2>1 DEF Phase, Out, Stored, loop
  <2>5. Abstract!Panic
    BY <2>1, <2>3, <2>4, SameTodo DEF Abstract!Panic
  <2> QED BY <2>5 DEF Abstract!Next
<1>5. CASE Break
  <2>1. /\ pc = "body" /\ pc' = "done" /\ form = "Body" /\ form' = "Body" /\ broken'
        /\ UNCHANGED <<loop, keys, len, visited, result>>
    BY <1>5 DEF Break, loop
  <2>2. Phase = "body" /\ Phase' = "left" /\ Out' = Out
    BY <2>1 DEF Phase, Out
  <2>3. Abstract!Break
    BY <2>1, <2>2, SameTodo DEF Abstract!Break
  <2> QED BY <2>3 DEF Abstract!Next
<1>6. CASE Continue \/ EndBody
  <2>1. /\ pc = "body" /\ pc' = "top" /\ form = "Body" /\ form' = "Body"
        /\ UNCHANGED <<loop, keys, len, visited, result>>
    BY <1>6 DEF Continue, EndBody, loop
  <2>2. Phase = "body" /\ Phase' = "top" /\ Out' = Out
    BY <2>1 DEF Phase, Out
  <2>3. Abstract!EndBody
    BY <2>1, <2>2, SameTodo DEF Abstract!EndBody
  <2> QED BY <2>3 DEF Abstract!Next
<1>7. CASE Yield
  BY <1>7, YieldIsYield DEF Abstract!Next
<1>8. CASE SetAt \/ Put \/ Delete \/ Reassign \/ Stopped \/ UNCHANGED vars
  <2>1. UNCHANGED <<loop, keys, len, visited, result, pc, broken>>
    BY <1>8 DEF SetAt, Put, Delete, Reassign, Statement, Stopped, vars
  <2>2. Phase' = Phase /\ Out' = Out /\ form' = form
    BY <2>1 DEF Phase, Out, Stored, loop
  <2> QED BY <2>1, <2>2, SameTodo DEF Abstract!vars
<1> QED BY <1>1, <1>2, <1>3, <1>4, <1>5, <1>6, <1>7, <1>8 DEF Next

(***************************************************************************)
(* For every container and every body: a for loop visits the places it     *)
(* listed when it was entered, each once and in that order; it ends only   *)
(* when none is left, at a break of the body or at a panic over the next   *)
(* place; and a yield gives the value of each visit, in order.  (That the  *)
(* loop ends needs the fairness in VisitsLikeForEach, which TLC checks.)   *)
(***************************************************************************)
THEOREM ImplementsForEach == Spec => Abstract!Spec
<1>1. Init => Abstract!Init
  BY InitIsAbstractInit
<1>2. FInv /\ FInv' /\ [Next]_vars => [Abstract!Next]_Abstract!vars
  BY NextIsAbstractNext
<1>3. Abstract!Spec <=> Abstract!Init /\ [][Abstract!Next]_Abstract!vars
  BY DEF Abstract!Spec
<1> QED BY <1>1, <1>2, <1>3, FInvHolds, PTL DEF Spec
-----------------------------------------------------------------------------
(* Loops over ranges.                                                      *)

(***************************************************************************)
(* The inductive invariant: at the head of the loop the next value of the  *)
(* counter is From plus the number of elements seen, though the counter    *)
(* itself may stand at the greatest integer, one below the least.          *)
(***************************************************************************)
Steady == kind = "Yield" => Representable

HeadOK ==
  point = "top" /\ Steady =>
    /\ Wrap(counter + 1) = from + Len(seen)
    /\ seen = <<>> \/ from + Len(seen) <= to

BodyOK ==
  point = "body" =>
    /\ seen # <<>>
    /\ Steady => counter = from + Len(seen) - 1 /\ counter < to
    /\ kind = "Yield" => index < size /\ seen[Len(seen)] = counter

DoneOK ==
  point = "done" /\ ~brokenOff /\ Steady =>
    \/ from < to /\ Len(seen) = to - from
    \/ to <= from /\ seen = <<>>

\* How far a Yield loop is with its result.
Collected == IF point = "body" THEN Len(seen) - 1 ELSE Len(seen)

CollectedOK ==
  kind = "Yield" /\ point \in {"top", "body", "done"} =>
    /\ size = Count /\ Len(collected) = size /\ Len(seen) <= size /\ ~brokenOff
    /\ index = IF point = "top" THEN Len(seen) - 1 ELSE IF point = "body" THEN Len(seen) - 1 ELSE Len(seen)
    /\ point = "done" => Len(seen) = size
    /\ \A n \in 1 .. Collected : collected[n] = seen[n]

PanicOK == point = "panicked" => kind = "Yield" /\ (Representable => to - from > MaxAlloc)

UnbuiltOK ==
  point \in {"range", "prepare"} => seen = <<>> /\ collected = <<>> /\ index = -1 /\ size = 0 /\ ~brokenOff

IdxOK == kind = "Body" => index = -1 /\ size = 0

LInv ==
  /\ RangeTypeOK /\ CountsUp
  /\ HeadOK /\ BodyOK /\ DoneOK /\ CollectedOK /\ PanicOK /\ UnbuiltOK /\ IdxOK
-----------------------------------------------------------------------------
\* Wrapping stays in Int64, undoes itself one step back, and changes nothing
\* below a number of Int64.
LEMMA WrapFacts ==
  /\ Half \in Nat \ {0}
  /\ \A x \in Int64 : /\ Wrap(x + 1) \in Int64 /\ Wrap(x - 1) \in Int64
                      /\ Wrap(Wrap(x - 1) + 1) = x
  /\ \A x, y \in Int64 : Wrap(x - y) \in Int64
  /\ \A x, y \in Int64 : x < y => Wrap(x + 1) = x + 1
  /\ \A x \in Int64 : Wrap(x) = x
BY RangeLoopsAssumption DEF Wrap, Int64

\* The length of a Yield loop's result.
LEMMA CountFacts ==
  ASSUME from \in Int64, to \in Int64
  PROVE  /\ Count \in 0 .. Half - 1
         /\ Representable => Count = IF from < to THEN to - from ELSE 0
<1>1. Wrap(to - from) \in Int64 /\ (Representable => Wrap(to - from) = to - from)
  BY WrapFacts DEF Representable
<1> QED
  BY <1>1, WrapFacts DEF Count, Int64

\* What appending to the numbers seen does.
LEMMA NumberAppended ==
  ASSUME NEW s \in Seq(Int64), NEW x \in Int64
  PROVE  /\ Append(s, x) \in Seq(Int64) /\ Append(s, x) # <<>>
         /\ Len(s) \in Nat /\ Len(Append(s, x)) = Len(s) + 1
         /\ \A n \in 1 .. Len(s) : Append(s, x)[n] = s[n]
         /\ Append(s, x)[Len(s) + 1] = x
<1>1. /\ Append(s, x) \in Seq(Int64) /\ Len(Append(s, x)) = Len(s) + 1
      /\ \A n \in 1 .. Len(s) : Append(s, x)[n] = s[n]
      /\ Append(s, x)[Len(s) + 1] = x
  BY ST!AppendProperties
<1>2. Len(s) \in Nat
  BY ST!LenProperties
<1>3. Append(s, x) # <<>>
  BY <1>1, <1>2, ST!EmptySeq
<1> QED
  BY <1>1, <1>2, <1>3

THEOREM InitLInv == RangeInit => LInv
<1> SUFFICES ASSUME RangeInit PROVE LInv
  OBVIOUS
<1>1. 0 \in Int64 /\ <<>> \in Seq(Int64) /\ Half \in Nat \ {0}
  BY WrapFacts, ST!EmptySeq DEF Int64
<1>2. RangeTypeOK
  <2>1. 0 \in 0 .. Half - 1 /\ -1 \in -1 .. 0
    BY <1>1
  <2>2. size \in 0 .. Half - 1 /\ index \in -1 .. size
    BY <2>1 DEF RangeInit
  <2>3. from \in Int64 /\ to \in Int64 /\ counter \in Int64
    BY <1>1 DEF RangeInit
  <2>4. seen \in Seq(Int64) /\ collected \in Seq(Int64)
    BY <1>1, Zenon DEF RangeInit
  <2> QED
    BY <2>2, <2>3, <2>4 DEF RangeInit, RangeTypeOK
<1>3. CountsUp
  BY DEF RangeInit, CountsUp
<1> QED
  BY <1>2, <1>3 DEF LInv, RangeInit, HeadOK, BodyOK, DoneOK, CollectedOK, PanicOK, UnbuiltOK, IdxOK
-----------------------------------------------------------------------------
LEMMA MakeRangeStep ==
  ASSUME LInv, MakeRange
  PROVE  LInv'
<1>1. from' \in Int64 /\ to' \in Int64
  BY WrapFacts DEF LInv, RangeTypeOK, MakeRange
<1>2. seen = <<>> /\ collected = <<>> /\ index = -1 /\ size = 0 /\ ~brokenOff
  BY DEF LInv, UnbuiltOK, MakeRange
<1>3. RangeTypeOK'
  BY <1>1 DEF LInv, RangeTypeOK, MakeRange, source
<1>4. CountsUp'
  BY <1>2 DEF MakeRange, CountsUp
<1> QED
  BY <1>2, <1>3, <1>4 DEF LInv, MakeRange, HeadOK, BodyOK, DoneOK, CollectedOK, PanicOK, UnbuiltOK, IdxOK

LEMMA PrepareStep ==
  ASSUME LInv, Prepare
  PROVE  LInv'
<1>1. /\ seen = <<>> /\ collected = <<>> /\ index = -1 /\ size = 0 /\ ~brokenOff /\ Len(seen) = 0
      /\ from \in Int64 /\ to \in Int64 /\ counter' = Wrap(from - 1)
      /\ seen' = seen /\ from' = from /\ to' = to /\ index' = index /\ brokenOff' = brokenOff
      /\ kind' = kind /\ kind \in {"Body", "Yield"}
  BY DEF LInv, RangeTypeOK, UnbuiltOK, Prepare, CounterStart, source
<1>2. Count \in 0 .. Half - 1 /\ Count' = Count
  BY <1>1, CountFacts DEF Count
<1>3. counter' \in Int64 /\ Wrap(counter' + 1) = from
  BY <1>1, WrapFacts
<1>4. /\ kind = "Body" => point' = "top" /\ size' = 0 /\ collected' = <<>>
      /\ kind = "Yield" => /\ size' = Count
                           /\ point' \in {"top", "panicked"}
                           /\ point' = "panicked" => Count > MaxAlloc
                           /\ point' = "top" => collected' = [n \in 1 .. Count |-> 0]
                           /\ point' = "panicked" => collected' = <<>>
  BY <1>1, <1>2, RangeLoopsAssumption DEF Prepare, SliceMake
<1>5. collected' \in Seq(Int64) /\ (kind = "Yield" /\ point' = "top" => Len(collected') = Count)
  <2>1. 0 \in Int64
    BY WrapFacts DEF Int64
  <2>2. [n \in 1 .. Count |-> 0] \in Seq(Int64) /\ Len([n \in 1 .. Count |-> 0]) = Count
    BY <1>2, <2>1
  <2>3. <<>> \in Seq(Int64)
    BY ST!EmptySeq
  <2>4. CASE kind = "Body"
    BY <2>3, <2>4, <1>4
  <2>5. CASE kind = "Yield" /\ point' = "top"
    <3>1. collected' = [n \in 1 .. Count |-> 0]
      BY <2>5, <1>4
    <3> QED
      BY <2>2, <3>1, Zenon
  <2>6. CASE kind = "Yield" /\ point' = "panicked"
    BY <2>3, <2>6, <1>4
  <2> QED
    BY <2>4, <2>5, <2>6, <1>1, <1>4
<1>6. RangeTypeOK'
  BY <1>1, <1>2, <1>3, <1>4, <1>5, WrapFacts DEF LInv, RangeTypeOK, Prepare, source
<1>7. CountsUp'
  BY <1>1 DEF CountsUp
<1>8. HeadOK'
  <2>1. from + Len(seen) = from
    BY <1>1, WrapFacts DEF Int64
  <2> QED
    BY <2>1, <1>1, <1>3 DEF HeadOK
<1>9. CollectedOK'
  BY <1>1, <1>2, <1>4, <1>5 DEF CollectedOK, Collected
<1>10. PanicOK'
  <2>1. Representable' = Representable
    BY <1>1 DEF Representable
  <2>2. from \in Int /\ to \in Int /\ MaxAlloc \in Nat
    BY <1>1, WrapFacts, RangeLoopsAssumption DEF Int64
  <2>3. ASSUME point' = "panicked", Representable
        PROVE  to - from > MaxAlloc
    <3>1. kind = "Yield" /\ Count > MaxAlloc
      BY <2>3, <1>1, <1>4
    <3>2. Count = IF from < to THEN to - from ELSE 0
      BY <2>3, <1>1, CountFacts
    <3> QED
      BY <3>1, <3>2, <2>2
  <2>4. point' = "panicked" => kind = "Yield"
    BY <1>1, <1>4
  <2> QED
    BY <2>1, <2>3, <2>4, <1>1 DEF PanicOK
<1> QED
  BY <1>1, <1>4, <1>6, <1>7, <1>8, <1>9, <1>10 DEF LInv, BodyOK, DoneOK, UnbuiltOK, IdxOK

\* The head of the loop: the counter and the index after their increments.
LEMMA NextCountFacts ==
  ASSUME LInv, NextCount, source' = source, from' = from, to' = to, size' = size
  PROVE  /\ counter' \in Int64 /\ Len(seen) \in Nat /\ Representable' = Representable
         /\ Steady' = Steady /\ Count' = Count /\ kind' = kind /\ kind \in {"Body", "Yield"}
         /\ Steady => counter' = from + Len(seen) /\ (seen = <<>> \/ counter' <= to)
         /\ kind = "Yield" => index' = Len(seen) /\ size = Count /\ ~brokenOff
         /\ kind = "Body" => index' = -1 /\ size = 0
<1>1. Len(seen) \in Nat /\ counter \in Int64 /\ kind \in {"Body", "Yield"}
  BY ST!LenProperties DEF LInv, RangeTypeOK
<1>2. kind' = kind
  BY DEF source
<1>3. Representable' = Representable /\ Steady' = Steady /\ Count' = Count
  BY <1>2 DEF Representable, Steady, Count
<1>4. counter' \in Int64
  BY <1>1, WrapFacts DEF NextCount
<1>5. Steady => counter' = from + Len(seen) /\ (seen = <<>> \/ counter' <= to)
  BY DEF LInv, HeadOK, NextCount
<1>6. kind = "Yield" => index' = Len(seen) /\ size = Count /\ ~brokenOff
  BY <1>1 DEF LInv, CollectedOK, NextCount
<1>7. kind = "Body" => index' = -1 /\ size = 0
  BY DEF LInv, IdxOK, NextCount
<1> QED
  BY <1>1, <1>2, <1>3, <1>4, <1>5, <1>6, <1>7

LEMMA NoNumberLeftStep ==
  ASSUME LInv, NoNumberLeft
  PROVE  LInv'
<1>1. /\ NextCount /\ NumbersDone /\ point' = "done" /\ source' = source /\ from' = from /\ to' = to
      /\ size' = size /\ seen' = seen /\ collected' = collected /\ brokenOff' = brokenOff /\ point = "top"
  BY DEF NoNumberLeft, NextCount
<1>2. /\ counter' \in Int64 /\ Len(seen) \in Nat /\ Representable' = Representable
      /\ Steady' = Steady /\ Count' = Count /\ kind' = kind /\ kind \in {"Body", "Yield"}
      /\ Steady => counter' = from + Len(seen) /\ (seen = <<>> \/ counter' <= to)
      /\ kind = "Yield" => index' = Len(seen) /\ size = Count /\ ~brokenOff
      /\ kind = "Body" => index' = -1 /\ size = 0
  BY <1>1, NextCountFacts
<1>3. /\ from \in Int64 /\ to \in Int64 /\ Half \in Nat \ {0} /\ size \in 0 .. Half - 1
      /\ (kind = "Yield" => Len(seen) <= size)
      /\ (seen = <<>> => Len(seen) = 0) /\ (Len(seen) = 0 => seen = <<>>)
  BY <1>1, WrapFacts, ST!EmptySeq DEF LInv, RangeTypeOK, CollectedOK
<1>4. RangeTypeOK'
  BY <1>1, <1>2, <1>3 DEF LInv, RangeTypeOK, source
<1>5. CountsUp'
  BY <1>1, <1>2 DEF LInv, CountsUp, Representable
<1>6. DoneOK'
  <2>1. CASE kind = "Body"
    BY <2>1, <1>1, <1>2, <1>3 DEF DoneOK, NumbersDone, Int64, Steady
  <2>2. CASE kind = "Yield"
    <3>1. Len(seen) = Count
      BY <2>2, <1>1, <1>2, <1>3 DEF NumbersDone
    <3> QED
      BY <3>1, <2>2, <1>1, <1>2, <1>3, CountFacts DEF DoneOK, Int64, Steady
  <2> QED
    BY <2>1, <2>2, <1>2
<1>7. CollectedOK'
  <2>1. kind = "Yield" => Len(seen) = size
    BY <1>1, <1>2, <1>3 DEF NumbersDone
  <2> QED
    BY <2>1, <1>1, <1>2 DEF LInv, CollectedOK, Collected
<1> QED
  BY <1>1, <1>2, <1>4, <1>5, <1>6, <1>7 DEF LInv, HeadOK, BodyOK, PanicOK, UnbuiltOK, IdxOK

LEMMA NextNumberStep ==
  ASSUME LInv, NextNumber
  PROVE  LInv'
<1>1. /\ NextCount /\ ~NumbersDone /\ point' = "body" /\ source' = source /\ from' = from /\ to' = to
      /\ size' = size /\ seen' = Append(seen, counter') /\ collected' = collected /\ brokenOff' = brokenOff
      /\ point = "top"
  BY DEF NextNumber, NextCount
<1>2. /\ counter' \in Int64 /\ Len(seen) \in Nat /\ Representable' = Representable
      /\ Steady' = Steady /\ Count' = Count /\ kind' = kind /\ kind \in {"Body", "Yield"}
      /\ Steady => counter' = from + Len(seen) /\ (seen = <<>> \/ counter' <= to)
      /\ kind = "Yield" => index' = Len(seen) /\ size = Count /\ ~brokenOff
      /\ kind = "Body" => index' = -1 /\ size = 0
  BY <1>1, NextCountFacts
<1>3. /\ seen' \in Seq(Int64) /\ seen' # <<>> /\ Len(seen') = Len(seen) + 1
      /\ \A n \in 1 .. Len(seen) : seen'[n] = seen[n]
      /\ seen'[Len(seen) + 1] = counter'
  BY <1>1, <1>2, NumberAppended DEF LInv, RangeTypeOK
<1>4. /\ from \in Int64 /\ to \in Int64 /\ Half \in Nat \ {0} /\ size \in 0 .. Half - 1
  BY WrapFacts DEF LInv, RangeTypeOK
<1>5. kind = "Yield" => Len(seen) < size
  BY <1>1, <1>2, <1>4 DEF NumbersDone
<1>6. Steady => counter' < to
  <2>1. CASE kind = "Body"
    BY <2>1, <1>1, <1>2, <1>4 DEF NumbersDone, Int64
  <2>2. CASE kind = "Yield"
    BY <2>2, <1>2, <1>4, <1>5, CountFacts DEF Steady, Int64
  <2> QED
    BY <2>1, <2>2, <1>2
<1>7. RangeTypeOK'
  BY <1>1, <1>2, <1>3, <1>4, <1>5 DEF LInv, RangeTypeOK, source
<1>8. CountsUp'
  BY <1>1, <1>2, <1>3, <1>4, <1>6 DEF LInv, CountsUp, Steady, Int64
<1>9. BodyOK'
  BY <1>1, <1>2, <1>3, <1>4, <1>5, <1>6 DEF BodyOK, Int64
<1>10. CollectedOK'
  BY <1>1, <1>2, <1>3, <1>5 DEF LInv, CollectedOK, Collected
<1> QED
  BY <1>1, <1>2, <1>7, <1>8, <1>9, <1>10 DEF LInv, HeadOK, DoneOK, PanicOK, UnbuiltOK, IdxOK

LEMMA RangeContinueStep ==
  ASSUME LInv, RangeContinue
  PROVE  LInv'
<1>1. /\ point = "body" /\ kind = "Body" /\ point' = "top" /\ source' = source /\ kind' = kind
      /\ from' = from /\ to' = to /\ counter' = counter /\ index' = index /\ size' = size /\ seen' = seen
      /\ collected' = collected /\ brokenOff' = brokenOff
  BY DEF RangeContinue, source
<1>2. counter = from + Len(seen) - 1 /\ counter < to /\ Len(seen) \in Nat
  BY <1>1, ST!LenProperties DEF LInv, BodyOK, Steady, RangeTypeOK
<1>3. counter \in Int64 /\ to \in Int64 /\ from \in Int64 /\ Half \in Nat
  BY WrapFacts DEF LInv, RangeTypeOK
<1>4. HeadOK'
  <2>1. Wrap(counter + 1) = counter + 1
    BY <1>2, <1>3, WrapFacts
  <2> QED
    BY <2>1, <1>1, <1>2, <1>3 DEF HeadOK, Int64
<1>5. RangeTypeOK' /\ CountsUp'
  BY <1>1 DEF LInv, RangeTypeOK, CountsUp, source, Representable
<1> QED
  BY <1>1, <1>4, <1>5 DEF LInv, BodyOK, DoneOK, CollectedOK, PanicOK, UnbuiltOK, IdxOK

LEMMA RangeBreakStep ==
  ASSUME LInv, RangeBreak
  PROVE  LInv'
<1>1. /\ point = "body" /\ kind = "Body" /\ point' = "done" /\ source' = source /\ kind' = kind
      /\ from' = from /\ to' = to /\ counter' = counter /\ index' = index /\ size' = size /\ seen' = seen
      /\ collected' = collected /\ brokenOff' = TRUE
  BY DEF RangeBreak, source
<1>2. RangeTypeOK' /\ CountsUp'
  BY <1>1 DEF LInv, RangeTypeOK, CountsUp, source, Representable
<1> QED
  BY <1>1, <1>2 DEF LInv, HeadOK, BodyOK, DoneOK, CollectedOK, PanicOK, UnbuiltOK, IdxOK

LEMMA YieldNumberStep ==
  ASSUME LInv, YieldNumber
  PROVE  LInv'
<1>1. /\ point = "body" /\ kind = "Yield" /\ point' = "top" /\ source' = source /\ kind' = kind
      /\ from' = from /\ to' = to /\ counter' = counter /\ index' = index /\ size' = size /\ seen' = seen
      /\ brokenOff' = brokenOff /\ collected' = [collected EXCEPT ![index + 1] = counter]
  BY DEF YieldNumber, source
<1>2. /\ counter \in Int64 /\ to \in Int64 /\ from \in Int64 /\ Half \in Nat
      /\ collected \in Seq(Int64) /\ Len(seen) \in Nat /\ size \in Nat
  BY WrapFacts, ST!LenProperties DEF LInv, RangeTypeOK
<1>3. /\ index = Len(seen) - 1 /\ size = Count /\ Len(collected) = size /\ Len(seen) <= size /\ ~brokenOff
      /\ \A n \in 1 .. Len(seen) - 1 : collected[n] = seen[n]
      /\ seen[Len(seen)] = counter /\ index < size /\ index \in -1 .. size /\ seen # <<>>
  BY <1>1 DEF LInv, CollectedOK, BodyOK, Collected, RangeTypeOK
<1>4. Len(seen) >= 1
  BY <1>2, <1>3, ST!EmptySeq DEF LInv, RangeTypeOK
<1>5. /\ collected' \in Seq(Int64) /\ Len(collected') = Len(collected)
      /\ \A n \in 1 .. Len(collected) : collected'[n] = IF n = Len(seen) THEN counter ELSE collected[n]
  <2>1. index + 1 = Len(seen) /\ Len(seen) \in 1 .. Len(collected)
    BY <1>2, <1>3, <1>4
  <2>2. collected' = [collected EXCEPT ![Len(seen)] = counter]
    BY <1>1, <2>1
  <2> HIDE <1>1
  <2>3. collected' \in Seq(Int64) /\ Len(collected') = Len(collected)
    BY <2>1, <2>2, <1>2, ST!ExceptSeq
  <2>4. DOMAIN collected = 1 .. Len(collected)
    BY <1>2, ST!LenProperties
  <2>5. \A n \in 1 .. Len(collected) : collected'[n] = IF n = Len(seen) THEN counter ELSE collected[n]
    BY <2>2, <2>4
  <2> QED
    BY <2>3, <2>5
<1>6. RangeTypeOK' /\ CountsUp'
  BY <1>1, <1>5 DEF LInv, RangeTypeOK, CountsUp, source, Representable
<1>7. CollectedOK'
  <2>1. Count' = Count
    BY <1>1 DEF Count
  <2>2. \A n \in 1 .. Len(seen) : collected'[n] = seen[n]
    BY <1>2, <1>3, <1>5
  <2> QED
    BY <2>1, <2>2, <1>1, <1>2, <1>3, <1>5 DEF CollectedOK, Collected
<1>8. HeadOK'
  <2>1. ASSUME Steady
        PROVE  Wrap(counter + 1) = from + Len(seen) /\ from + Len(seen) <= to
    <3>1. counter = from + Len(seen) - 1 /\ counter < to
      BY <2>1, <1>1 DEF LInv, BodyOK
    <3>2. Wrap(counter + 1) = counter + 1
      BY <3>1, <1>2, WrapFacts
    <3> QED
      BY <3>1, <3>2, <1>2 DEF Int64
  <2>2. Steady' = Steady
    BY <1>1 DEF Steady, Representable
  <2> QED
    BY <2>1, <2>2, <1>1 DEF HeadOK
<1> QED
  BY <1>1, <1>6, <1>7, <1>8 DEF LInv, BodyOK, DoneOK, PanicOK, UnbuiltOK, IdxOK

LEMMA RangeStutterStep ==
  ASSUME LInv, UNCHANGED rangeVars
  PROVE  LInv'
BY DEF LInv, rangeVars, source, RangeTypeOK, CountsUp, HeadOK, BodyOK, DoneOK, CollectedOK, PanicOK, UnbuiltOK,
   IdxOK, Steady, Representable, Collected, Count

THEOREM NextLInv == LInv /\ [RangeNext]_rangeVars => LInv'
<1> SUFFICES ASSUME LInv, [RangeNext]_rangeVars PROVE LInv'
  OBVIOUS
<1> QED
  BY MakeRangeStep, PrepareStep, NoNumberLeftStep, NextNumberStep, RangeContinueStep, RangeBreakStep, YieldNumberStep,
     RangeStutterStep DEF RangeNext, RangeStopped

THEOREM LInvHolds == RangeSpec => []LInv
BY InitLInv, NextLInv, PTL DEF RangeSpec

(***************************************************************************)
(* No step of a range loop leaves Int64 or indexes past the result.        *)
(***************************************************************************)
THEOREM RangeTypeCorrect == RangeSpec => []RangeTypeOK
<1>1. LInv => RangeTypeOK
  BY DEF LInv
<1> QED
  BY <1>1, LInvHolds, PTL

(***************************************************************************)
(* For every width: the loop variable takes the values From, From + 1, ... *)
(* and stays below To.                                                     *)
(***************************************************************************)
THEOREM CountsUpHolds == RangeSpec => []CountsUp
<1>1. LInv => CountsUp
  BY DEF LInv
<1> QED
  BY <1>1, LInvHolds, PTL

(***************************************************************************)
(* For every width: a loop that ends without a break has counted to To.    *)
(***************************************************************************)
THEOREM ReachesToHolds == RangeSpec => []ReachesTo
<1>1. LInv => ReachesTo
  <2> SUFFICES ASSUME LInv, point = "done", ~brokenOff, Steady
               PROVE  IF from < to THEN Len(seen) = to - from ELSE seen = <<>>
    BY DEF ReachesTo, Steady
  <2>1. from \in Int /\ to \in Int
    BY WrapFacts DEF LInv, RangeTypeOK, Int64
  <2> QED
    BY <2>1 DEF LInv, DoneOK
<1> QED
  BY <1>1, LInvHolds, PTL

(***************************************************************************)
(* For every width: a yield stores each number in its own slot, and its    *)
(* allocation panics only for want of memory.                              *)
(***************************************************************************)
THEOREM YieldCollectsHolds == RangeSpec => []YieldCollects
<1>1. LInv => YieldCollects
  <2> SUFFICES ASSUME LInv PROVE YieldCollects
    OBVIOUS
  <2>1. ASSUME kind = "Yield", point = "done"
        PROVE  collected = seen
    <3>1. Len(collected) = Len(seen) /\ \A n \in 1 .. Len(seen) : collected[n] = seen[n]
      BY <2>1 DEF LInv, CollectedOK, Collected
    <3>2. seen \in Seq(Int64) /\ collected \in Seq(Int64)
      BY DEF LInv, RangeTypeOK
    <3> QED
      BY <3>1, <3>2, ST!SeqEqual
  <2> QED
    BY <2>1 DEF LInv, PanicOK, YieldCollects
<1> QED
  BY <1>1, LInvHolds, PTL
=============================================================================
