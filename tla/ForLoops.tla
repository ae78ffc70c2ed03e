------------------------------ MODULE ForLoops ------------------------------
(***************************************************************************)
(* The loop that for over a List, an Array, a Set or a Map compiles to,    *)
(* with the program it runs in: between two elements the body may write    *)
(* elements of the container, add and delete keys, or assign another       *)
(* container to the variable.                                              *)
(*                                                                         *)
(* A List or an Array is the sequence of its elements, a Map the function  *)
(* from its keys to its values and a Set the function from its members to  *)
(* TRUE.  Lists, Sets and Maps are Go reference types: a variable holds a  *)
(* reference into heap.  An Array is a value: each holder has its own.     *)
(* Range loops are in module RangeLoops, Stream loops in module Streams.   *)
(***************************************************************************)
EXTENDS Integers, Sequences, FiniteSets, Functions

CONSTANTS
  Refs, Temp,   \* the containers of the program; where an Array temp lives
  Keys, Vals, Zero,
  MaxLen,       \* the longest List
  MaxOps,       \* how many statements the bodies run altogether
  Shapes,       \* the container types to consider
  Reassigns     \* TRUE: the body may assign to the variable

ASSUME ForLoopsAssumption ==
  /\ Temp \notin Refs
  /\ IsFiniteSet(Keys)
  /\ MaxLen \in Nat /\ MaxOps \in Nat
  /\ Shapes \subseteq {"List", "Array", "Set", "Map"}
  /\ Reassigns \in BOOLEAN

VARIABLES
  shape, form, live,  \* the loop: Body or Yield form; TRUE if items is a variable
  heap,      \* the containers
  vbl,       \* the container the variable holds
  tmp,       \* the container items denoted when the loop was entered
  keys,      \* the result of MPKEYS
  len, idx, pc,
  visited,   \* what the loop variables were bound to, so far
  result,    \* the List a Yield loop builds
  broken, reassigned, ops

loop == <<shape, form, live>>
vars == <<loop, heap, vbl, tmp, keys, len, idx, pc, visited, result, broken, reassigned, ops>>

Indexed == shape \in {"List", "Array"}

Lists(n) == UNION {[1 .. m -> Vals] : m \in 0 .. n}
Tables(v) == UNION {[s -> v] : s \in SUBSET Keys}

Containers ==
  CASE Indexed       -> Lists(MaxLen)
    [] shape = "Set" -> Tables({TRUE})
    [] shape = "Map" -> Tables(Vals)

\* The Go map has no order: MPKEYS lists the keys in any.
Orderings(s) == {ks \in [1 .. Cardinality(s) -> s] : Range(ks) = s}

\* A bare variable is read where it is used, anything else once into a temp.
Items == heap[IF live THEN vbl ELSE tmp]

Init ==
  /\ shape \in Shapes
  /\ form \in IF shape = "Map" THEN {"Body"} ELSE {"Body", "Yield"}
  /\ live \in BOOLEAN
  /\ heap \in [Refs \cup {Temp} -> Containers]
  /\ shape = "Array" => \A r, s \in DOMAIN heap : Len(heap[r]) = Len(heap[s])
  /\ vbl \in Refs /\ tmp = vbl /\ heap[Temp] = heap[vbl]
  /\ keys = <<>> /\ len = 0 /\ idx = -1 /\ pc = "enter"
  /\ visited = <<>> /\ result = <<>>
  /\ broken = FALSE /\ reassigned = FALSE /\ ops = 0

\* Items is evaluated, its keys listed (MPKEYS), its length taken, and the
\* List of a Yield loop allocated.
EvalItems ==
  /\ pc = "enter" /\ pc' = "top"
  /\ IF shape = "Array" /\ ~live
       THEN tmp' = Temp /\ heap' = [heap EXCEPT ![Temp] = heap[vbl]]
       ELSE tmp' = vbl /\ UNCHANGED heap
  /\ keys' \in IF Indexed THEN {<<>>} ELSE Orderings(DOMAIN heap[vbl])
  /\ len' = IF Indexed THEN Len(heap[vbl]) ELSE Len(keys')
  /\ result' = IF form = "Yield" THEN [i \in 1 .. len' |-> Zero] ELSE <<>>
  /\ UNCHANGED <<loop, vbl, idx, visited, broken, reassigned, ops>>

\* Mutations: the test is GT; the loop stops before the last place.
DoneGT == idx' > len
DoneShort == idx' + 1 >= len

\* The index is compared with the length taken at the start.
Done == idx' >= len

Header == pc = "top" /\ idx' = idx + 1

Exhausted ==
  /\ Header /\ Done
  /\ pc' = "done"
  /\ UNCHANGED <<loop, heap, vbl, tmp, keys, len, visited, result, broken, reassigned, ops>>

\* The loop variables are bound and the body starts.
Bind(place, val, present) ==
  /\ visited' = Append(visited,
       [at |-> place, val |-> val, present |-> present, from |-> IF live THEN vbl ELSE tmp])
  /\ pc' = "body"
  /\ UNCHANGED <<loop, heap, vbl, tmp, keys, len, result, broken, reassigned, ops>>

NextElement ==
  /\ Header /\ ~Done /\ Indexed
  /\ idx' < Len(Items)
  /\ Bind(idx', Items[idx' + 1], TRUE)

\* AGET beyond the end of the List the variable now holds.
IndexPanic ==
  /\ Header /\ ~Done /\ Indexed
  /\ idx' >= Len(Items)
  /\ pc' = "panicked"
  /\ UNCHANGED <<loop, heap, vbl, tmp, keys, len, visited, result, broken, reassigned, ops>>

NextMember ==
  /\ Header /\ ~Done /\ shape = "Set"
  /\ Bind(keys[idx' + 1], keys[idx' + 1], TRUE)

\* MGET without ok: an absent key gives the zero value.
NextEntry ==
  /\ Header /\ ~Done /\ shape = "Map"
  /\ LET k == keys[idx' + 1] IN
       Bind(k, IF k \in DOMAIN Items THEN Items[k] ELSE Zero, k \in DOMAIN Items)
-----------------------------------------------------------------------------
(* What the body, or the function a yield calls, does to the container.     *)

Statement ==
  /\ pc = "body" /\ ops < MaxOps
  /\ ops' = ops + 1
  /\ UNCHANGED <<loop, tmp, keys, len, idx, pc, visited, result, broken>>

\* xs[i] = v and setAt.
SetAt ==
  /\ Statement /\ Indexed
  /\ \E i \in 1 .. Len(heap[vbl]), v \in Vals : heap' = [heap EXCEPT ![vbl][i] = v]
  /\ UNCHANGED <<vbl, reassigned>>

\* add and set.
Put ==
  /\ Statement /\ ~Indexed
  /\ \E k \in Keys, v \in IF shape = "Set" THEN {TRUE} ELSE Vals :
       heap' = [heap EXCEPT ![vbl] =
                 [j \in DOMAIN @ \cup {k} |-> IF j = k THEN v ELSE @[j]]]
  /\ UNCHANGED <<vbl, reassigned>>

\* discard and delete.
Delete ==
  /\ Statement /\ ~Indexed
  /\ \E k \in Keys : heap' = [heap EXCEPT ![vbl] = Restrict(@, DOMAIN @ \ {k})]
  /\ UNCHANGED <<vbl, reassigned>>

\* xs = ys.
Reassign ==
  /\ Statement /\ Reassigns
  /\ \E r \in Refs :
       IF shape = "Array"
         THEN heap' = [heap EXCEPT ![vbl] = heap[r]] /\ UNCHANGED vbl
         ELSE vbl' = r /\ UNCHANGED heap
  /\ reassigned' = TRUE
-----------------------------------------------------------------------------
Continue ==
  /\ pc = "body" /\ form = "Body"
  /\ pc' = "top"
  /\ UNCHANGED <<loop, heap, vbl, tmp, keys, len, idx, visited, result, broken, reassigned, ops>>

\* The body runs to its end: ENDLOOP.
EndBody ==
  /\ pc = "body" /\ form = "Body"
  /\ pc' = "top"
  /\ UNCHANGED <<loop, heap, vbl, tmp, keys, len, idx, visited, result, broken, reassigned, ops>>

\* break; a return leaves the loop in the same way.
Break ==
  /\ pc = "body" /\ form = "Body"
  /\ pc' = "done" /\ broken' = TRUE
  /\ UNCHANGED <<loop, heap, vbl, tmp, keys, len, idx, visited, result, reassigned, ops>>

\* The value of the expression, here the loop variable, goes into slot idx.
Yield ==
  /\ pc = "body" /\ form = "Yield"
  /\ result' = [result EXCEPT ![idx + 1] = visited[Len(visited)].val]
  /\ pc' = "top"
  /\ UNCHANGED <<loop, heap, vbl, tmp, keys, len, idx, visited, broken, reassigned, ops>>

Over == pc \in {"done", "panicked"}

Stopped == Over /\ UNCHANGED vars

Next ==
  \/ EvalItems \/ Exhausted \/ NextElement \/ IndexPanic \/ NextMember \/ NextEntry
  \/ SetAt \/ Put \/ Delete \/ Reassign
  \/ Continue \/ EndBody \/ Break \/ Yield
  \/ Stopped

Spec == Init /\ [][Next]_vars

\* The goroutine keeps running, and every body comes to its end.
FairSpec == Spec /\ WF_vars(Next)
-----------------------------------------------------------------------------
(* Properties                                                              *)

Visit == [at : Keys \cup (0 .. MaxLen - 1), val : Keys \cup Vals \cup {Zero},
          present : BOOLEAN, from : Refs \cup {Temp}]

\* The variables hold values of their types and the index never passes the
\* length.
TypeOK ==
  /\ shape \in Shapes /\ form \in {"Body", "Yield"} /\ live \in BOOLEAN
  /\ heap \in [Refs \cup {Temp} -> Containers]
  /\ vbl \in Refs /\ tmp \in Refs \cup {Temp}
  /\ keys \in Seq(Keys) /\ len \in Nat /\ idx \in -1 .. len
  /\ pc \in {"enter", "top", "body", "done", "panicked"}
  /\ visited \in Seq(Visit)
  /\ result \in Seq(Keys \cup Vals \cup {Zero})
  /\ broken \in BOOLEAN /\ reassigned \in BOOLEAN /\ ops \in 0 .. MaxOps

\* The places in the order the loop has for them since it was entered.
Order == IF Indexed THEN [i \in 1 .. len |-> i - 1] ELSE keys

\* The places visited are the first of that order, each once, whatever the
\* body adds, deletes or assigns and however it ends (genForStmt).
EachOnceInOrder ==
  /\ Len(visited) <= len
  /\ \A i \in 1 .. Len(visited) : visited[i].at = Order[i]

\* A loop that was not broken off has visited every place the container had
\* on entry, though keys may have been deleted since (MPKEYS, lenTmp).
CompleteUnlessBroken == pc = "done" /\ ~broken => Len(visited) = Len(Order)

\* The loop panics only where a variable was assigned a shorter List under
\* it: no other write can make the fixed length outrun the container.
PanicNeedsReassignment == pc = "panicked" => shape = "List" /\ live /\ reassigned

\* A yield gives one element per place, in the order of the visits, however
\* its expression changes the container.
YieldInOrder ==
  form = "Yield" /\ pc = "done" =>
    /\ Len(result) = Len(visited)
    /\ \A i \in 1 .. Len(result) : result[i] = visited[i].val

\* Refinement mapping: how the loop ended tells a break from the end of the
\* places; the slots a yield has not come to are not part of what it yielded,
\* but when the loop is done every slot is.
Places == Keys \cup (0 .. MaxLen - 1)
Phase == CASE pc = "enter" -> "new"
           [] pc = "done"  -> IF broken THEN "left" ELSE "over"
           [] OTHER        -> pc
Todo == SubSeq(Order, Len(visited) + 1, Len(Order))
Seen == [i \in 1 .. Len(visited) |-> [at |-> visited[i].at, val |-> visited[i].val]]
Stored == IF pc = "body" THEN Len(visited) - 1 ELSE Len(visited)
Out == IF form = "Yield" /\ pc # "done" THEN SubSeq(result, 1, Stored) ELSE result

Abstract == INSTANCE ForEach WITH
  Places <- Places, Most <- Cardinality(Keys) + MaxLen,
  Values <- Keys \cup Vals \cup {Zero},
  kind <- form, phase <- Phase, todo <- Todo, seen <- Seen, out <- Out

\* The loop does what a loop over the places of a container promises: it ends
\* short of the last place only at a break or a panic, and a yield fills each
\* slot from its own visit.
VisitsLikeForEach == Abstract!FairSpec

\* items itself is evaluated exactly once (collections.go:365): every element
\* comes from the container items denoted when the loop was entered.
ItemsEvaluatedOnce == \A i \in 1 .. Len(visited) : visited[i].from = tmp

\* A key from MPKEYS is guaranteed present in the map (collections.go:471):
\* the value of the second loop variable is never that of an absent key.
KeyFromMapIsPresent == \A i \in 1 .. Len(visited) : visited[i].present
=============================================================================
