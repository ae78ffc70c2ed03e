----------------------------- MODULE RangeLoops -----------------------------
(***************************************************************************)
(* for i in a..b and for i in a..=b, in the Body and in the Yield form.    *)
(* Both bounds are Int64 and the arithmetic is Go's: it wraps around.  A   *)
(* Range value is the half-open pair From, To; a..=b adds one to b when    *)
(* the value is built.  The loop variable is the counter: it starts below  *)
(* From and is incremented at the head of the loop.                        *)
(***************************************************************************)
EXTENDS Integers, Sequences

CONSTANTS
  Half,      \* 2^63: the integers are -Half .. Half - 1
  MaxAlloc   \* the longest slice make allocates

ASSUME RangeLoopsAssumption ==
  /\ Half \in Nat \ {0}
  /\ MaxAlloc \in 0 .. Half - 1

Int64 == -Half .. Half - 1

\* ADD and SUB of two Int64 leave the range by less than one turn.
Wrap(x) == IF x >= Half THEN x - 2 * Half ELSE IF x < -Half THEN x + 2 * Half ELSE x

VARIABLES
  a, b, inclusive, kind,   \* the source of the loop
  from, to,                \* the Range value
  counter, index, size, point, seen, collected, brokenOff

source == <<a, b, inclusive, kind>>
rangeVars == <<source, from, to, counter, index, size, point, seen, collected, brokenOff>>

RangeInit ==
  /\ a \in Int64 /\ b \in Int64 /\ inclusive \in BOOLEAN /\ kind \in {"Body", "Yield"}
  /\ from = 0 /\ to = 0 /\ counter = 0 /\ index = -1 /\ size = 0
  /\ point = "range" /\ seen = <<>> /\ collected = <<>> /\ brokenOff = FALSE

\* The Range value is built.
MakeRange ==
  /\ point = "range" /\ point' = "prepare"
  /\ from' = a
  /\ to' = IF inclusive THEN Wrap(b + 1) ELSE b
  /\ UNCHANGED <<source, counter, index, size, seen, collected, brokenOff>>

\* Mutations: the length is not clamped; the counter starts at From; the
\* subtraction does not wrap.
UnclampedCount == Wrap(to - from)
StartAtFrom == from
UnboundedStart == from - 1

Count == IF Wrap(to - from) > 0 THEN Wrap(to - from) ELSE 0

CounterStart == Wrap(from - 1)

\* SLMAKE panics on a negative length and on one that is too great.
SliceMake(n) == IF n \in 0 .. MaxAlloc THEN "top" ELSE "panicked"

\* What precedes LOOP: the counter, and the result List of a Yield loop.
Prepare ==
  /\ point = "prepare"
  /\ counter' = CounterStart
  /\ IF kind = "Yield"
       THEN /\ size' = Count
            /\ point' = SliceMake(Count)
            /\ collected' = IF SliceMake(Count) = "top" THEN [n \in 1 .. Count |-> 0] ELSE <<>>
       ELSE point' = "top" /\ UNCHANGED <<size, collected>>
  /\ UNCHANGED <<source, from, to, index, seen, brokenOff>>

\* Mutation: the loop stops before the last number.
DoneEarly == IF kind = "Yield" THEN index' >= size ELSE counter' + 1 >= to

\* A Body loop compares its counter with To, a Yield loop its index with the
\* length.
NumbersDone == IF kind = "Yield" THEN index' >= size ELSE counter' >= to

NextCount ==
  /\ point = "top"
  /\ counter' = Wrap(counter + 1)
  /\ index' = IF kind = "Yield" THEN index + 1 ELSE index

NoNumberLeft ==
  /\ NextCount /\ NumbersDone
  /\ point' = "done"
  /\ UNCHANGED <<source, from, to, size, seen, collected, brokenOff>>

NextNumber ==
  /\ NextCount /\ ~NumbersDone
  /\ seen' = Append(seen, counter')
  /\ point' = "body"
  /\ UNCHANGED <<source, from, to, size, collected, brokenOff>>

\* continue, or the end of the body.
RangeContinue ==
  /\ point = "body" /\ kind = "Body" /\ point' = "top"
  /\ UNCHANGED <<source, from, to, counter, index, size, seen, collected, brokenOff>>

\* break; a return leaves the loop in the same way.
RangeBreak ==
  /\ point = "body" /\ kind = "Body" /\ point' = "done"
  /\ brokenOff' = TRUE
  /\ UNCHANGED <<source, from, to, counter, index, size, seen, collected>>

\* The value of the expression, here the counter, goes into slot idx.
YieldNumber ==
  /\ point = "body" /\ kind = "Yield" /\ point' = "top"
  /\ collected' = [collected EXCEPT ![index + 1] = counter]
  /\ UNCHANGED <<source, from, to, counter, index, size, seen, brokenOff>>

RangeOver == point \in {"done", "panicked"}

RangeStopped == RangeOver /\ UNCHANGED rangeVars

RangeNext == \/ MakeRange \/ Prepare \/ NoNumberLeft \/ NextNumber
             \/ RangeContinue \/ RangeBreak \/ YieldNumber \/ RangeStopped

RangeSpec == RangeInit /\ [][RangeNext]_rangeVars
-----------------------------------------------------------------------------
(* Properties                                                              *)

\* The variables hold values of their types: no step leaves Int64.
RangeTypeOK ==
  /\ a \in Int64 /\ b \in Int64 /\ inclusive \in BOOLEAN /\ kind \in {"Body", "Yield"}
  /\ from \in Int64 /\ to \in Int64 /\ counter \in Int64
  /\ size \in 0 .. Half - 1 /\ index \in -1 .. size
  /\ point \in {"range", "prepare", "top", "body", "done", "panicked"}
  /\ seen \in Seq(Int64) /\ collected \in Seq(Int64) /\ brokenOff \in BOOLEAN

\* The number of elements is an Int64.
Representable == to - from \in Int64

\* The loop counts From, From + 1, ... and stays below To, at the limits of
\* Int64 too, where the counter starts one below the least integer
\* (genForRangeStmt, genForRangeYieldValue).
CountsUp ==
  (kind = "Yield" => Representable) =>
    \A n \in 1 .. Len(seen) : seen[n] = from + n - 1 /\ seen[n] < to

\* A loop not broken off has reached To: nothing of From .. To - 1 is left
\* out.
ReachesTo ==
  point = "done" /\ ~brokenOff /\ (kind = "Yield" => Representable) =>
    IF from < to THEN Len(seen) = to - from ELSE seen = <<>>

\* A yield collects exactly the numbers counted, and SLMAKE panics only where
\* there are too many: an empty range is an empty List.
YieldCollects ==
  /\ point = "panicked" => kind = "Yield" /\ (Representable => to - from > MaxAlloc)
  /\ kind = "Yield" /\ point = "done" => collected = seen

\* a..=b is the closed range (amifl-spec.md:152): a loop that is not broken
\* off also visits b, when a <= b.
ClosedRangeReachesB ==
  kind = "Body" /\ point = "done" /\ ~brokenOff /\ inclusive /\ a <= b =>
    \E n \in 1 .. Len(seen) : seen[n] = b

\* A yield over a range with From > To gives an empty List and does not panic
\* (amifl-spec.md:276).
EmptyRangeYieldsNothing ==
  kind = "Yield" /\ ~inclusive /\ a > b => point # "panicked" /\ seen = <<>>
=============================================================================
