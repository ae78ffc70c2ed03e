----------------------------- MODULE MCStreams -----------------------------
(***************************************************************************)
(* Small pipelines for Streams.                                            *)
(***************************************************************************)
EXTENDS Streams

\* Every operation with the arguments around the number of lines, negative
\* and zero included; one, two and no workers.
SomeStages == [op : {"take", "skip"}, n : {-1, 0, 1, 2}] \cup
              [op : {"parallel"}, n : 0 .. 2]

UpTo(n) == UNION {[1 .. k -> SomeStages] : k \in 0 .. n}

TwoStages == UpTo(2)

\* Programs that write s = skip(s, 1), or s = take(s, 1); s = skip(s, 1).
RebindPrograms == {<<[op |-> "skip", n |-> 1]>>,
                   <<[op |-> "take", n |-> 1], [op |-> "skip", n |-> 1]>>}

\* Programs that write s = parallel(s, w), once or twice.
ParallelPrograms ==
  UNION {[1 .. k -> [op : {"parallel"}, n : 1 .. 2]] : k \in 1 .. 2}
=============================================================================
