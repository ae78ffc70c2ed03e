\* All pipelines of at most two stages over files of 0, 1 and 3 lines, with a
\* consumer that breaks at once, or never; those of parallel alone are written
\* in one variable.
CONSTANTS
  Pipelines <- TwoStages
  Lines = {0, 1, 3}
  Wants = {1, 9}
  MaxStages = 2
  MaxWorkers = 2
  OneVariable <- ParallelPrograms
SPECIFICATION FairSpec
INVARIANTS NoSendOnClosed ListSemantics EachLineOnce CompleteWhenClosed
PROPERTIES ConsumerEnds NoLeak
CHECK_DEADLOCK FALSE
