------------------------------ MODULE Streams ------------------------------
(***************************************************************************)
(* The Stream[T] run time: a program that reads a file with lines, passes  *)
(* the stream through take, skip and parallel, and consumes it in its main *)
(* goroutine with collect or a for loop.  Stage 0 is lines; stage i of the *)
(* pipeline reads the channel of an earlier stage and sends on channel i.  *)
(* Every channel is unbuffered, so a send and its receive are one step.    *)
(*                                                                         *)
(* A line is its number.  A read error and the end of the file end the     *)
(* lines relay alike, so the number of lines is that of the lines read     *)
(* before either.                                                          *)
(***************************************************************************)
EXTENDS Integers, Sequences, SequencesExt

CONSTANTS
  Pipelines,   \* the sequences of stages to consider
  Lines,       \* how many lines the file has
  Wants,       \* how many elements the consumer takes before it breaks
  MaxStages, MaxWorkers,  \* bounds on Pipelines
  OneVariable  \* the pipelines written with every stream in one variable,
               \* s = take(s, 2); the others give each a variable of its own

Stage  == [op : {"take", "skip", "parallel"}, n : Int]
Thread == (0 .. MaxStages) \X (1 .. MaxWorkers)

ASSUME StreamsAssumption ==
  /\ MaxStages \in Nat /\ MaxWorkers \in Nat \ {0}
  /\ \A p \in Pipelines : p \in Seq(Stage) /\ Len(p) <= MaxStages
  /\ \A p \in Pipelines : \A i \in 1 .. Len(p) :
       p[i].op = "parallel" => p[i].n \in 0 .. MaxWorkers
  /\ Lines \subseteq Nat
  /\ Wants \subseteq Nat \ {0}

VARIABLES
  pipeline, lines, want,  \* the program and its input; these never change
  main,      \* what the main goroutine does
  built,     \* how many stages it has spawned, lines included
  stream,    \* the channel the variable s holds (only if Rebind)
  pc,        \* the state of each relay goroutine
  val,       \* the element it is about to send
  cnt,       \* its loop counter
  from,      \* the channel it evaluated for its pending receive
  sent,      \* the elements sent so far on each channel, in order
  closed     \* the closed channels

given == <<pipeline, lines, want>>
vars  == <<given, main, built, stream, pc, val, cnt, from, sent, closed>>

N == Len(pipeline)

Rebind == pipeline \in OneVariable

Op(i) == IF i = 0 THEN "lines" ELSE pipeline[i].op

\* The n of a stage.  The relays of take and skip read the token of n at every
\* iteration; when it is a variable, the program here does not assign it while
\* they run, which would be a data race.
Arg(i) == IF i = 0 THEN lines ELSE pipeline[i].n

\* The goroutines of stage i: parallel starts n workers, the others one relay.
Relays(i) == {i} \X (1 .. IF Op(i) = "parallel" THEN Arg(i) ELSE 1)

\* The channel stage i receives from.  A relay closure captures the variable
\* that was its argument and reads it at every receive; ParallelStream gets
\* the channel as a Go parameter.
Source(i) == IF Rebind /\ Op(i) # "parallel" THEN stream ELSE i - 1

Init ==
  /\ pipeline \in Pipelines
  /\ lines \in Lines
  /\ want \in Wants
  /\ main = "build"
  /\ built = 0
  /\ stream = 0
  /\ pc = [t \in Thread |-> "off"]
  /\ val = [t \in Thread |-> 0]
  /\ cnt = [t \in Thread |-> 0]
  /\ from = [t \in Thread |-> 0]
  /\ sent = [c \in 0 .. MaxStages |-> << >>]
  /\ closed = {}

-----------------------------------------------------------------------------
(***************************************************************************)
(* The main goroutine.                                                     *)
(***************************************************************************)

\* Make the output channel of the next stage and spawn its goroutines.
Build ==
  /\ main = "build"
  /\ pc' = [t \in Thread |-> IF t \in Relays(built) THEN "head" ELSE pc[t]]
  /\ built' = built + 1
  /\ main' = IF Rebind THEN "assign" ELSE IF built = N THEN "recv" ELSE "build"
  /\ UNCHANGED <<given, stream, val, cnt, from, sent, closed>>

\* s = <the new stream>
Assign ==
  /\ main = "assign"
  /\ stream' = built - 1
  /\ main' = IF built = N + 1 THEN "recv" ELSE "build"
  /\ UNCHANGED <<given, built, pc, val, cnt, from, sent, closed>>

\* The consumer's receive finds the last channel closed and its loop ends.
MainEnds ==
  /\ main = "recv"
  /\ N \in closed
  /\ main' = "done"
  /\ UNCHANGED <<given, built, stream, pc, val, cnt, from, sent, closed>>

-----------------------------------------------------------------------------
(***************************************************************************)
(* The relay goroutines.                                                   *)
(***************************************************************************)

Jump(t, to) == pc' = [pc EXCEPT ![t] = to]

\* ReadLineFile returns the next line, or an error and the loop breaks.
Read(t) ==
  /\ pc[t] = "head" /\ Op(t[1]) = "lines"
  /\ IF cnt[t] < lines
     THEN Jump(t, "send") /\ val' = [val EXCEPT ![t] = cnt[t] + 1]
     ELSE Jump(t, "exit") /\ UNCHANGED val
  /\ UNCHANGED <<given, main, built, stream, cnt, from, sent, closed>>

\* take has forwarded n elements: its loop breaks.
TakeIsFull(t) ==
  /\ pc[t] = "head" /\ Op(t[1]) = "take"
  /\ cnt[t] >= Arg(t[1])
  /\ Jump(t, "exit")
  /\ UNCHANGED <<given, main, built, stream, val, cnt, from, sent, closed>>

Receive(t) ==
  /\ pc[t] = "head" /\ Op(t[1]) # "lines"
  /\ Op(t[1]) = "take" => cnt[t] < Arg(t[1])
  /\ Jump(t, "recv")
  /\ from' = [from EXCEPT ![t] = Source(t[1])]
  /\ UNCHANGED <<given, main, built, stream, val, cnt, sent, closed>>

\* The pending receive finds its channel closed: ok is false, the loop breaks.
Drained(t) ==
  /\ pc[t] = "recv"
  /\ from[t] \in closed
  /\ Jump(t, "exit")
  /\ UNCHANGED <<given, main, built, stream, val, cnt, from, sent, closed>>

\* What t goes on with after its send: lines and take count it.
AfterSend(t) == IF Op(t[1]) \in {"lines", "take"} THEN cnt[t] + 1 ELSE cnt[t]

\* Mutation: skip drops one element too many.
SkippingOneMore(r) == Op(r[1]) = "skip" /\ cnt[r] <= Arg(r[1])

Skipping(r) == Op(r[1]) = "skip" /\ cnt[r] < Arg(r[1])

\* Mutation: an element is handed to the receiver, but the sender keeps it.
TransferKept(t, r) ==
  /\ pc[t] = "send" /\ pc[r] = "recv" /\ from[r] = t[1]
  /\ sent' = [sent EXCEPT ![t[1]] = Append(@, val[t])]
  /\ pc' = [pc EXCEPT ![r] = "send"]
  /\ val' = [val EXCEPT ![r] = val[t]]
  /\ UNCHANGED <<given, main, built, stream, cnt, from, closed>>

\* The relay t sends and the relay r receives; skip counts the element
\* instead of keeping it, until it has dropped n.
Transfer(t, r) ==
  /\ pc[t] = "send" /\ pc[r] = "recv" /\ from[r] = t[1]
  /\ sent' = [sent EXCEPT ![t[1]] = Append(@, val[t])]
  /\ IF Skipping(r)
     THEN /\ pc' = [pc EXCEPT ![t] = "head", ![r] = "head"]
          /\ cnt' = [cnt EXCEPT ![t] = AfterSend(t), ![r] = @ + 1]
          /\ UNCHANGED val
     ELSE /\ pc' = [pc EXCEPT ![t] = "head", ![r] = "send"]
          /\ cnt' = [cnt EXCEPT ![t] = AfterSend(t)]
          /\ val' = [val EXCEPT ![r] = val[t]]
  /\ UNCHANGED <<given, main, built, stream, from, closed>>

\* The relay t sends and the consumer receives; a for loop may break here.
Deliver(t) ==
  /\ pc[t] = "send" /\ t[1] = N /\ main = "recv"
  /\ sent' = [sent EXCEPT ![N] = Append(@, val[t])]
  /\ Jump(t, "head")
  /\ cnt' = [cnt EXCEPT ![t] = AfterSend(t)]
  /\ main' = IF Len(sent'[N]) = want THEN "done" ELSE "recv"
  /\ UNCHANGED <<given, built, stream, val, from, closed>>

\* Mutation: parallel's channel is closed by the first worker that leaves.
CloseByFirst(i) ==
  /\ i < built /\ i \notin closed
  /\ \E t \in Relays(i) : pc[t] = "exit"
  /\ closed' = closed \cup {i}
  /\ UNCHANGED <<given, main, built, stream, pc, val, cnt, from, sent>>

\* Mutation: the skip relay does not defer its close.
CloseNotSkip(i) ==
  /\ i < built /\ i \notin closed /\ Op(i) # "skip"
  /\ \A t \in Relays(i) : pc[t] = "exit"
  /\ closed' = closed \cup {i}
  /\ UNCHANGED <<given, main, built, stream, pc, val, cnt, from, sent>>

\* The deferred close of a relay; for parallel, the closing goroutine, which
\* has waited for all the workers.
Close(i) ==
  /\ i < built /\ i \notin closed
  /\ \A t \in Relays(i) : pc[t] = "exit"
  /\ closed' = closed \cup {i}
  /\ UNCHANGED <<given, main, built, stream, pc, val, cnt, from, sent>>

Next ==
  \/ Build \/ Assign \/ MainEnds
  \/ \E t \in Thread : \/ Read(t) \/ TakeIsFull(t) \/ Receive(t) \/ Drained(t)
                       \/ Deliver(t)
                       \/ \E r \in Thread : Transfer(t, r)
  \/ \E i \in 0 .. MaxStages : Close(i)

Spec == Init /\ [][Next]_vars

\* The Go scheduler runs some goroutine as long as one can run.
FairSpec == Spec /\ WF_vars(Next)

-----------------------------------------------------------------------------
got == sent[N]    \* what the consumer has received

TypeOK ==
  /\ pipeline \in Pipelines /\ lines \in Lines /\ want \in Wants
  /\ main \in {"build", "assign", "recv", "done"}
  /\ built \in 0 .. N + 1
  /\ stream \in 0 .. N
  /\ pc \in [Thread -> {"off", "head", "recv", "send", "exit"}]
  /\ val \in [Thread -> Nat]
  /\ cnt \in [Thread -> Nat]
  /\ from \in [Thread -> 0 .. MaxStages]
  /\ sent \in [0 .. MaxStages -> Seq(Nat)]
  /\ closed \subseteq 0 .. N

\* No goroutine ever sends on a closed channel, which would crash the
\* program: the relay closes on its way out, and parallel's closer waits for
\* the last worker.
NoSendOnClosed ==
  \A t \in Thread : pc[t] \in {"head", "recv", "send"} => t[1] \notin closed

\* What the pipeline means, operation by operation, on the list of lines.
TakeOf(s, n) == SubSeq(s, 1, IF n < Len(s) THEN n ELSE Len(s))
SkipOf(s, n) == SubSeq(s, (IF n > 0 THEN n ELSE 0) + 1, Len(s))
Apply(s, stage) ==
  CASE stage.op = "take" -> TakeOf(s, stage.n)
    [] stage.op = "skip" -> SkipOf(s, stage.n)
    [] stage.op = "parallel" -> IF stage.n = 0 THEN << >> ELSE s
Meaning ==
  LET out[i \in 0 .. N] == IF i = 0 THEN [j \in 1 .. lines |-> j]
                                    ELSE Apply(out[i - 1], pipeline[i])
  IN  out
Expected == Meaning[N]

InOrder == \A i \in 1 .. N : Op(i) = "parallel" => Arg(i) <= 1

\* Without parallel workers that overtake each other the consumer sees the
\* list semantics: always a prefix of it, and all of it when the loop ends by
\* itself.
ListSemantics ==
  InOrder => /\ IsPrefix(got, Expected)
             /\ main = "done" => \/ got = Expected
                                 \/ Len(got) = want

\* With parallel workers elements may change places, but none is made up,
\* delivered twice or lost: a consumer that runs to the end has as many as
\* the list semantics gives it, in whatever order they came.
EachLineOnce ==
  /\ \A j, k \in DOMAIN got : got[j] = got[k] => j = k
  /\ ToSet(got) \subseteq 1 .. lines
  /\ Len(got) <= Len(Expected)
  /\ main = "done" => Len(got) \in {want, Len(Expected)}

\* A channel is closed only when its stage has passed on all it is ever to
\* pass on of what it received: a worker of parallel or a relay never holds
\* an element when its channel closes.
CompleteWhenClosed ==
  \A i \in closed \ {0} :
    CASE Op(i) = "take"     -> sent[i] = sent[i - 1]
      [] Op(i) = "skip"     -> sent[i] = SkipOf(sent[i - 1], Arg(i))
      [] Op(i) = "parallel" -> ToSet(sent[i]) = ToSet(sent[i - 1])

\* The consumer's loop always ends.
ConsumerEnds == <>(main = "done")

\* Stage i stops before its source is drained.
StopsEarly(i) ==
  Op(i) \in {"take", "parallel"} /\ Len(Meaning[i]) < Len(Meaning[i - 1])

\* A goroutine is left behind only upstream of a stage that stops early (a
\* take that is given more than n elements, a parallel without workers) or
\* of a consumer that does.  Every other one closes its channel and ends.
NoLeak ==
  \A t \in Thread :
    <>(\/ t[1] > N \/ t \notin Relays(t[1])
       \/ pc[t] = "exit" /\ t[1] \in closed
       \/ \E i \in t[1] + 1 .. N : StopsEarly(i)
       \/ want < Len(Expected))
=============================================================================
