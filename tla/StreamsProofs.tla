--------------------------- MODULE StreamsProofs ---------------------------
(***************************************************************************)
(* Proofs about the Stream[T] run time, for every pipeline.                *)
(***************************************************************************)
EXTENDS Streams, FiniteSetTheorems, WellFoundedInduction, TLAPS

ST == INSTANCE SequenceTheorems

(***************************************************************************)
(* The inductive invariant for closing: only the relays of a stage that    *)
(* was built ever run, and those of a closed stage have all left.          *)
(***************************************************************************)
BuildOK ==
  /\ main = "build" => built <= N
  /\ main = "assign" => built >= 1
  /\ main \in {"recv", "done"} => built = N + 1

CloseOK ==
  /\ \A t \in Thread : pc[t] # "off" => t \in Relays(t[1]) /\ t[1] < built
  /\ \A i \in closed : i < built /\ \A t \in Relays(i) : pc[t] = "exit"

CInv == TypeOK /\ BuildOK /\ CloseOK

\* The shape of the stages of a pipeline the assumption allows.
LEMMA StageTyped ==
  ASSUME TypeOK
  PROVE  /\ N \in Nat /\ N <= MaxStages
         /\ \A i \in 1 .. N : /\ pipeline[i] \in Stage
                              /\ Op(i) \in {"take", "skip", "parallel"}
                              /\ Arg(i) \in Int
                              /\ Op(i) = "parallel" => Arg(i) \in 0 .. MaxWorkers
         /\ Op(0) = "lines" /\ Arg(0) \in Nat
         /\ MaxStages \in Nat /\ MaxWorkers \in Nat \ {0}
<1>1. /\ pipeline \in Seq(Stage) /\ Len(pipeline) <= MaxStages
      /\ \A i \in 1 .. Len(pipeline) :
           pipeline[i].op = "parallel" => pipeline[i].n \in 0 .. MaxWorkers
  BY StreamsAssumption DEF TypeOK
<1>2. N \in Nat /\ \A i \in 1 .. N : pipeline[i] \in Stage
  BY <1>1, ST!ElementOfSeq, ST!LenProperties DEF N
<1>3. \A i \in 1 .. N : /\ pipeline[i].op \in {"take", "skip", "parallel"}
                        /\ pipeline[i].n \in Int
  BY <1>2 DEF Stage
<1>4. Op(0) = "lines" /\ Arg(0) \in Nat
  BY StreamsAssumption DEF Op, Arg, TypeOK
<1>5. \A i \in 1 .. N : Op(i) = pipeline[i].op /\ Arg(i) = pipeline[i].n
  BY <1>2 DEF Op, Arg
<1> QED
  BY <1>1, <1>2, <1>3, <1>4, <1>5, StreamsAssumption DEF N

\* The threads of a stage are threads, and a stage other than parallel has one.
LEMMA RelaysTyped ==
  ASSUME TypeOK, NEW i \in 0 .. N
  PROVE  /\ Relays(i) \subseteq Thread
         /\ \A t \in Relays(i) : t[1] = i
<1>1. i \in 0 .. MaxStages /\ MaxWorkers \in Nat \ {0}
  BY StageTyped
<1>2. CASE Op(i) = "parallel"
  <2>1. Arg(i) \in 0 .. MaxWorkers
    BY <1>2, StageTyped
  <2>2. Relays(i) = {i} \X (1 .. Arg(i))
    BY <1>2 DEF Relays
  <2>3. 1 .. Arg(i) \subseteq 1 .. MaxWorkers
    BY <2>1, <1>1
  <2> QED
    BY <2>2, <2>3, <1>1 DEF Thread
<1>3. CASE Op(i) # "parallel"
  BY <1>3, <1>1 DEF Relays, Thread
<1> QED
  BY <1>2, <1>3

LEMMA ThreadTyped ==
  ASSUME NEW t \in Thread
  PROVE  t[1] \in 0 .. MaxStages /\ t = <<t[1], t[2]>>
BY DEF Thread

-----------------------------------------------------------------------------
THEOREM InitCInv == Init => CInv
<1> SUFFICES ASSUME Init PROVE CInv
  OBVIOUS
<1> USE DEF Init
<1>1. N \in Nat /\ MaxStages \in Nat
  BY StreamsAssumption, ST!LenProperties DEF N
<1>2. TypeOK
  BY <1>1 DEF TypeOK
<1>3. BuildOK /\ CloseOK
  BY <1>1 DEF BuildOK, CloseOK
<1> QED
  BY <1>2, <1>3 DEF CInv

LEMMA BuildStep ==
  ASSUME CInv, Build
  PROVE  CInv'
<1> USE DEF CInv
<1>1. /\ built \in 0 .. N /\ built' = built + 1 /\ N \in Nat
      /\ main' \in {"assign", "recv", "build"}
      /\ main' = "recv" => built = N
      /\ main' = "build" => built # N
      /\ pipeline' = pipeline /\ lines' = lines /\ want' = want /\ N' = N
  BY StageTyped DEF Build, BuildOK, TypeOK, given, N
<1>2. \A i : Relays(i)' = Relays(i)
  BY <1>1 DEF Relays, Op, Arg
<1>3. /\ pc' \in [Thread -> {"off", "head", "recv", "send", "exit"}]
      /\ \A t \in Thread : pc'[t] = IF t \in Relays(built) THEN "head" ELSE pc[t]
  BY DEF Build, TypeOK
<1>4. TypeOK'
  BY <1>1, <1>3 DEF TypeOK, Build
<1>5. BuildOK'
  BY <1>1 DEF BuildOK
<1>6. CloseOK'
  <2>1. ASSUME NEW t \in Thread, pc'[t] # "off"
        PROVE  t \in Relays(t[1]) /\ t[1] < built'
    <3>1. CASE t \in Relays(built)
      <4>1. t[1] = built
        BY <3>1, <1>1, RelaysTyped
      <4> QED
        BY <3>1, <4>1, <1>1
    <3>2. CASE t \notin Relays(built)
      <4>1. t \in Relays(t[1]) /\ t[1] < built /\ t[1] \in Int
        BY <3>2, <2>1, <1>3, ThreadTyped, StageTyped DEF CloseOK
      <4> QED
        BY <4>1, <1>1
    <3> QED
      BY <3>1, <3>2
  <2>2. ASSUME NEW i \in closed
        PROVE  i < built' /\ \A t \in Relays(i) : pc'[t] = "exit"
    <3>1. i < built /\ i \in 0 .. N /\ \A t \in Relays(i) : pc[t] = "exit"
      BY DEF CloseOK, TypeOK
    <3>2. \A t \in Relays(i) : t \in Thread /\ t[1] = i
      BY <3>1, RelaysTyped
    <3>3. \A t \in Relays(built) : t[1] = built
      BY <1>1, RelaysTyped
    <3>4. \A t \in Relays(i) : t \notin Relays(built)
      BY <3>1, <3>2, <3>3, <1>1
    <3> QED
      BY <3>1, <3>2, <3>4, <1>1, <1>3
  <2> QED
    BY <2>1, <2>2, <1>2 DEF CloseOK, Build
<1> QED
  BY <1>4, <1>5, <1>6

LEMMA AssignStep ==
  ASSUME CInv, Assign
  PROVE  CInv'
<1> USE DEF CInv
<1>1. /\ built \in 1 .. N + 1 /\ N \in Nat /\ N' = N /\ stream' = built - 1
      /\ main' \in {"recv", "build"}
      /\ main' = "recv" => built = N + 1
      /\ main' = "build" => built # N + 1
  BY StageTyped DEF Assign, BuildOK, TypeOK, given, N
<1>2. TypeOK'
  BY <1>1 DEF TypeOK, Assign, given
<1>3. BuildOK'
  BY <1>1 DEF BuildOK, Assign
<1>4. CloseOK'
  BY DEF CloseOK, Relays, Op, Arg, Assign, given
<1> QED
  BY <1>2, <1>3, <1>4

\* What the steps of the relays have in common: a thread that is running
\* moves, and no stage is built or closed.
LEMMA RelayMoves ==
  ASSUME CInv, UNCHANGED <<given, built, closed>>,
         pc' \in [Thread -> {"off", "head", "recv", "send", "exit"}],
         \A t \in Thread : pc'[t] # pc[t] => pc[t] \in {"head", "recv", "send"}
  PROVE  CloseOK'
<1> USE DEF CInv
<1>1. \A i : Relays(i)' = Relays(i)
  BY DEF Relays, Op, Arg, given
<1>2. \A t \in Thread : pc'[t] # "off" => t \in Relays(t[1]) /\ t[1] < built
  BY DEF CloseOK
<1>3. ASSUME NEW i \in closed
      PROVE  i < built /\ \A t \in Relays(i) : pc'[t] = "exit"
  <2>1. i < built /\ \A t \in Relays(i) : pc[t] = "exit"
    BY DEF CloseOK
  <2>2. \A t \in Relays(i) : t \in Thread
    BY RelaysTyped DEF TypeOK
  <2> QED
    BY <2>1, <2>2
<1> QED
  BY <1>1, <1>2, <1>3 DEF CloseOK

LEMMA RelayStep ==
  ASSUME CInv, NEW t \in Thread, Read(t) \/ TakeIsFull(t) \/ Receive(t) \/ Drained(t)
  PROVE  CInv'
<1> USE DEF CInv
<1>1. /\ pc' \in [Thread -> {"off", "head", "recv", "send", "exit"}]
      /\ \A r \in Thread : pc'[r] # pc[r] => pc[r] \in {"head", "recv", "send"}
  BY DEF Read, TakeIsFull, Receive, Drained, Jump, TypeOK
<1>2. UNCHANGED <<given, main, built, stream, cnt, sent, closed>>
  BY DEF Read, TakeIsFull, Receive, Drained
<1>3. val' \in [Thread -> Nat]
  <2>1. val \in [Thread -> Nat] /\ cnt[t] + 1 \in Nat
    BY DEF TypeOK
  <2>2. val' = val \/ val' = [val EXCEPT ![t] = cnt[t] + 1]
    BY DEF Read, TakeIsFull, Receive, Drained
  <2> QED
    BY <2>1, <2>2
<1>4. from' \in [Thread -> 0 .. MaxStages]
  <2>1. CASE Receive(t)
    <3> DEFINE i == t[1]
    <3>1. i \in 0 .. MaxStages /\ i < built /\ built \in 0 .. N + 1 /\ N \in Nat /\ N <= MaxStages
      BY <2>1, ThreadTyped, StageTyped DEF Receive, CloseOK, TypeOK
    <3>2. i # 0
      BY <2>1, StageTyped DEF Receive
    <3> HIDE DEF i
    <3>3. Source(i) \in 0 .. MaxStages
      <4>1. stream \in 0 .. MaxStages
        BY <3>1, StageTyped DEF TypeOK
      <4>2. i - 1 \in 0 .. MaxStages
        BY <3>1, <3>2, StageTyped
      <4> QED
        BY <4>1, <4>2 DEF Source
    <3>4. Source(t[1]) \in 0 .. MaxStages
      BY <3>3 DEF i
    <3> QED
      BY <2>1, <3>4 DEF Receive, TypeOK
  <2>2. CASE ~Receive(t)
    BY <2>2 DEF Read, TakeIsFull, Drained, TypeOK
  <2> QED
    BY <2>1, <2>2
<1>5. TypeOK'
  BY <1>1, <1>2, <1>3, <1>4 DEF TypeOK, given, N
<1>6. BuildOK'
  BY <1>2 DEF BuildOK, given, N
<1>7. CloseOK'
  BY <1>1, <1>2, RelayMoves
<1> QED
  BY <1>5, <1>6, <1>7

LEMMA TransferStep ==
  ASSUME CInv, NEW t \in Thread, NEW r \in Thread, Transfer(t, r)
  PROVE  CInv'
<1> USE DEF CInv
<1>1. /\ pc' \in [Thread -> {"off", "head", "recv", "send", "exit"}]
      /\ \A u \in Thread : pc'[u] # pc[u] => pc[u] \in {"head", "recv", "send"}
      /\ val' \in [Thread -> Nat]
  BY DEF Transfer, TypeOK
<1>2. UNCHANGED <<given, main, built, stream, from, closed>>
  BY DEF Transfer
<1>3. cnt' \in [Thread -> Nat]
  <2>1. cnt \in [Thread -> Nat] /\ AfterSend(t) \in Nat /\ cnt[r] + 1 \in Nat
    BY DEF AfterSend, TypeOK
  <2>2. \/ cnt' = [cnt EXCEPT ![t] = AfterSend(t), ![r] = cnt[r] + 1]
        \/ cnt' = [cnt EXCEPT ![t] = AfterSend(t)]
    <3>1. t # r
      BY DEF Transfer
    <3> QED
      BY <3>1, <2>1 DEF Transfer, TypeOK
  <2> QED
    BY <2>1, <2>2
<1>4. sent' \in [0 .. MaxStages -> Seq(Nat)]
  BY ThreadTyped DEF Transfer, TypeOK
<1>5. TypeOK'
  BY <1>1, <1>2, <1>3, <1>4 DEF TypeOK, given, N
<1>6. BuildOK'
  BY <1>2 DEF BuildOK, given, N
<1>7. CloseOK'
  BY <1>1, <1>2, RelayMoves
<1> QED
  BY <1>5, <1>6, <1>7

LEMMA DeliverStep ==
  ASSUME CInv, NEW t \in Thread, Deliver(t)
  PROVE  CInv'
<1> USE DEF CInv
<1>1. /\ pc' \in [Thread -> {"off", "head", "recv", "send", "exit"}]
      /\ \A u \in Thread : pc'[u] # pc[u] => pc[u] \in {"head", "recv", "send"}
  BY DEF Deliver, Jump, TypeOK
<1>2. UNCHANGED <<given, built, stream, val, from, closed>> /\ main' \in {"recv", "done"}
  BY DEF Deliver
<1>3. cnt' \in [Thread -> Nat]
  BY DEF Deliver, AfterSend, TypeOK
<1>4. sent' \in [0 .. MaxStages -> Seq(Nat)]
  BY StageTyped DEF Deliver, TypeOK
<1>5. TypeOK'
  BY <1>1, <1>2, <1>3, <1>4 DEF TypeOK, given, N
<1>6. BuildOK'
  BY <1>2 DEF BuildOK, given, N, Deliver
<1>7. CloseOK'
  BY <1>1, <1>2, RelayMoves
<1> QED
  BY <1>5, <1>6, <1>7

LEMMA CloseStep ==
  ASSUME CInv, NEW i \in 0 .. MaxStages, Close(i)
  PROVE  CInv'
<1> USE DEF CInv
<1>1. closed' = closed \cup {i} /\ i < built /\ i \in 0 .. N
  BY StageTyped DEF Close, TypeOK
<1>2. TypeOK'
  BY <1>1 DEF TypeOK, Close, given, N
<1>3. BuildOK'
  BY DEF BuildOK, Close, given, N
<1>4. CloseOK'
  BY <1>1 DEF CloseOK, Close, Relays, Op, Arg, given
<1> QED
  BY <1>2, <1>3, <1>4

THEOREM NextCInv == CInv /\ [Next]_vars => CInv'
<1> SUFFICES ASSUME CInv, [Next]_vars PROVE CInv'
  OBVIOUS
<1>1. CASE Build
  BY <1>1, BuildStep
<1>2. CASE Assign
  BY <1>2, AssignStep
<1>3. CASE MainEnds
  BY <1>3 DEF MainEnds, CInv, TypeOK, BuildOK, CloseOK, Relays, Op, Arg, N, given
<1>4. ASSUME NEW t \in Thread, Read(t) \/ TakeIsFull(t) \/ Receive(t) \/ Drained(t)
      PROVE  CInv'
  BY <1>4, RelayStep
<1>5. ASSUME NEW t \in Thread, NEW r \in Thread, Transfer(t, r)
      PROVE  CInv'
  BY <1>5, TransferStep
<1>6. ASSUME NEW t \in Thread, Deliver(t)
      PROVE  CInv'
  BY <1>6, DeliverStep
<1>7. ASSUME NEW i \in 0 .. MaxStages, Close(i)
      PROVE  CInv'
  BY <1>7, CloseStep
<1>8. CASE UNCHANGED vars
  BY <1>8 DEF vars, CInv, TypeOK, BuildOK, CloseOK, Relays, Op, Arg, N, given
<1> QED
  BY <1>1, <1>2, <1>3, <1>4, <1>5, <1>6, <1>7, <1>8 DEF Next

THEOREM CInvariance == Spec => []CInv
  BY InitCInv, NextCInv, PTL DEF Spec

\* Every variable of the pipeline keeps its type.
THEOREM StreamsTyped == Spec => []TypeOK
<1>1. CInv => TypeOK
  BY DEF CInv
<1> QED
  BY <1>1, CInvariance, PTL

\* For every pipeline, every number of lines and of workers, and also when
\* streams share a variable: no goroutine is ever about to send on a closed
\* channel, so none of the closes the compiler inserts can crash a program.
THEOREM NeverSendsOnClosed == Spec => []NoSendOnClosed
<1>1. CInv => NoSendOnClosed
  BY DEF CInv, CloseOK, NoSendOnClosed
<1> QED
  BY <1>1, CInvariance, PTL

-----------------------------------------------------------------------------
(***************************************************************************)
(* What the elements are.  A take or a skip written s = take(s, n) reads   *)
(* whatever s holds by then, and nothing can be said of such a pipeline;   *)
(* for every other one each relay reads the stage before it, and the       *)
(* invariant relates the elements of two neighbouring stages: a stage with *)
(* one relay has sent what it received beyond an offset, in order, but for *)
(* the element it holds, and the workers of a parallel stage have, each    *)
(* once, what was received and not sent.                                   *)
(***************************************************************************)

\* No take or skip of the pipeline reads a variable that is assigned again.
OwnSources == Rebind => \A i \in 1 .. N : Op(i) = "parallel"

Off(i)    == IF Op(i) = "skip" /\ Arg(i) > 0 THEN Arg(i) ELSE 0
Single(i) == Op(i) = "parallel" => Arg(i) = 1
Holds(t)  == pc[t] = "send"

FromOK == \A t \in Thread : pc[t] = "recv" => t[1] # 0 /\ from[t] = t[1] - 1

\* lines has sent the first cnt lines.
LinesOK ==
  LET t == <<0, 1>> IN
  /\ cnt[t] = Len(sent[0]) /\ cnt[t] <= lines
  /\ \A j \in 1 .. Len(sent[0]) : sent[0][j] = j
  /\ Holds(t) => val[t] = cnt[t] + 1 /\ cnt[t] < lines
  /\ pc[t] = "exit" => cnt[t] = lines

\* A relay has sent what it received, from an offset on, but for what it holds.
SingleOK(i) ==
  LET t == <<i, 1>> IN
  /\ Len(sent[i]) + (IF Holds(t) THEN 1 ELSE 0)
       = IF Len(sent[i - 1]) <= Off(i) THEN 0 ELSE Len(sent[i - 1]) - Off(i)
  /\ \A j \in 1 .. Len(sent[i]) : sent[i][j] = sent[i - 1][j + Off(i)]
  /\ Holds(t) => val[t] = sent[i - 1][Len(sent[i - 1])]

TakeOK(i) ==
  LET t == <<i, 1>> IN
  /\ cnt[t] = Len(sent[i])
  /\ cnt[t] = 0 \/ cnt[t] <= Arg(i)
  /\ pc[t] \in {"recv", "send"} => cnt[t] < Arg(i)
  /\ pc[t] = "exit" => cnt[t] >= Arg(i) \/ i - 1 \in closed

SkipOK(i) ==
  LET t == <<i, 1>> IN
  /\ cnt[t] = IF Len(sent[i - 1]) <= Off(i) THEN Len(sent[i - 1]) ELSE Off(i)
  /\ pc[t] = "exit" => i - 1 \in closed

\* The workers have sent what they received, but for what they hold, and no
\* two of them hold the same.
ParallelOK(i) ==
  /\ \A x \in 1 .. lines :
       x \in ToSet(sent[i - 1]) <=> \/ x \in ToSet(sent[i])
                                    \/ \E t \in Relays(i) : Holds(t) /\ val[t] = x
  /\ \A t \in Relays(i) : Holds(t) => val[t] \in 1 .. lines /\ val[t] \notin ToSet(sent[i])
  /\ \A t, u \in Relays(i) : Holds(t) /\ Holds(u) /\ val[t] = val[u] => t = u
  /\ \A t \in Relays(i) : pc[t] = "exit" => i - 1 \in closed
  /\ Arg(i) = 0 => sent[i] = << >>

StageOK(i) ==
  /\ Single(i)           => SingleOK(i)
  /\ Op(i) = "take"      => TakeOK(i)
  /\ Op(i) = "skip"      => SkipOK(i)
  /\ Op(i) = "parallel"  => ParallelOK(i)

\* No line twice, and nothing that is not a line.
Distinct(i) == /\ \A j, k \in 1 .. Len(sent[i]) : sent[i][j] = sent[i][k] => j = k
               /\ \A j \in 1 .. Len(sent[i]) : sent[i][j] \in 1 .. lines

\* No more than the pipeline means, all of it when closed, and in its order
\* when no workers can overtake each other.
WithinMeaning(i) ==
  /\ Len(sent[i]) <= Len(Meaning[i])
  /\ InOrder => \A j \in 1 .. Len(sent[i]) : sent[i][j] = Meaning[i][j]

MeantOK(i) == WithinMeaning(i) /\ (i \in closed => Len(sent[i]) = Len(Meaning[i]))

MainOK == main = "done" => N \in closed \/ Len(got) = want

FlowOK ==
  /\ FromOK /\ LinesOK /\ MainOK
  /\ \A i \in 1 .. N : StageOK(i)
  /\ \A i \in 0 .. N : Distinct(i)
  /\ \A i \in 0 .. N : MeantOK(i)

FInv == OwnSources => FlowOK

-----------------------------------------------------------------------------
(* Sequences of lines.                                                     *)

LEMMA ToSetIs ==
  ASSUME NEW s \in Seq(Nat), NEW x
  PROVE  x \in ToSet(s) <=> \E j \in 1 .. Len(s) : s[j] = x
BY DEF ToSet

LEMMA ToSetAppend ==
  ASSUME NEW s \in Seq(Nat), NEW v \in Nat
  PROVE  ToSet(Append(s, v)) = ToSet(s) \cup {v}
<1>1. /\ Append(s, v) \in Seq(Nat) /\ Len(Append(s, v)) = Len(s) + 1
      /\ \A i \in 1 .. Len(s) : Append(s, v)[i] = s[i]
      /\ Append(s, v)[Len(s) + 1] = v /\ Len(s) \in Nat
  BY ST!AppendProperties, ST!LenProperties
<1> DEFINE a == Append(s, v)
<1> HIDE DEF a
<1>2. ASSUME NEW x PROVE x \in ToSet(a) <=> x \in ToSet(s) \/ x = v
  <2>1. x \in ToSet(a) <=> \E j \in 1 .. Len(s) + 1 : a[j] = x
    BY <1>1, ToSetIs DEF a
  <2>2. (\E j \in 1 .. Len(s) + 1 : a[j] = x) <=> (\E j \in 1 .. Len(s) : s[j] = x) \/ x = v
    BY <1>1 DEF a
  <2> QED BY <2>1, <2>2, ToSetIs
<1> QED BY <1>2 DEF a

LEMMA IntervalSize ==
  ASSUME NEW n \in Nat
  PROVE  IsFiniteSet(1 .. n) /\ Cardinality(1 .. n) = n
<1>1. 1 \in Int /\ n \in Int
  OBVIOUS
<1>2. IsFiniteSet(1 .. n) /\ Cardinality(1 .. n) = IF 1 > n THEN 0 ELSE n - 1 + 1
  BY <1>1, FS_Interval, Zenon
<1>3. (IF 1 > n THEN 0 ELSE n - 1 + 1) = n
  OBVIOUS
<1> QED BY <1>2, <1>3

\* A sequence without repetition of elements of another is no longer than it.
LEMMA NoLonger ==
  ASSUME NEW a \in Seq(Nat), NEW b \in Seq(Nat),
         \A j, k \in 1 .. Len(a) : a[j] = a[k] => j = k,
         ToSet(a) \subseteq ToSet(b)
  PROVE  Len(a) <= Len(b)
<1> DEFINE S == 1 .. Len(a)
           T == 1 .. Len(b)
           f == [j \in S |-> CHOOSE k \in T : b[k] = a[j]]
<1>1. Len(a) \in Nat /\ Len(b) \in Nat
  BY ST!LenProperties
<1>2. \A j \in S : \E k \in T : b[k] = a[j]
  BY ToSetIs
<1>3. \A j \in S : f[j] \in T /\ b[f[j]] = a[j]
  BY <1>2
<1>4. f \in [S -> T] /\ \A j, k \in S : f[j] = f[k] => j = k
  BY <1>3
<1>5. f \in Injection(S, T)
  BY <1>4 DEF Injection, IsInjective
<1>6. IsFiniteSet(S) /\ IsFiniteSet(T) /\ Cardinality(S) = Len(a) /\ Cardinality(T) = Len(b)
  BY <1>1, IntervalSize
<1>7. Cardinality(S) <= Cardinality(T)
  <2> HIDE DEF S, T, f
  <2> QED BY <1>5, <1>6, FS_Injection
<1> QED BY <1>6, <1>7

LEMMA TakeOfIs ==
  ASSUME NEW s \in Seq(Nat), NEW n \in Int
  PROVE  /\ TakeOf(s, n) \in Seq(Nat)
         /\ Len(TakeOf(s, n)) = IF n <= 0 THEN 0 ELSE IF n < Len(s) THEN n ELSE Len(s)
         /\ \A j \in 1 .. Len(TakeOf(s, n)) : TakeOf(s, n)[j] = s[j]
<1> DEFINE m == IF n < Len(s) THEN n ELSE Len(s)
<1>1. Len(s) \in Nat /\ m \in Int /\ m <= Len(s)
  BY ST!LenProperties
<1>2. \A i \in 1 .. m : s[i] \in Nat
  BY <1>1, ST!ElementOfSeq
<1> HIDE DEF m
<1>3. /\ SubSeq(s, 1, m) \in Seq(Nat)
      /\ Len(SubSeq(s, 1, m)) = IF 1 <= m THEN m - 1 + 1 ELSE 0
      /\ \A i \in 1 .. m - 1 + 1 : SubSeq(s, 1, m)[i] = s[1 + i - 1]
  BY <1>1, <1>2, ST!SubSeqProperties
<1>4. TakeOf(s, n) = SubSeq(s, 1, m)
  BY DEF TakeOf, m
<1>5. Len(TakeOf(s, n)) = IF 1 <= m THEN m ELSE 0
  BY <1>1, <1>3, <1>4
<1>6. \A i \in 1 .. m : TakeOf(s, n)[i] = s[i]
  BY <1>1, <1>3, <1>4
<1> QED
  BY <1>1, <1>3, <1>4, <1>5, <1>6 DEF m

LEMMA SkipOfIs ==
  ASSUME NEW s \in Seq(Nat), NEW n \in Int, NEW o, o = IF n > 0 THEN n ELSE 0
  PROVE  /\ SkipOf(s, n) \in Seq(Nat)
         /\ Len(SkipOf(s, n)) = IF Len(s) <= o THEN 0 ELSE Len(s) - o
         /\ \A j \in 1 .. Len(SkipOf(s, n)) : SkipOf(s, n)[j] = s[j + o]
<1>1. Len(s) \in Nat /\ o \in Nat
  BY ST!LenProperties
<1>2. \A i \in o + 1 .. Len(s) : s[i] \in Nat
  BY <1>1, ST!ElementOfSeq
<1>3. SkipOf(s, n) = SubSeq(s, o + 1, Len(s))
  BY DEF SkipOf
<1>4. /\ SubSeq(s, o + 1, Len(s)) \in Seq(Nat)
      /\ Len(SubSeq(s, o + 1, Len(s))) = IF o + 1 <= Len(s) THEN Len(s) - (o + 1) + 1 ELSE 0
      /\ \A i \in 1 .. Len(s) - (o + 1) + 1 : SubSeq(s, o + 1, Len(s))[i] = s[(o + 1) + i - 1]
  BY <1>1, <1>2, ST!SubSeqProperties
<1>5. Len(SkipOf(s, n)) = IF Len(s) <= o THEN 0 ELSE Len(s) - o
  BY <1>1, <1>3, <1>4
<1>6. ASSUME NEW j \in 1 .. Len(SkipOf(s, n)) PROVE SkipOf(s, n)[j] = s[j + o]
  <2>1. j \in 1 .. Len(s) - (o + 1) + 1 /\ (o + 1) + j - 1 = j + o
    BY <1>1, <1>5
  <2> QED BY <1>3, <1>4, <2>1
<1> QED
  BY <1>3, <1>4, <1>5, <1>6

LEMMA ApplyTyped ==
  ASSUME NEW s \in Seq(Nat), NEW st \in Stage
  PROVE  Apply(s, st) \in Seq(Nat)
<1>1. st.op \in {"take", "skip", "parallel"} /\ st.n \in Int
  BY DEF Stage
<1>2. TakeOf(s, st.n) \in Seq(Nat) /\ SkipOf(s, st.n) \in Seq(Nat)
  BY <1>1, TakeOfIs, SkipOfIs
<1>3. << >> \in Seq(Nat)
  BY ST!EmptySeq
<1>4. CASE st.op = "take"
  BY <1>2, <1>4 DEF Apply
<1>5. CASE st.op = "skip"
  BY <1>2, <1>5 DEF Apply
<1>6. CASE st.op = "parallel"
  BY <1>3, <1>6 DEF Apply
<1> QED BY <1>1, <1>4, <1>5, <1>6

(* The meaning of a pipeline is what its definition says, stage by stage. *)

\* The lists that the first k stages mean.
MeaningUpTo(k, f) ==
  f = [i \in 0 .. k |-> IF i = 0 THEN [j \in 1 .. lines |-> j]
                                 ELSE Apply(f[i - 1], pipeline[i])]

\* One more stage has a meaning when those before it have.
LEMMA MeaningExtends ==
  ASSUME NEW k \in Nat, NEW f, MeaningUpTo(k, f)
  PROVE  \E g : MeaningUpTo(k + 1, g)
<1> DEFINE g == [i \in 0 .. k + 1 |-> IF i = k + 1 THEN Apply(f[k], pipeline[k + 1]) ELSE f[i]]
<1>1. \A i \in 0 .. k : f[i] = IF i = 0 THEN [j \in 1 .. lines |-> j]
                               ELSE Apply(f[i - 1], pipeline[i])
  BY DEF MeaningUpTo
<1>2. \A i \in 0 .. k : g[i] = f[i]
  OBVIOUS
<1>3. g[k + 1] = Apply(g[k], pipeline[k + 1])
  BY <1>2
<1>4. DOMAIN g = 0 .. k + 1 /\ g = [i \in 0 .. k + 1 |-> g[i]]
  OBVIOUS
<1> HIDE DEF g
<1>5. ASSUME NEW i \in 0 .. k + 1
      PROVE  g[i] = IF i = 0 THEN [j \in 1 .. lines |-> j] ELSE Apply(g[i - 1], pipeline[i])
  <2>1. CASE i = k + 1
    BY <2>1, <1>3
  <2>2. CASE i = 0
    BY <2>2, <1>1, <1>2
  <2>3. CASE i \in 1 .. k
    <3>1. i \in 0 .. k /\ i - 1 \in 0 .. k /\ i # 0
      BY <2>3
    <3>2. f[i] = Apply(f[i - 1], pipeline[i])
      BY <3>1, <1>1
    <3>3. g[i] = f[i] /\ g[i - 1] = f[i - 1]
      BY <3>1, <1>2
    <3> QED BY <3>1, <3>2, <3>3
  <2> QED BY <2>1, <2>2, <2>3
<1>6. MeaningUpTo(k + 1, g)
  BY <1>4, <1>5 DEF MeaningUpTo
<1> QED BY <1>6

\* A set of numbers has a least.
LEMMA Least ==
  ASSUME NEW T \in SUBSET Nat, T # {}
  PROVE  \E m \in T : \A i \in T : m <= i
<1> DEFINE R == {ss \in Nat \X Nat : ss[1] < ss[2]}
<1>1. IsWellFoundedOn(R, Nat)
  BY NatLessThanWellFounded DEF OpToRel
<1>2. PICK m \in T : \A y \in T : <<y, m>> \notin R
  <2> HIDE DEF R
  <2> QED BY <1>1, WFMin
<1>3. \A i \in T : ~(i < m)
  BY <1>2
<1> QED BY <1>3

LEMMA MeaningExists ==
  ASSUME NEW n \in Nat
  PROVE  \E f : MeaningUpTo(n, f)
<1> DEFINE T == {k \in Nat : ~ \E f : MeaningUpTo(k, f)}
<1> SUFFICES ASSUME T # {} PROVE FALSE
  OBVIOUS
<1>1. PICK m \in T : \A i \in T : m <= i
  <2>1. T \subseteq Nat
    OBVIOUS
  <2> HIDE DEF T
  <2> QED BY <2>1, Least
<1>2. MeaningUpTo(0, [i \in 0 .. 0 |-> [j \in 1 .. lines |-> j]])
  BY DEF MeaningUpTo
<1>3. m # 0
  BY <1>2
<1>4. m - 1 \in Nat /\ m - 1 \notin T /\ (m - 1) + 1 = m
  BY <1>1, <1>3
<1>5. PICK f : MeaningUpTo(m - 1, f)
  BY <1>4
<1>6. \E g : MeaningUpTo((m - 1) + 1, g)
  BY <1>4, <1>5, MeaningExtends
<1> QED BY <1>4, <1>6

LEMMA MeaningIs ==
  ASSUME TypeOK
  PROVE  /\ Meaning[0] = [j \in 1 .. lines |-> j]
         /\ \A i \in 1 .. N : Meaning[i] = Apply(Meaning[i - 1], pipeline[i])
<1>1. N \in Nat
  BY StageTyped
<1>2. PICK f : MeaningUpTo(N, f)
  BY <1>1, MeaningExists
<1>3. Meaning = CHOOSE g : MeaningUpTo(N, g)
  BY DEF Meaning, MeaningUpTo
<1>4. MeaningUpTo(N, Meaning)
  BY <1>2, <1>3
<1>5. \A i \in 0 .. N : Meaning[i] = IF i = 0 THEN [j \in 1 .. lines |-> j]
                                     ELSE Apply(Meaning[i - 1], pipeline[i])
  BY <1>4 DEF MeaningUpTo
<1>6. Meaning[0] = [j \in 1 .. lines |-> j]
  <2>1. 0 \in 0 .. N
    BY <1>1
  <2> QED BY <1>5, <2>1
<1>7. ASSUME NEW i \in 1 .. N PROVE Meaning[i] = Apply(Meaning[i - 1], pipeline[i])
  <2>1. i \in 0 .. N /\ i # 0
    BY <1>1
  <2> QED BY <1>5, <2>1
<1> QED BY <1>6, <1>7

LEMMA MeaningTyped ==
  ASSUME TypeOK
  PROVE  \A i \in 0 .. N : Meaning[i] \in Seq(Nat)
<1> DEFINE T == {i \in 0 .. N : Meaning[i] \notin Seq(Nat)}
<1>1. N \in Nat /\ \A i \in 1 .. N : pipeline[i] \in Stage
  BY StageTyped
<1> SUFFICES ASSUME T # {} PROVE FALSE
  OBVIOUS
<1>2. PICK m \in T : \A i \in T : m <= i
  <2>1. T \subseteq Nat
    BY <1>1
  <2> HIDE DEF T
  <2> QED BY <2>1, Least
<1>3. m # 0
  <2>1. lines \in Nat
    BY StreamsAssumption DEF TypeOK
  <2>2. [j \in 1 .. lines |-> j] \in Seq(Nat)
    BY <2>1
  <2> QED BY <2>2, MeaningIs
<1>4. m \in 1 .. N /\ m - 1 \in 0 .. N /\ m - 1 \notin T
  BY <1>1, <1>2, <1>3
<1>5. Meaning[m - 1] \in Seq(Nat)
  BY <1>4
<1>6. Meaning[m] \in Seq(Nat)
  BY <1>1, <1>4, <1>5, MeaningIs, ApplyTyped
<1> QED BY <1>2, <1>6

\* The lengths of the meanings, and their elements.
LEMMA MeaningOf ==
  ASSUME TypeOK, NEW i \in 1 .. N
  PROVE  /\ Len(Meaning[i - 1]) \in Nat /\ Len(Meaning[i]) \in Nat
         /\ Op(i) = "take" =>
              /\ Len(Meaning[i]) = IF Arg(i) <= 0 THEN 0
                                   ELSE IF Arg(i) < Len(Meaning[i - 1]) THEN Arg(i)
                                   ELSE Len(Meaning[i - 1])
              /\ \A j \in 1 .. Len(Meaning[i]) : Meaning[i][j] = Meaning[i - 1][j]
         /\ Op(i) = "skip" =>
              /\ Len(Meaning[i]) = IF Len(Meaning[i - 1]) <= Off(i) THEN 0
                                   ELSE Len(Meaning[i - 1]) - Off(i)
              /\ \A j \in 1 .. Len(Meaning[i]) : Meaning[i][j] = Meaning[i - 1][j + Off(i)]
         /\ Op(i) = "parallel" =>
              Meaning[i] = IF Arg(i) = 0 THEN << >> ELSE Meaning[i - 1]
<1>1. /\ N \in Nat /\ pipeline[i] \in Stage /\ Op(i) = pipeline[i].op
      /\ Arg(i) = pipeline[i].n /\ Arg(i) \in Int
  BY StageTyped DEF Op, Arg
<1>2. Meaning[i - 1] \in Seq(Nat) /\ Meaning[i] \in Seq(Nat)
  BY <1>1, MeaningTyped
<1>3. Len(Meaning[i - 1]) \in Nat /\ Len(Meaning[i]) \in Nat
  BY <1>2, ST!LenProperties
<1>4. Meaning[i] = Apply(Meaning[i - 1], pipeline[i])
  BY MeaningIs
<1> DEFINE m == Meaning[i - 1]
<1>5. ASSUME Op(i) = "take" PROVE Meaning[i] = TakeOf(m, Arg(i))
  BY <1>1, <1>4, <1>5 DEF Apply
<1>6. ASSUME Op(i) = "skip" PROVE Meaning[i] = SkipOf(m, Arg(i)) /\ Off(i) = IF Arg(i) > 0 THEN Arg(i) ELSE 0
  BY <1>1, <1>4, <1>6 DEF Apply, Off
<1>7. ASSUME Op(i) = "parallel" PROVE Meaning[i] = IF Arg(i) = 0 THEN << >> ELSE m
  BY <1>1, <1>4, <1>7 DEF Apply
<1>8. m \in Seq(Nat)
  BY <1>2
<1> HIDE DEF m
<1>9. /\ Len(TakeOf(m, Arg(i))) = IF Arg(i) <= 0 THEN 0 ELSE IF Arg(i) < Len(m) THEN Arg(i) ELSE Len(m)
      /\ \A j \in 1 .. Len(TakeOf(m, Arg(i))) : TakeOf(m, Arg(i))[j] = m[j]
  BY <1>1, <1>8, TakeOfIs
<1>10. ASSUME Op(i) = "skip"
       PROVE /\ Len(SkipOf(m, Arg(i))) = IF Len(m) <= Off(i) THEN 0 ELSE Len(m) - Off(i)
             /\ \A j \in 1 .. Len(SkipOf(m, Arg(i))) : SkipOf(m, Arg(i))[j] = m[j + Off(i)]
  BY <1>1, <1>6, <1>8, <1>10, SkipOfIs
<1> QED BY <1>3, <1>5, <1>6, <1>7, <1>9, <1>10 DEF m

-----------------------------------------------------------------------------
(* One stage and the one before it.                                        *)

LEMMA SameProgram ==
  ASSUME UNCHANGED given
  PROVE  /\ lines' = lines /\ want' = want /\ N' = N /\ Meaning' = Meaning
         /\ (InOrder <=> InOrder') /\ (OwnSources <=> OwnSources')
         /\ \A i : /\ Op(i)' = Op(i) /\ Arg(i)' = Arg(i) /\ Relays(i)' = Relays(i)
                   /\ Off(i)' = Off(i) /\ (Single(i)' <=> Single(i))
<1>1. pipeline' = pipeline /\ lines' = lines /\ want' = want /\ N' = N
  BY DEF given, N
<1>2. \A i : Op(i)' = Op(i) /\ Arg(i)' = Arg(i)
  BY <1>1 DEF Op, Arg
<1>3. \A i : Relays(i)' = Relays(i) /\ Off(i)' = Off(i) /\ (Single(i)' <=> Single(i))
  BY <1>2 DEF Relays, Off, Single
<1>4. Meaning' = Meaning
  BY <1>1 DEF Meaning
<1>5. (InOrder <=> InOrder') /\ (OwnSources <=> OwnSources')
  BY <1>1, <1>2 DEF InOrder, OwnSources, Rebind
<1> QED
  BY <1>1, <1>2, <1>3, <1>4, <1>5

LEMMA StageShape ==
  ASSUME CInv, NEW i \in 1 .. N
  PROVE  /\ i \in 0 .. N /\ i - 1 \in 0 .. N /\ i \in Int /\ N \in Nat
         /\ sent[i] \in Seq(Nat) /\ Len(sent[i]) \in Nat
         /\ sent[i - 1] \in Seq(Nat) /\ Len(sent[i - 1]) \in Nat
         /\ lines \in Nat /\ Arg(i) \in Int /\ Off(i) \in Nat
         /\ Op(i) \in {"take", "skip", "parallel"}
         /\ Op(i) = "parallel" => Arg(i) \in Nat
         /\ Relays(i) \subseteq Thread
         /\ Single(i) => Relays(i) = {<<i, 1>>}
         /\ ~Single(i) => Op(i) = "parallel"
         /\ \A t \in Relays(i) : cnt[t] \in Nat /\ val[t] \in Nat
<1>1. /\ N \in Nat /\ N <= MaxStages /\ MaxStages \in Nat /\ Arg(i) \in Int
      /\ Op(i) \in {"take", "skip", "parallel"} /\ TypeOK
      /\ Op(i) = "parallel" => Arg(i) \in 0 .. MaxWorkers
  BY StageTyped DEF CInv
<1>2. i \in 0 .. N /\ i - 1 \in 0 .. N /\ i \in 0 .. MaxStages /\ i - 1 \in 0 .. MaxStages
  BY <1>1
<1>3. sent[i] \in Seq(Nat) /\ sent[i - 1] \in Seq(Nat)
  BY <1>1, <1>2 DEF TypeOK
<1>4. Len(sent[i]) \in Nat /\ Len(sent[i - 1]) \in Nat
  BY <1>3, ST!LenProperties
<1>5. lines \in Nat
  BY <1>1, StreamsAssumption DEF TypeOK
<1>6. Off(i) \in Nat
  BY <1>1 DEF Off
<1>7. Relays(i) \subseteq Thread
  BY <1>1, <1>2, RelaysTyped
<1>8. \A t \in Relays(i) : cnt[t] \in Nat /\ val[t] \in Nat
  BY <1>1, <1>7 DEF TypeOK
<1>9. Single(i) => Relays(i) = {<<i, 1>>}
  <2>1. Single(i) => (IF Op(i) = "parallel" THEN Arg(i) ELSE 1) = 1
    BY DEF Single
  <2>2. {i} \X (1 .. 1) = {<<i, 1>>}
    OBVIOUS
  <2> QED BY <2>1, <2>2 DEF Relays
<1>10. ~Single(i) => Op(i) = "parallel"
  BY DEF Single
<1> QED
  BY <1>1, <1>2, <1>3, <1>4, <1>5, <1>6, <1>7, <1>8, <1>9, <1>10

\* A stage that neither receives nor sends keeps its relation to the one
\* before it, whatever its relays turn to.
LEMMA StageTurns ==
  ASSUME CInv, UNCHANGED given, NEW i \in 1 .. N, StageOK(i),
         sent'[i] = sent[i], sent'[i - 1] = sent[i - 1], closed \subseteq closed',
         \A t \in Relays(i) :
           /\ val'[t] = val[t] /\ cnt'[t] = cnt[t] /\ (pc'[t] = "send" <=> pc[t] = "send")
           /\ pc'[t] = "recv" => \/ pc[t] = "recv" 
                                 \/ Op(i) = "take" => cnt[t] < Arg(i)
           /\ pc'[t] = "exit" => \/ pc[t] = "exit" \/ i - 1 \in closed
                                 \/ Op(i) = "take" /\ cnt[t] >= Arg(i)
  PROVE  StageOK(i)'
<1> DEFINE t == <<i, 1>>
<1>1. /\ lines' = lines /\ Op(i)' = Op(i) /\ Arg(i)' = Arg(i)
      /\ Relays(i)' = Relays(i) /\ Off(i)' = Off(i) /\ (Single(i)' <=> Single(i))
  BY SameProgram
<1>2. Single(i) => t \in Relays(i)
  BY StageShape
<1>3. ASSUME Single(i) PROVE SingleOK(i)'
  <2>1. SingleOK(i)
    BY <1>3 DEF StageOK
  <2>2. Holds(t)' <=> Holds(t)
    BY <1>2, <1>3 DEF Holds
  <2>3. val'[t] = val[t]
    BY <1>2, <1>3
  <2> QED BY <2>1, <2>2, <2>3, <1>1 DEF SingleOK
<1>4. ASSUME Op(i) = "take" PROVE TakeOK(i)'
  <2>1. TakeOK(i) /\ Single(i)
    BY <1>4 DEF StageOK, Single
  <2> QED BY <1>1, <1>2, <1>4, <2>1 DEF TakeOK
<1>5. ASSUME Op(i) = "skip" PROVE SkipOK(i)'
  <2>1. SkipOK(i) /\ Single(i)
    BY <1>5 DEF StageOK, Single
  <2> QED BY <1>1, <1>2, <1>5, <2>1 DEF SkipOK
<1>6. ASSUME Op(i) = "parallel" PROVE ParallelOK(i)'
  <2>1. ParallelOK(i)
    BY <1>6 DEF StageOK
  <2>2. \A u \in Relays(i) : Holds(u)' <=> Holds(u)
    BY DEF Holds
  <2> QED BY <1>1, <1>6, <2>1, <2>2 DEF ParallelOK
<1> QED
  BY <1>1, <1>3, <1>4, <1>5, <1>6 DEF StageOK

\* A relay of the stage sends what it holds.
LEMMA StageSends ==
  ASSUME CInv, UNCHANGED given, NEW i \in 1 .. N, StageOK(i), closed' = closed,
         NEW t \in Relays(i), Holds(t), val[t] \in 1 .. lines,
         sent'[i] = Append(sent[i], val[t]), sent'[i - 1] = sent[i - 1],
         pc'[t] = "head", cnt'[t] = AfterSend(t),
         \A u \in Relays(i) : u # t => pc'[u] = pc[u] /\ val'[u] = val[u]
  PROVE  StageOK(i)'
<1>1. /\ lines' = lines /\ Op(i)' = Op(i) /\ Arg(i)' = Arg(i)
      /\ Relays(i)' = Relays(i) /\ Off(i)' = Off(i) /\ (Single(i)' <=> Single(i))
  BY SameProgram
<1>2. /\ sent[i] \in Seq(Nat) /\ Len(sent[i]) \in Nat /\ Len(sent[i - 1]) \in Nat
      /\ Off(i) \in Nat /\ Arg(i) \in Int /\ cnt[t] \in Nat /\ val[t] \in Nat
      /\ Single(i) => t = <<i, 1>>
      /\ t[1] = i
  <2>1. t[1] = i
    BY StageShape, RelaysTyped DEF CInv
  <2> QED BY StageShape, <2>1
<1>3. /\ sent'[i] \in Seq(Nat) /\ Len(sent'[i]) = Len(sent[i]) + 1
      /\ \A j \in 1 .. Len(sent[i]) : sent'[i][j] = sent[i][j]
      /\ sent'[i][Len(sent[i]) + 1] = val[t]
  BY <1>2, ST!AppendProperties
<1>4. ASSUME Single(i) PROVE SingleOK(i)'
  <2>1. SingleOK(i) /\ t = <<i, 1>> /\ ~Holds(t)'
    BY <1>2, <1>4 DEF StageOK, Holds
  <2>2. /\ Len(sent[i]) + 1 = Len(sent[i - 1]) - Off(i)
        /\ val[t] = sent[i - 1][Len(sent[i - 1])]
        /\ \A j \in 1 .. Len(sent[i]) : sent[i][j] = sent[i - 1][j + Off(i)]
    <3>1. /\ Len(sent[i]) + 1 = IF Len(sent[i - 1]) <= Off(i) THEN 0 ELSE Len(sent[i - 1]) - Off(i)
          /\ val[t] = sent[i - 1][Len(sent[i - 1])]
          /\ \A j \in 1 .. Len(sent[i]) : sent[i][j] = sent[i - 1][j + Off(i)]
      BY <2>1 DEF SingleOK
    <3> QED BY <3>1, <1>2
  <2>3. \A j \in 1 .. Len(sent'[i]) : sent'[i][j] = sent[i - 1][j + Off(i)]
    <3>1. ASSUME NEW j \in 1 .. Len(sent[i]) + 1
          PROVE  sent'[i][j] = sent[i - 1][j + Off(i)]
      <4>1. CASE j = Len(sent[i]) + 1
        <5>1. j + Off(i) = Len(sent[i - 1])
          BY <4>1, <2>2, <1>2
        <5> QED BY <4>1, <5>1, <2>2, <1>3
      <4>2. CASE j # Len(sent[i]) + 1
        <5>1. j \in 1 .. Len(sent[i])
          BY <4>2, <1>2
        <5> QED BY <5>1, <2>2, <1>3
      <4> QED BY <4>1, <4>2
    <3> QED BY <3>1, <1>3
  <2>4. Len(sent'[i]) + 0 = IF Len(sent[i - 1]) <= Off(i) THEN 0 ELSE Len(sent[i - 1]) - Off(i)
    BY <1>2, <1>3, <2>2
  <2> QED BY <1>1, <2>1, <2>3, <2>4 DEF SingleOK
<1>5. ASSUME Op(i) = "take" PROVE TakeOK(i)'
  <2>1. TakeOK(i) /\ t = <<i, 1>> /\ cnt'[t] = cnt[t] + 1
    BY <1>2, <1>5 DEF StageOK, Single, AfterSend
  <2>2. cnt[t] = Len(sent[i]) /\ cnt[t] < Arg(i)
    BY <2>1 DEF TakeOK, Holds
  <2> QED BY <1>1, <1>2, <1>3, <2>1, <2>2 DEF TakeOK
<1>6. ASSUME Op(i) = "skip" PROVE SkipOK(i)'
  <2>1. SkipOK(i) /\ t = <<i, 1>> /\ cnt'[t] = cnt[t]
    BY <1>2, <1>6 DEF StageOK, Single, AfterSend
  <2> QED BY <1>1, <2>1 DEF SkipOK
<1>7. ASSUME Op(i) = "parallel" PROVE ParallelOK(i)'
  <2>1. ParallelOK(i)
    BY <1>7 DEF StageOK
  <2>2. ToSet(sent'[i]) = ToSet(sent[i]) \cup {val[t]}
    BY <1>2, ToSetAppend
  <2>3. ~Holds(t)' /\ \A u \in Relays(i) : u # t => (Holds(u)' <=> Holds(u)) /\ val'[u] = val[u]
    BY DEF Holds
  <2>4. Arg(i) # 0
    <3>1. Relays(i) = {i} \X (1 .. Arg(i))
      BY <1>7 DEF Relays
    <3>2. t[2] \in 1 .. Arg(i)
      BY <3>1
    <3> QED BY <3>2
  <2>5. \A x \in 1 .. lines :
          x \in ToSet(sent[i - 1]) <=> \/ x \in ToSet(sent[i]) \cup {val[t]}
                                       \/ \E u \in Relays(i) : Holds(u)' /\ val'[u] = x
    BY <2>1, <2>3 DEF ParallelOK
  <2>6. \A u \in Relays(i) : Holds(u)' => val'[u] \in 1 .. lines /\ val'[u] \notin ToSet(sent[i]) \cup {val[t]}
    BY <2>1, <2>3 DEF ParallelOK
  <2>7. \A u, w \in Relays(i) : Holds(u)' /\ Holds(w)' /\ val'[u] = val'[w] => u = w
    BY <2>1, <2>3 DEF ParallelOK
  <2>8. \A u \in Relays(i) : pc'[u] = "exit" => i - 1 \in closed
    BY <2>1 DEF ParallelOK
  <2> QED
    BY <1>1, <2>2, <2>4, <2>5, <2>6, <2>7, <2>8 DEF ParallelOK
<1> QED
  BY <1>1, <1>4, <1>5, <1>6, <1>7 DEF StageOK

\* A relay of the stage receives an element its source has not sent before.
LEMMA StageReceives ==
  ASSUME CInv, UNCHANGED given, NEW i \in 1 .. N, StageOK(i), closed' = closed,
         NEW r \in Relays(i), pc[r] = "recv", NEW v \in 1 .. lines,
         v \notin ToSet(sent[i - 1]), 
         \A x \in ToSet(sent[i]) : x \in 1 .. lines,
         sent'[i - 1] = Append(sent[i - 1], v), sent'[i] = sent[i],
         Skipping(r) => pc'[r] = "head" /\ cnt'[r] = cnt[r] + 1,
         ~Skipping(r) => pc'[r] = "send" /\ cnt'[r] = cnt[r] /\ val'[r] = v,
         \A u \in Relays(i) : u # r => pc'[u] = pc[u] /\ val'[u] = val[u]
  PROVE  StageOK(i)'
<1> DEFINE L == Len(sent[i - 1])
           b == sent[i - 1]
           c == sent'[i - 1]
<1>1. /\ lines' = lines /\ Op(i)' = Op(i) /\ Arg(i)' = Arg(i)
      /\ Relays(i)' = Relays(i) /\ Off(i)' = Off(i) /\ (Single(i)' <=> Single(i))
  BY SameProgram
<1>2. /\ sent[i] \in Seq(Nat) /\ Len(sent[i]) \in Nat /\ L \in Nat /\ b \in Seq(Nat)
      /\ Off(i) \in Nat /\ Arg(i) \in Int /\ cnt[r] \in Nat /\ v \in Nat
      /\ Single(i) => r = <<i, 1>>
      /\ r[1] = i
  <2>1. r[1] = i
    BY StageShape, RelaysTyped DEF CInv
  <2>2. v \in Nat
    BY StageShape
  <2> QED BY StageShape, <2>1, <2>2
<1>3. /\ Len(c) = L + 1 /\ c[L + 1] = v /\ \A j \in 1 .. L : c[j] = b[j]
  <2>1. c = Append(b, v)
    OBVIOUS
  <2> HIDE DEF b, c
  <2>2. /\ Len(Append(b, v)) = Len(b) + 1
        /\ \A j \in 1 .. Len(b) : Append(b, v)[j] = b[j]
        /\ Append(b, v)[Len(b) + 1] = v
    BY <1>2, ST!AppendProperties
  <2> QED BY <2>1, <2>2 DEF b
<1> HIDE DEF b, c, L
<1>4. /\ Skipping(r) <=> Op(i) = "skip" /\ cnt[r] < Arg(i)
      /\ Holds(r)' <=> ~Skipping(r)
      /\ ~Holds(r)
  BY <1>2 DEF Skipping, Holds
<1>5. Op(i) = "skip" =>
        /\ cnt[r] = IF L <= Off(i) THEN L ELSE Off(i)
        /\ Skipping(r) <=> L < Off(i)
        /\ r = <<i, 1>>
  <2>1. ASSUME Op(i) = "skip" PROVE SkipOK(i) /\ r = <<i, 1>>
    BY <1>2, <2>1 DEF StageOK, Single
  <2>2. Op(i) = "skip" => Off(i) = IF Arg(i) > 0 THEN Arg(i) ELSE 0
    BY DEF Off
  <2>3. Op(i) = "skip" => cnt[r] = IF L <= Off(i) THEN L ELSE Off(i)
    BY <2>1 DEF SkipOK, L
  <2> QED BY <1>2, <1>4, <2>1, <2>2, <2>3
<1>6. Op(i) # "skip" => Off(i) = 0 /\ ~Skipping(r)
  BY <1>4 DEF Off
<1>7. ASSUME Single(i) PROVE SingleOK(i)'
  <2>1. SingleOK(i) /\ r = <<i, 1>>
    BY <1>2, <1>7 DEF StageOK
  <2>2. /\ Len(sent[i]) = IF L <= Off(i) THEN 0 ELSE L - Off(i)
        /\ \A j \in 1 .. Len(sent[i]) : sent[i][j] = b[j + Off(i)]
    BY <1>2, <1>4, <2>1 DEF SingleOK, L, b
  <2>3. \A j \in 1 .. Len(sent[i]) : j + Off(i) \in 1 .. L
    BY <1>2, <2>2
  <2>4. \A j \in 1 .. Len(sent[i]) : sent[i][j] = c[j + Off(i)]
    BY <1>3, <2>2, <2>3
  <2>5. Len(sent[i]) + (IF Holds(r)' THEN 1 ELSE 0) = IF Len(c) <= Off(i) THEN 0 ELSE Len(c) - Off(i)
    BY <1>2, <1>3, <1>4, <1>5, <1>6, <2>2
  <2>6. Holds(r)' => val'[r] = c[L + 1]
    BY <1>3, <1>4
  <2>7. /\ Len(sent'[i]) + (IF Holds(r)' THEN 1 ELSE 0) = IF Len(c) <= Off(i) THEN 0 ELSE Len(c) - Off(i)
        /\ \A j \in 1 .. Len(sent'[i]) : sent'[i][j] = c[j + Off(i)]
        /\ Holds(r)' => val'[r] = c[Len(c)]
    <3>1. Len(c) = L + 1 /\ sent'[i] = sent[i]
      BY <1>3
    <3>2. Len(sent'[i]) + (IF Holds(r)' THEN 1 ELSE 0) = IF Len(c) <= Off(i) THEN 0 ELSE Len(c) - Off(i)
      BY <2>5
    <3>3. \A j \in 1 .. Len(sent'[i]) : sent'[i][j] = c[j + Off(i)]
      BY <3>1, <2>4
    <3>4. Holds(r)' => val'[r] = c[Len(c)]
      BY <3>1, <2>6
    <3> QED BY <3>2, <3>3, <3>4
  <2> QED BY <1>1, <2>1, <2>7 DEF SingleOK, c
<1>8. ASSUME Op(i) = "take" PROVE TakeOK(i)'
  <2>1. TakeOK(i) /\ r = <<i, 1>> /\ cnt'[r] = cnt[r] /\ pc'[r] = "send"
    BY <1>2, <1>6, <1>8 DEF StageOK, Single
  <2> QED BY <1>1, <2>1 DEF TakeOK
<1>9. ASSUME Op(i) = "skip" PROVE SkipOK(i)'
  <2>1. cnt'[r] = IF Len(c) <= Off(i) THEN Len(c) ELSE Off(i)
    BY <1>2, <1>3, <1>5, <1>9
  <2>2. pc'[r] # "exit"
    OBVIOUS
  <2> QED BY <1>1, <1>5, <1>9, <2>1, <2>2 DEF SkipOK, c
<1>10. ASSUME Op(i) = "parallel" PROVE ParallelOK(i)'
  <2>1. ParallelOK(i)
    BY <1>10 DEF StageOK
  <2>2. ToSet(c) = ToSet(b) \cup {v}
    BY <1>2, ToSetAppend DEF b, c
  <2>3. /\ Holds(r)' /\ ~Holds(r) /\ val'[r] = v
        /\ \A u \in Relays(i) : u # r => (Holds(u)' <=> Holds(u)) /\ val'[u] = val[u]
    BY <1>4, <1>6, <1>10 DEF Holds
  <2>4. /\ \A x \in 1 .. lines : x \in ToSet(b) <=> 
               \/ x \in ToSet(sent[i]) \/ \E u \in Relays(i) : Holds(u) /\ val[u] = x
        /\ \A u \in Relays(i) : Holds(u) => val[u] \in 1 .. lines /\ val[u] \notin ToSet(sent[i])
        /\ \A u, w \in Relays(i) : Holds(u) /\ Holds(w) /\ val[u] = val[w] => u = w
        /\ \A u \in Relays(i) : pc[u] = "exit" => i - 1 \in closed
        /\ Arg(i) = 0 => sent[i] = << >>
    BY <2>1 DEF ParallelOK, b
  <2>5. v \notin ToSet(b) /\ v \notin ToSet(sent[i]) /\ \A u \in Relays(i) : ~(Holds(u) /\ val[u] = v)
    BY <2>4 DEF b
  <2>6. \A x \in 1 .. lines : x \in ToSet(b) \cup {v} <=>
               \/ x \in ToSet(sent[i]) \/ \E u \in Relays(i) : Holds(u)' /\ val'[u] = x
    <3>1. ASSUME NEW x \in 1 .. lines, x # v
          PROVE  (\E u \in Relays(i) : Holds(u)' /\ val'[u] = x)
                   <=> \E u \in Relays(i) : Holds(u) /\ val[u] = x
      BY <3>1, <2>3
    <3> QED BY <3>1, <2>3, <2>4
  <2>7. \A u \in Relays(i) : Holds(u)' => val'[u] \in 1 .. lines /\ val'[u] \notin ToSet(sent[i])
    BY <2>3, <2>4, <2>5
  <2>8. \A u, w \in Relays(i) : Holds(u)' /\ Holds(w)' /\ val'[u] = val'[w] => u = w
    BY <2>3, <2>4, <2>5
  <2>9. \A u \in Relays(i) : pc'[u] = "exit" => i - 1 \in closed
    BY <1>6, <1>10, <2>4
  <2> QED
    BY <1>1, <2>2, <2>4, <2>6, <2>7, <2>8, <2>9 DEF ParallelOK, c
<1> QED
  BY <1>1, <1>7, <1>8, <1>9, <1>10 DEF StageOK

-----------------------------------------------------------------------------
(* What follows of a stage from what holds of the one before it.           *)

LEMMA DistinctSubset ==
  ASSUME CInv, NEW i \in 1 .. N, StageOK(i), Distinct(i), Op(i) = "parallel"
  PROVE  ToSet(sent[i]) \subseteq ToSet(sent[i - 1])
<1>1. ParallelOK(i) /\ sent[i] \in Seq(Nat)
  BY StageShape DEF StageOK
<1>2. ASSUME NEW x \in ToSet(sent[i]) PROVE x \in ToSet(sent[i - 1])
  <2>1. x \in 1 .. lines
    BY <1>1, ToSetIs DEF Distinct
  <2> QED BY <1>1, <2>1 DEF ParallelOK
<1> QED BY <1>2

MeaningCarries ==
  \A i \in 1 .. N : StageOK(i) /\ Distinct(i) /\ WithinMeaning(i - 1) => WithinMeaning(i)

LEMMA StageMeant == CInv => MeaningCarries
<1> SUFFICES ASSUME CInv, NEW i \in 1 .. N, StageOK(i), Distinct(i), WithinMeaning(i - 1)
             PROVE  WithinMeaning(i)
  BY DEF MeaningCarries
<1> DEFINE a == sent[i]
           b == sent[i - 1]
           m == Meaning[i - 1]
           z == Meaning[i]
<1>1. /\ a \in Seq(Nat) /\ b \in Seq(Nat) /\ Len(a) \in Nat /\ Len(b) \in Nat
      /\ Off(i) \in Nat /\ Arg(i) \in Int /\ Op(i) \in {"take", "skip", "parallel"}
      /\ Op(i) = "parallel" => Arg(i) \in Nat
  BY StageShape
<1>2. /\ Len(m) \in Nat /\ Len(z) \in Nat
      /\ Op(i) = "take" =>
           /\ Len(z) = IF Arg(i) <= 0 THEN 0 ELSE IF Arg(i) < Len(m) THEN Arg(i) ELSE Len(m)
           /\ \A j \in 1 .. Len(z) : z[j] = m[j]
      /\ Op(i) = "skip" =>
           /\ Len(z) = IF Len(m) <= Off(i) THEN 0 ELSE Len(m) - Off(i)
           /\ \A j \in 1 .. Len(z) : z[j] = m[j + Off(i)]
      /\ Op(i) = "parallel" => z = IF Arg(i) = 0 THEN << >> ELSE m
  BY MeaningOf DEF CInv
<1>3. Len(b) <= Len(m) /\ (InOrder => \A j \in 1 .. Len(b) : b[j] = m[j])
  BY DEF WithinMeaning
<1>4. Single(i) => /\ Len(a) <= IF Len(b) <= Off(i) THEN 0 ELSE Len(b) - Off(i)
                   /\ \A j \in 1 .. Len(a) : a[j] = b[j + Off(i)]
  <2>1. Single(i) =>
          /\ Len(a) + (IF Holds(<<i, 1>>) THEN 1 ELSE 0) = IF Len(b) <= Off(i) THEN 0 ELSE Len(b) - Off(i)
          /\ \A j \in 1 .. Len(a) : a[j] = b[j + Off(i)]
    BY DEF StageOK, SingleOK
  <2> HIDE DEF a, b
  <2>2. Single(i) => Len(a) <= IF Len(b) <= Off(i) THEN 0 ELSE Len(b) - Off(i)
    BY <1>1, <2>1
  <2> QED BY <2>1, <2>2
<1>5. Op(i) = "take" => Single(i) /\ Off(i) = 0 /\ (Len(a) = 0 \/ Len(a) <= Arg(i))
  BY DEF StageOK, TakeOK, Single, Off
<1>6. Op(i) = "skip" => Single(i)
  BY DEF Single
<1>7. Op(i) = "parallel" => Off(i) = 0
  BY DEF Off
<1>8. Op(i) = "parallel" => Len(a) <= Len(b)
  <2>1. \A j, k \in 1 .. Len(a) : a[j] = a[k] => j = k
    BY DEF Distinct
  <2>2. Op(i) = "parallel" => ToSet(a) \subseteq ToSet(b)
    BY DistinctSubset
  <2> HIDE DEF a, b
  <2> QED BY <1>1, <2>1, <2>2, NoLonger
<1>9. Op(i) = "parallel" /\ Arg(i) = 0 => a = << >>
  BY DEF StageOK, ParallelOK
<1>10. InOrder /\ Op(i) = "parallel" => Arg(i) = 0 \/ Single(i)
  BY <1>1 DEF InOrder, Single
<1> SUFFICES Len(a) <= Len(z) /\ (InOrder => \A j \in 1 .. Len(a) : a[j] = z[j])
  BY DEF WithinMeaning
<1> HIDE DEF a, b, m, z
<1>11. CASE Op(i) = "take"
  <2>1. Len(a) <= Len(b) /\ \A j \in 1 .. Len(a) : a[j] = b[j]
    BY <1>1, <1>4, <1>5, <1>11
  <2>2. Len(a) <= Len(z)
    BY <1>1, <1>2, <1>3, <1>5, <1>11, <2>1
  <2>3. ASSUME InOrder, NEW j \in 1 .. Len(a) PROVE a[j] = z[j]
    <3>1. j \in 1 .. Len(b) /\ j \in 1 .. Len(z)
      BY <1>1, <1>2, <2>1, <2>2
    <3> QED BY <1>2, <1>3, <1>11, <2>1, <2>3, <3>1
  <2> QED BY <2>2, <2>3
<1>12. CASE Op(i) = "skip"
  <2>1. Len(a) <= Len(z)
    BY <1>1, <1>2, <1>3, <1>4, <1>6, <1>12
  <2>2. ASSUME InOrder, NEW j \in 1 .. Len(a) PROVE a[j] = z[j]
    <3>1. j + Off(i) \in 1 .. Len(b) /\ j \in 1 .. Len(z)
      <4>1. Len(a) <= IF Len(b) <= Off(i) THEN 0 ELSE Len(b) - Off(i)
        BY <1>4, <1>6, <1>12
      <4>2. j \in Nat /\ 1 <= j /\ j <= Len(a)
        BY <1>1
      <4>3. Len(b) > Off(i) /\ Len(a) <= Len(b) - Off(i)
        BY <1>1, <4>1, <4>2
      <4>4. j + Off(i) \in 1 .. Len(b)
        BY <1>1, <4>2, <4>3
      <4>5. j \in 1 .. Len(z)
        BY <1>1, <1>2, <2>1, <4>2
      <4> QED BY <4>4, <4>5
    <3> QED BY <1>2, <1>3, <1>4, <1>6, <1>12, <2>2, <3>1
  <2> QED BY <2>1, <2>2
<1>13. CASE Op(i) = "parallel"
  <2>1. CASE Arg(i) = 0
    <3>1. Len(a) = 0
      BY <1>9, <1>13, <2>1
    <3> QED BY <1>2, <3>1
  <2>2. CASE Arg(i) # 0
    <3>1. z = m /\ Len(a) <= Len(b)
      BY <1>2, <1>8, <1>13, <2>2
    <3>2. ASSUME InOrder, NEW j \in 1 .. Len(a) PROVE a[j] = z[j]
      <4>1. a[j] = b[j]
        BY <1>1, <1>4, <1>7, <1>10, <1>13, <2>2, <3>2
      <4>2. j \in 1 .. Len(b)
        BY <1>1, <3>1
      <4> QED BY <1>3, <3>1, <3>2, <4>1, <4>2
    <3> QED BY <1>1, <1>2, <1>3, <3>1, <3>2
  <2> QED BY <2>1, <2>2
<1> QED BY <1>1, <1>11, <1>12, <1>13

\* A stage whose relays have all left has passed on what it had to.
LEMMA StagePassedOn ==
  ASSUME CInv, NEW i \in 1 .. N, StageOK(i), \A t \in Relays(i) : pc[t] = "exit",
         Distinct(i), Distinct(i - 1)
  PROVE  /\ Op(i) = "take" => sent[i] = sent[i - 1] /\ (Len(sent[i]) >= Arg(i) \/ i - 1 \in closed)
         /\ Op(i) = "skip" => sent[i] = SkipOf(sent[i - 1], Arg(i)) /\ i - 1 \in closed
         /\ Op(i) = "parallel" =>
              /\ ToSet(sent[i]) = ToSet(sent[i - 1])
              /\ Len(sent[i]) = Len(sent[i - 1])
              /\ Arg(i) = 0 \/ i - 1 \in closed
<1> DEFINE a == sent[i]
           b == sent[i - 1]
<1>1. /\ a \in Seq(Nat) /\ b \in Seq(Nat) /\ Len(a) \in Nat /\ Len(b) \in Nat
      /\ Off(i) \in Nat /\ Arg(i) \in Int
      /\ Op(i) = "parallel" => Arg(i) \in Nat
      /\ Single(i) => Relays(i) = {<<i, 1>>}
  BY StageShape
<1>2. Single(i) =>
        /\ Len(a) = IF Len(b) <= Off(i) THEN 0 ELSE Len(b) - Off(i)
        /\ \A j \in 1 .. Len(a) : a[j] = b[j + Off(i)]
  <2>1. Single(i) => SingleOK(i) /\ ~Holds(<<i, 1>>)
    BY <1>1 DEF StageOK, Holds
  <2>2. Single(i) => Len(a) + 0 = (IF Len(b) <= Off(i) THEN 0 ELSE Len(b) - Off(i))
    BY <2>1 DEF SingleOK
  <2>3. Single(i) => \A j \in 1 .. Len(a) : a[j] = b[j + Off(i)]
    BY <2>1 DEF SingleOK
  <2> HIDE DEF a, b
  <2>4. Single(i) => Len(a) = IF Len(b) <= Off(i) THEN 0 ELSE Len(b) - Off(i)
    BY <1>1, <2>2
  <2> QED BY <2>3, <2>4
<1>3. ASSUME Op(i) = "take" PROVE a = b /\ (Len(a) >= Arg(i) \/ i - 1 \in closed)
  <2>1. Single(i) /\ Off(i) = 0 /\ TakeOK(i) /\ pc[<<i, 1>>] = "exit"
    BY <1>1, <1>3 DEF StageOK, Single, Off
  <2>2. Len(a) = Len(b) /\ \A j \in 1 .. Len(a) : a[j] = b[j]
    BY <1>1, <1>2, <2>1
  <2>3. a = b
    <3> HIDE DEF a, b
    <3> QED BY <1>1, <2>2, ST!SeqEqual
  <2>4. Len(a) >= Arg(i) \/ i - 1 \in closed
    BY <2>1 DEF TakeOK
  <2> QED BY <2>3, <2>4
<1>4. ASSUME Op(i) = "skip" PROVE a = SkipOf(b, Arg(i)) /\ i - 1 \in closed
  <2>1. Single(i) /\ SkipOK(i) /\ pc[<<i, 1>>] = "exit" /\ Off(i) = IF Arg(i) > 0 THEN Arg(i) ELSE 0
    BY <1>1, <1>4 DEF StageOK, Single, Off
  <2>2. i - 1 \in closed
    BY <2>1 DEF SkipOK
  <2> HIDE DEF a, b
  <2>3. /\ SkipOf(b, Arg(i)) \in Seq(Nat)
        /\ Len(SkipOf(b, Arg(i))) = IF Len(b) <= Off(i) THEN 0 ELSE Len(b) - Off(i)
        /\ \A j \in 1 .. Len(SkipOf(b, Arg(i))) : SkipOf(b, Arg(i))[j] = b[j + Off(i)]
    BY <1>1, <2>1, SkipOfIs
  <2>4. Len(a) = Len(SkipOf(b, Arg(i))) /\ \A j \in 1 .. Len(a) : a[j] = SkipOf(b, Arg(i))[j]
    BY <1>2, <2>1, <2>3
  <2> QED BY <1>1, <2>2, <2>3, <2>4, ST!SeqEqual
<1>5. ASSUME Op(i) = "parallel"
      PROVE  ToSet(a) = ToSet(b) /\ Len(a) = Len(b) /\ (Arg(i) = 0 \/ i - 1 \in closed)
  <2>1. ParallelOK(i) /\ \A t \in Relays(i) : ~Holds(t)
    BY <1>5 DEF StageOK, Holds
  <2>2. ToSet(a) \subseteq ToSet(b)
    BY <1>5, DistinctSubset
  <2>3. ASSUME NEW x \in ToSet(b) PROVE x \in ToSet(a)
    <3>1. \E j \in 1 .. Len(b) : b[j] = x
      <4> HIDE DEF b
      <4> QED BY <1>1, <2>3, ToSetIs
    <3>2. x \in 1 .. lines
      BY <3>1 DEF Distinct
    <3> QED BY <2>1, <3>2 DEF ParallelOK
  <2>4. /\ \A j, k \in 1 .. Len(a) : a[j] = a[k] => j = k
        /\ \A j, k \in 1 .. Len(b) : b[j] = b[k] => j = k
    BY DEF Distinct
  <2>5. Len(a) <= Len(b) /\ Len(b) <= Len(a)
    <3> HIDE DEF a, b
    <3>1. Len(a) <= Len(b)
      BY <1>1, <2>2, <2>4, NoLonger
    <3>2. Len(b) <= Len(a)
      BY <1>1, <2>3, <2>4, NoLonger
    <3> QED BY <3>1, <3>2
  <2>6. Arg(i) = 0 \/ i - 1 \in closed
    <3>1. Arg(i) # 0 => <<i, 1>> \in Relays(i)
      BY <1>1, <1>5 DEF Relays
    <3> QED BY <2>1, <3>1 DEF ParallelOK
  <2> HIDE DEF a, b
  <2>7. ToSet(a) = ToSet(b)
    BY <2>2, <2>3
  <2>8. Len(a) = Len(b)
    BY <1>1, <2>5
  <2> QED BY <2>6, <2>7, <2>8
<1> QED BY <1>3, <1>4, <1>5

LEMMA StageComplete ==
  ASSUME CInv, NEW i \in 1 .. N, StageOK(i), \A t \in Relays(i) : pc[t] = "exit",
         Distinct(i), Distinct(i - 1), MeantOK(i - 1), WithinMeaning(i)
  PROVE  Len(sent[i]) = Len(Meaning[i])
<1>1. /\ Len(sent[i]) \in Nat /\ Len(sent[i - 1]) \in Nat
      /\ sent[i - 1] \in Seq(Nat)
      /\ Off(i) \in Nat /\ Arg(i) \in Int /\ Op(i) \in {"take", "skip", "parallel"}
      /\ Op(i) = "parallel" => Arg(i) \in Nat
  BY StageShape
<1>2. /\ Len(Meaning[i - 1]) \in Nat /\ Len(Meaning[i]) \in Nat
      /\ Op(i) = "take" =>
            Len(Meaning[i]) = IF Arg(i) <= 0 THEN 0
                              ELSE IF Arg(i) < Len(Meaning[i - 1]) THEN Arg(i) ELSE Len(Meaning[i - 1])
      /\ Op(i) = "skip" =>
           Len(Meaning[i]) = IF Len(Meaning[i - 1]) <= Off(i) THEN 0 ELSE Len(Meaning[i - 1]) - Off(i)
      /\ Op(i) = "parallel" => Meaning[i] = IF Arg(i) = 0 THEN << >> ELSE Meaning[i - 1]
  BY MeaningOf DEF CInv
<1>3. /\ Len(sent[i]) <= Len(Meaning[i]) /\ Len(sent[i - 1]) <= Len(Meaning[i - 1])
      /\ i - 1 \in closed => Len(sent[i - 1]) = Len(Meaning[i - 1])
  BY DEF MeantOK, WithinMeaning
<1>4. CASE Op(i) = "take"
  <2>1. Len(sent[i]) = Len(sent[i - 1]) /\ (Len(sent[i]) >= Arg(i) \/ i - 1 \in closed)
    BY <1>4, StagePassedOn
  <2> QED BY <1>1, <1>2, <1>3, <1>4, <2>1
<1>5. CASE Op(i) = "skip"
  <2>1. sent[i] = SkipOf(sent[i - 1], Arg(i)) /\ i - 1 \in closed
    BY <1>5, StagePassedOn
  <2>2. Off(i) = IF Arg(i) > 0 THEN Arg(i) ELSE 0
    BY <1>5 DEF Off
  <2>3. Len(sent[i]) = IF Len(sent[i - 1]) <= Off(i) THEN 0 ELSE Len(sent[i - 1]) - Off(i)
    BY <1>1, <2>1, <2>2, SkipOfIs
  <2> QED BY <1>2, <1>3, <1>5, <2>1, <2>3
<1>6. CASE Op(i) = "parallel"
  <2>1. Len(sent[i]) = Len(sent[i - 1]) /\ (Arg(i) = 0 \/ i - 1 \in closed)
    BY <1>6, StagePassedOn
  <2>2. CASE Arg(i) = 0
    <3>1. Len(Meaning[i]) = 0
      BY <1>2, <1>6, <2>2
    <3> QED BY <1>1, <1>3, <3>1
  <2>3. CASE Arg(i) # 0
    BY <1>2, <1>3, <1>6, <2>1, <2>3
  <2> QED BY <2>2, <2>3
<1> QED BY <1>1, <1>4, <1>5, <1>6

LEMMA LinesShape ==
  ASSUME CInv
  PROVE  /\ sent[0] \in Seq(Nat) /\ Len(sent[0]) \in Nat /\ lines \in Nat
         /\ <<0, 1>> \in Thread /\ cnt[<<0, 1>>] \in Nat /\ val[<<0, 1>>] \in Nat
         /\ Relays(0) = {<<0, 1>>}
         /\ Len(Meaning[0]) = lines /\ \A j \in 1 .. lines : Meaning[0][j] = j
<1>1. MaxStages \in Nat /\ MaxWorkers \in Nat \ {0} /\ Op(0) = "lines" /\ lines \in Nat
  BY StageTyped, StreamsAssumption DEF CInv, TypeOK
<1>2. sent[0] \in Seq(Nat)
  BY <1>1 DEF CInv, TypeOK
<1>3. <<0, 1>> \in Thread
  BY <1>1 DEF Thread
<1>4. Relays(0) = {<<0, 1>>}
  <2>1. {0} \X (1 .. 1) = {<<0, 1>>}
    OBVIOUS
  <2> QED BY <1>1, <2>1 DEF Relays
<1>5. Meaning[0] = [j \in 1 .. lines |-> j]
  BY MeaningIs DEF CInv
<1>6. Len(Meaning[0]) = lines /\ \A j \in 1 .. lines : Meaning[0][j] = j
  BY <1>1, <1>5
<1>7. Len(sent[0]) \in Nat
  BY <1>2, ST!LenProperties
<1> QED BY <1>1, <1>2, <1>3, <1>4, <1>6, <1>7 DEF CInv, TypeOK

\* The element a relay holds is a line its stage has not sent.
LEMMA HeldIsNew ==
  ASSUME CInv, FlowOK, NEW t \in Thread, Holds(t)
  PROVE  /\ t[1] \in 0 .. N /\ t \in Relays(t[1]) /\ t[1] \notin closed /\ t[1] < built
         /\ val[t] \in 1 .. lines /\ val[t] \notin ToSet(sent[t[1]])
<1> DEFINE i == t[1]
<1>1. i \in 0 .. N /\ t \in Relays(i) /\ i \notin closed /\ i < built
  <2>1. t \in Relays(i) /\ i < built /\ i \in 0 .. MaxStages
    BY ThreadTyped DEF Holds, CInv, CloseOK
  <2>2. i \notin closed
    BY <2>1 DEF Holds, CInv, CloseOK
  <2>3. built \in 0 .. N + 1 /\ N \in Nat /\ MaxStages \in Nat
    BY StageTyped DEF CInv, TypeOK
  <2> HIDE DEF i
  <2> QED BY <2>1, <2>2, <2>3
<1>2. /\ val[t] \in Nat /\ sent[i] \in Seq(Nat)
      /\ \A x : x \in ToSet(sent[i]) <=> \E j \in 1 .. Len(sent[i]) : sent[i][j] = x
  <2>1. i \in 0 .. MaxStages
    BY ThreadTyped
  <2>2. sent[i] \in Seq(Nat)
    BY <2>1 DEF CInv, TypeOK
  <2>3. \A x : x \in ToSet(sent[i]) <=> \E j \in 1 .. Len(sent[i]) : sent[i][j] = x
    <3> HIDE DEF i
    <3> QED BY <2>2, ToSetIs
  <2> QED BY <2>2, <2>3 DEF CInv, TypeOK
<1>3. CASE i = 0
  <2>1. t = <<0, 1>> /\ LinesOK
    BY <1>1, <1>3, LinesShape DEF FlowOK
  <2>2. val[t] = cnt[t] + 1 /\ cnt[t] < lines /\ cnt[t] = Len(sent[0])
        /\ \A j \in 1 .. Len(sent[0]) : sent[0][j] = j
    BY <2>1 DEF LinesOK
  <2>3. cnt[t] \in Nat /\ lines \in Nat
    BY <2>1, LinesShape
  <2> QED BY <1>1, <1>2, <1>3, <2>2, <2>3
<1>4. CASE i # 0
  <2>1. i \in 1 .. N /\ StageOK(i) /\ Distinct(i - 1) /\ i \in Int
    <3>1. i \in 1 .. N /\ i - 1 \in 0 .. N /\ i \in Int
      <4>1. N \in Nat
        BY StageTyped DEF CInv
      <4> HIDE DEF i
      <4> QED BY <1>1, <1>4, <4>1
    <3> HIDE DEF i
    <3> QED BY <3>1 DEF FlowOK
  <2> HIDE DEF i
  <2>2. /\ Len(sent[i]) \in Nat /\ Len(sent[i - 1]) \in Nat /\ Off(i) \in Nat
        /\ ~Single(i) => Op(i) = "parallel"
        /\ Single(i) => t = <<i, 1>>
    BY <1>1, <2>1, StageShape
  <2>3. CASE Single(i)
    <3>1. /\ Len(sent[i]) + 1 = Len(sent[i - 1]) - Off(i)
          /\ val[t] = sent[i - 1][Len(sent[i - 1])]
          /\ \A j \in 1 .. Len(sent[i]) : sent[i][j] = sent[i - 1][j + Off(i)]
      <4>1. SingleOK(i) /\ t = <<i, 1>>
        BY <2>1, <2>2, <2>3 DEF StageOK
      <4>2. /\ Len(sent[i]) + 1 = IF Len(sent[i - 1]) <= Off(i) THEN 0 ELSE Len(sent[i - 1]) - Off(i)
            /\ val[t] = sent[i - 1][Len(sent[i - 1])]
            /\ \A j \in 1 .. Len(sent[i]) : sent[i][j] = sent[i - 1][j + Off(i)]
        BY <4>1 DEF SingleOK
      <4> QED BY <2>2, <4>2
    <3>2. Len(sent[i - 1]) \in 1 .. Len(sent[i - 1])
      BY <2>2, <3>1
    <3>3. val[t] \in 1 .. lines
      BY <2>1, <3>1, <3>2 DEF Distinct
    <3>4. ASSUME NEW j \in 1 .. Len(sent[i]) PROVE sent[i][j] # val[t]
      <4>1. j + Off(i) \in 1 .. Len(sent[i - 1]) /\ j + Off(i) # Len(sent[i - 1])
        BY <2>2, <3>1
      <4> QED BY <2>1, <3>1, <3>2, <4>1 DEF Distinct
    <3> QED BY <1>1, <1>2, <3>3, <3>4 DEF i
  <2>4. CASE ~Single(i)
    <3>1. ParallelOK(i)
      BY <2>1, <2>2, <2>4 DEF StageOK
    <3>2. val[t] \in 1 .. lines /\ val[t] \notin ToSet(sent[i])
      BY <1>1, <3>1 DEF ParallelOK
    <3> QED BY <1>1, <3>2 DEF i
  <2> QED BY <2>3, <2>4
<1> QED BY <1>3, <1>4

-----------------------------------------------------------------------------
(* The steps: first those that transfer no element.                        *)

\* The relay t keeps its element and its counter, waits only when it may
\* receive and leaves only when it is full or its source is closed.
Turns(t) ==
  /\ val'[t] = val[t] /\ cnt'[t] = cnt[t] /\ (pc'[t] = "send" <=> pc[t] = "send")
  /\ pc'[t] = "recv" => pc[t] = "recv" \/ (Op(t[1]) = "take" => cnt[t] < Arg(t[1]))
  /\ pc'[t] = "exit" => \/ pc[t] = "exit" \/ t[1] - 1 \in closed
                        \/ Op(t[1]) = "take" /\ cnt[t] >= Arg(t[1])

LEMMA LinesTurn ==
  ASSUME CInv, FlowOK, UNCHANGED <<given, sent>>, Turns(<<0, 1>>)
  PROVE  LinesOK'
<1> DEFINE t == <<0, 1>>
<1>1. Op(t[1]) = "lines" /\ t[1] - 1 \notin closed
  <2>1. Op(0) = "lines" /\ closed \subseteq 0 .. N /\ N \in Nat
    BY StageTyped DEF CInv, TypeOK
  <2> QED BY <2>1
<1>2. /\ val'[t] = val[t] /\ cnt'[t] = cnt[t] /\ (pc'[t] = "send" <=> pc[t] = "send")
      /\ pc'[t] = "exit" => pc[t] = "exit"
  BY <1>1 DEF Turns
<1>3. lines' = lines /\ LinesOK
  BY SameProgram DEF FlowOK
<1> QED BY <1>2, <1>3 DEF LinesOK, Holds

LEMMA FlowTurns ==
  ASSUME CInv, FlowOK, UNCHANGED <<given, sent>>, closed \subseteq closed',
         \A t \in Thread : t[1] # 0 => Turns(t),
         \A i \in closed' : i \in closed \/ Len(sent[i]) = Len(Meaning[i]),
         LinesOK', FromOK', MainOK'
  PROVE  FlowOK'
<1>1. /\ N' = N /\ Meaning' = Meaning /\ lines' = lines /\ (InOrder <=> InOrder')
  BY SameProgram
<1>2. ASSUME NEW i \in 1 .. N PROVE StageOK(i)'
  <2>1. /\ StageOK(i) /\ Relays(i) \subseteq Thread /\ \A t \in Relays(i) : t[1] = i
        /\ i # 0
    BY StageShape, RelaysTyped DEF FlowOK, CInv
  <2>2. \A t \in Relays(i) : Turns(t) /\ t[1] = i
    BY <2>1
  <2>3. \A t \in Relays(i) :
          /\ val'[t] = val[t] /\ cnt'[t] = cnt[t] /\ (pc'[t] = "send" <=> pc[t] = "send")
          /\ pc'[t] = "recv" => pc[t] = "recv" \/ (Op(i) = "take" => cnt[t] < Arg(i))
          /\ pc'[t] = "exit" => \/ pc[t] = "exit" \/ i - 1 \in closed
                                \/ Op(i) = "take" /\ cnt[t] >= Arg(i)
    BY <2>2 DEF Turns
  <2>4. sent'[i] = sent[i] /\ sent'[i - 1] = sent[i - 1]
    OBVIOUS
  <2> QED BY <2>1, <2>3, <2>4, StageTurns
<1>3. ASSUME NEW i \in 0 .. N PROVE Distinct(i)' /\ MeantOK(i)'
  <2>1. Distinct(i) /\ MeantOK(i)
    BY DEF FlowOK
  <2>2. Distinct(i)'
    BY <1>1, <2>1 DEF Distinct
  <2>3. WithinMeaning(i)'
    BY <1>1, <2>1 DEF MeantOK, WithinMeaning
  <2>4. (i \in closed => Len(sent[i]) = Len(Meaning[i]))'
    BY <1>1, <2>1 DEF MeantOK
  <2> QED BY <2>2, <2>3, <2>4 DEF MeantOK
<1> QED BY <1>1, <1>2, <1>3 DEF FlowOK

LEMMA MainFlow ==
  ASSUME CInv, FlowOK, Build \/ Assign \/ MainEnds \/ UNCHANGED vars
  PROVE  FlowOK'
<1>1. UNCHANGED <<given, val, cnt, from, sent, closed>>
  BY DEF Build, Assign, MainEnds, vars
<1>2. \A t \in Thread : pc'[t] = pc[t] \/ (pc[t] \in {"off", "head"} /\ pc'[t] = "head")
  <2>1. CASE Build
    <3>1. \A t \in Thread : pc'[t] = IF t \in Relays(built) THEN "head" ELSE pc[t]
      BY <2>1 DEF Build
    <3>2. \A t \in Relays(built) : pc[t] = "off"
      <4>1. built \in 0 .. N /\ N \in Nat
        BY <2>1, StageTyped DEF CInv, BuildOK, TypeOK, Build
      <4>2. Relays(built) \subseteq Thread /\ \A t \in Relays(built) : t[1] = built
        BY <4>1, RelaysTyped DEF CInv
      <4>3. ~(built < built)
        BY <4>1
      <4> QED BY <4>2, <4>3 DEF CInv, CloseOK
    <3> QED BY <3>1, <3>2
  <2>2. CASE ~Build
    BY <2>2 DEF Assign, MainEnds, vars
  <2> QED BY <2>1, <2>2
<1>3. \A t \in Thread : Turns(t)
  BY <1>1, <1>2 DEF Turns
<1>4. LinesOK'
  BY <1>1, <1>3, LinesTurn, LinesShape
<1>5. FromOK'
  BY <1>1, <1>2 DEF FlowOK, FromOK
<1>6. MainOK'
  <2>1. main' = "done" => main = "done" \/ N \in closed
    BY DEF Build, Assign, MainEnds, vars
  <2>2. N' = N /\ want' = want
    BY <1>1, SameProgram
  <2> QED BY <1>1, <2>1, <2>2 DEF FlowOK, MainOK, got
<1> QED BY <1>1, <1>3, <1>4, <1>5, <1>6, FlowTurns

\* In a pipeline with sources of its own every relay reads the stage before.
LEMMA OwnSource ==
  ASSUME CInv, OwnSources, NEW t \in Thread, pc[t] = "head", Op(t[1]) # "lines"
  PROVE  t[1] \in 1 .. N /\ Source(t[1]) = t[1] - 1
<1>1. t[1] \in 0 .. MaxStages /\ t[1] < built
  BY ThreadTyped DEF CInv, CloseOK
<1>2. built \in 0 .. N + 1 /\ N \in Nat /\ MaxStages \in Nat /\ Op(0) = "lines"
  BY StageTyped DEF CInv, TypeOK
<1>3. t[1] \in 1 .. N
  <2>1. t[1] # 0
    BY <1>2
  <2>2. \A x \in 0 .. MaxStages : x < built /\ x # 0 => x \in 1 .. N
    BY <1>2
  <2> QED BY <1>1, <2>1, <2>2
<1>4. Rebind => Op(t[1]) = "parallel"
  BY <1>3 DEF OwnSources
<1> QED BY <1>3, <1>4 DEF Source

LEMMA RelayFlow ==
  ASSUME CInv, FlowOK, OwnSources, NEW t \in Thread,
         Read(t) \/ TakeIsFull(t) \/ Receive(t) \/ Drained(t)
  PROVE  FlowOK'
<1>1. /\ UNCHANGED <<given, main, cnt, sent, closed>>
      /\ pc \in [Thread -> {"off", "head", "recv", "send", "exit"}]
      /\ val \in [Thread -> Nat] /\ from \in [Thread -> 0 .. MaxStages]
  BY DEF Read, TakeIsFull, Receive, Drained, CInv, TypeOK
<1>2. \A u \in Thread : u # t => pc'[u] = pc[u] /\ val'[u] = val[u] /\ from'[u] = from[u]
  BY <1>1 DEF Read, TakeIsFull, Receive, Drained, Jump
<1>3. \A u \in Thread : u # t => Turns(u)
  BY <1>1, <1>2 DEF Turns
<1>4. MainOK'
  <2>1. N' = N /\ want' = want
    BY <1>1, SameProgram
  <2> QED BY <1>1, <2>1 DEF FlowOK, MainOK, got
<1>5. <<0, 1>> \in Thread /\ N \in Nat /\ Op(0) = "lines"
  BY LinesShape, StageTyped DEF CInv
<1>6. CASE Read(t)
  <2>1. t = <<0, 1>>
    <3>1. t \in Relays(t[1]) /\ t[1] \in 0 .. MaxStages /\ Op(t[1]) = "lines" /\ t[1] < built
      BY <1>6, ThreadTyped DEF Read, CInv, CloseOK
    <3>2. t[1] = 0
      <4>1. \A i \in 1 .. N : Op(i) # "lines"
        BY StageTyped DEF CInv
      <4>2. built \in 0 .. N + 1 /\ MaxStages \in Nat
        BY StageTyped DEF CInv, TypeOK
      <4>3. \A x \in 0 .. MaxStages : x < built /\ x # 0 => x \in 1 .. N
        BY <1>5, <4>2
      <4> QED BY <3>1, <4>1, <4>3
    <3> QED BY <3>1, <3>2, LinesShape
  <2>2. LinesOK'
    <3>1. LinesOK /\ lines' = lines /\ cnt[t] \in Nat /\ lines \in Nat /\ pc[t] = "head"
      BY <1>1, <1>6, <2>1, SameProgram, LinesShape DEF FlowOK, Read
    <3>2. CASE cnt[t] < lines
      <4>1. pc'[t] = "send" /\ val'[t] = cnt[t] + 1
        BY <1>1, <1>6, <3>2 DEF Read, Jump
      <4> QED BY <1>1, <2>1, <3>1, <3>2, <4>1 DEF LinesOK, Holds
    <3>3. CASE ~(cnt[t] < lines)
      <4>1. pc'[t] = "exit"
        BY <1>1, <1>6, <3>3 DEF Read, Jump
      <4>2. cnt[t] <= lines
        BY <2>1, <3>1 DEF LinesOK
      <4> QED BY <1>1, <2>1, <3>1, <3>3, <4>1, <4>2 DEF LinesOK, Holds
    <3> QED BY <3>2, <3>3
  <2>3. \A u \in Thread : u[1] # 0 => Turns(u)
    BY <1>3, <2>1
  <2>4. pc'[t] # "recv"
    BY <1>1, <1>6 DEF Read, Jump
  <2>5. FromOK'
    BY <1>2, <2>4 DEF FlowOK, FromOK
  <2> QED BY <1>1, <1>4, <2>2, <2>3, <2>5, FlowTurns
<1>7. CASE TakeIsFull(t)
  <2>1. pc[t] = "head" /\ pc'[t] = "exit" /\ val' = val /\ Op(t[1]) = "take" /\ cnt[t] >= Arg(t[1])
    BY <1>1, <1>7 DEF TakeIsFull, Jump
  <2>2. \A u \in Thread : Turns(u)
    BY <1>1, <1>3, <2>1 DEF Turns
  <2>3. FromOK'
    BY <1>2, <2>1 DEF FlowOK, FromOK
  <2> QED BY <1>1, <1>4, <1>5, <2>2, <2>3, LinesTurn, FlowTurns
<1>8. CASE Receive(t)
  <2>1. /\ pc[t] = "head" /\ pc'[t] = "recv" /\ val' = val /\ from'[t] = Source(t[1])
        /\ Op(t[1]) # "lines" /\ (Op(t[1]) = "take" => cnt[t] < Arg(t[1]))
    BY <1>1, <1>8 DEF Receive, Jump
  <2>2. \A u \in Thread : Turns(u)
    BY <1>1, <1>3, <2>1 DEF Turns
  <2>3. t[1] # 0 /\ from'[t] = t[1] - 1
    BY <2>1, OwnSource
  <2>4. FromOK'
    BY <1>2, <2>3 DEF FlowOK, FromOK
  <2> QED BY <1>1, <1>4, <1>5, <2>2, <2>4, LinesTurn, FlowTurns
<1>9. CASE Drained(t)
  <2>1. pc[t] = "recv" /\ pc'[t] = "exit" /\ val' = val /\ from[t] \in closed
    BY <1>1, <1>9 DEF Drained, Jump
  <2>2. t[1] - 1 \in closed
    BY <2>1 DEF FlowOK, FromOK
  <2>3. \A u \in Thread : Turns(u)
    BY <1>1, <1>3, <2>1, <2>2 DEF Turns
  <2>4. FromOK'
    BY <1>2, <2>1 DEF FlowOK, FromOK
  <2> QED BY <1>1, <1>4, <1>5, <2>3, <2>4, LinesTurn, FlowTurns
<1> QED BY <1>6, <1>7, <1>8, <1>9

LEMMA CloseFlow ==
  ASSUME CInv, FlowOK, NEW i \in 0 .. MaxStages, Close(i)
  PROVE  FlowOK'
<1>1. /\ UNCHANGED <<given, main, pc, val, cnt, from, sent>> /\ closed' = closed \cup {i}
      /\ i < built /\ \A t \in Relays(i) : pc[t] = "exit"
  BY DEF Close
<1>2. i \in 0 .. N /\ N \in Nat
  <2>1. built \in 0 .. N + 1 /\ N \in Nat /\ MaxStages \in Nat
    BY StageTyped DEF CInv, TypeOK
  <2> QED BY <1>1, <2>1
<1>3. Len(sent[i]) = Len(Meaning[i])
  <2>1. CASE i = 0
    <3>1. cnt[<<0, 1>>] = Len(sent[0]) /\ cnt[<<0, 1>>] = lines
      BY <1>1, <2>1, LinesShape DEF FlowOK, LinesOK
    <3> QED BY <2>1, <3>1, LinesShape
  <2>2. CASE i # 0
    <3>1. i \in 1 .. N /\ i - 1 \in 0 .. N
      BY <1>2, <2>2
    <3>2. StageOK(i) /\ Distinct(i) /\ Distinct(i - 1) /\ MeantOK(i - 1) /\ WithinMeaning(i)
      BY <1>2, <3>1 DEF FlowOK, MeantOK
    <3> QED BY <1>1, <3>1, <3>2, StageComplete
  <2> QED BY <2>1, <2>2
<1>4. \A t \in Thread : Turns(t)
  BY <1>1 DEF Turns
<1>5. FromOK'
  BY <1>1 DEF FlowOK, FromOK
<1>6. MainOK'
  <2>1. N' = N /\ want' = want
    BY <1>1, SameProgram
  <2> QED BY <1>1, <2>1 DEF FlowOK, MainOK, got
<1>7. LinesOK'
  BY <1>1, <1>4, LinesTurn, LinesShape
<1> QED BY <1>1, <1>3, <1>4, <1>5, <1>6, <1>7, FlowTurns

(* Then those that transfer one, to the next stage or to the consumer. *)

LEMMA FlowSends ==
  ASSUME CInv, CInv', FlowOK, UNCHANGED <<given, closed>>,
         NEW t \in Thread, Holds(t),
         sent' = [sent EXCEPT ![t[1]] = Append(@, val[t])],
         \A i \in 1 .. N : StageOK(i)', LinesOK', FromOK', MainOK'
  PROVE  FlowOK'
<1> DEFINE k == t[1]
<1>1. /\ k \in 0 .. N /\ k \notin closed
      /\ val[t] \in 1 .. lines /\ val[t] \notin ToSet(sent[k])
  BY HeldIsNew
<1>2. /\ N' = N /\ Meaning' = Meaning /\ lines' = lines /\ (InOrder <=> InOrder')
  BY SameProgram
<1>3. sent \in [0 .. MaxStages -> Seq(Nat)] /\ N \in Nat /\ N <= MaxStages /\ lines \in Nat
  BY StageTyped, LinesShape DEF CInv, TypeOK
<1>4. \A i \in 0 .. N : i # k => sent'[i] = sent[i]
  BY <1>3
<1>5. sent'[k] = Append(sent[k], val[t]) /\ sent[k] \in Seq(Nat) /\ val[t] \in Nat
  <2>1. k \in 0 .. MaxStages
    BY ThreadTyped
  <2> QED BY <1>1, <1>3, <2>1
<1> HIDE DEF k
<1>6. /\ Len(sent[k]) \in Nat /\ Len(sent'[k]) = Len(sent[k]) + 1
      /\ \A j \in 1 .. Len(sent[k]) : sent'[k][j] = sent[k][j]
      /\ sent'[k][Len(sent[k]) + 1] = val[t]
      /\ \A j \in 1 .. Len(sent[k]) : sent[k][j] # val[t]
  <2>1. \A j \in 1 .. Len(sent[k]) : sent[k][j] # val[t]
    BY <1>1, <1>5, ToSetIs
  <2> QED BY <1>5, <2>1, ST!AppendProperties, ST!LenProperties
<1>7. ASSUME NEW i \in 0 .. N PROVE Distinct(i)'
  <2>1. Distinct(i)
    BY DEF FlowOK
  <2>2. CASE i # k
    BY <1>2, <1>4, <2>1, <2>2 DEF Distinct
  <2>3. CASE i = k
    <3>1. ASSUME NEW j \in 1 .. Len(sent'[k]) PROVE sent'[k][j] \in 1 .. lines
      <4>1. j \in 1 .. Len(sent[k]) \/ j = Len(sent[k]) + 1
        BY <1>6
      <4> QED BY <1>1, <1>6, <2>1, <2>3, <4>1 DEF Distinct
    <3>2. ASSUME NEW j \in 1 .. Len(sent'[k]), NEW l \in 1 .. Len(sent'[k]), sent'[k][j] = sent'[k][l]
          PROVE  j = l
      <4>1. /\ j \in 1 .. Len(sent[k]) \/ j = Len(sent[k]) + 1
            /\ l \in 1 .. Len(sent[k]) \/ l = Len(sent[k]) + 1
        BY <1>6
      <4>2. \A x, y \in 1 .. Len(sent[k]) : sent[k][x] = sent[k][y] => x = y
        BY <2>1, <2>3 DEF Distinct
      <4> QED BY <1>6, <3>2, <4>1, <4>2
    <3> QED BY <1>2, <2>3, <3>1, <3>2 DEF Distinct
  <2> QED BY <2>2, <2>3
<1>8. ASSUME NEW i \in 0 .. N PROVE MeantOK(i)'
  <2>1. MeantOK(i)
    BY DEF FlowOK
  <2>2. CASE i # k
    <3>1. WithinMeaning(i)'
      BY <1>2, <1>4, <2>1, <2>2 DEF MeantOK, WithinMeaning
    <3>2. (i \in closed => Len(sent[i]) = Len(Meaning[i]))'
      BY <1>2, <1>4, <2>1, <2>2 DEF MeantOK
    <3> QED BY <3>1, <3>2 DEF MeantOK
  <2>3. CASE i = k /\ k = 0
    <3>1. /\ \A j \in 1 .. Len(sent'[0]) : sent'[0][j] = j
          /\ Len(sent'[0]) <= lines
      BY <1>2 DEF LinesOK
    <3>2. /\ Len(Meaning[0]) = lines /\ \A j \in 1 .. lines : Meaning[0][j] = j
      BY LinesShape
    <3>3. \A j \in 1 .. Len(sent'[0]) : j \in 1 .. lines
      BY <1>3, <1>6, <2>3, <3>1
    <3>4. WithinMeaning(0)'
      BY <1>2, <3>1, <3>2, <3>3 DEF WithinMeaning
    <3> QED BY <1>1, <2>3, <3>4 DEF MeantOK
  <2>4. CASE i = k /\ k # 0
    <3>1. i \in 1 .. N /\ i - 1 \in 0 .. N /\ i - 1 # k
      BY <1>1, <1>3, <2>4
    <3>2. WithinMeaning(i - 1)'
      <4>1. WithinMeaning(i - 1) /\ sent'[i - 1] = sent[i - 1]
        BY <1>4, <3>1 DEF FlowOK, MeantOK
      <4> QED BY <1>2, <4>1 DEF WithinMeaning
    <3>3. (CInv => MeaningCarries)'
      BY StageMeant, PTL
    <3>4. StageOK(i)' /\ Distinct(i)'
      BY <1>7, <3>1
    <3>5. i \in (1 .. N)'
      BY <1>2, <3>1
    <3>6. WithinMeaning(i)'
      BY <3>2, <3>3, <3>4, <3>5 DEF MeaningCarries
    <3> QED BY <1>1, <2>4, <3>6 DEF MeantOK
  <2> QED BY <2>2, <2>3, <2>4
<1> QED BY <1>2, <1>7, <1>8 DEF FlowOK

\* The first stage counts the line it sends.
LEMMA LinesSends ==
  ASSUME CInv, FlowOK, UNCHANGED given, Holds(<<0, 1>>),
         sent'[0] = Append(sent[0], val[<<0, 1>>]),
         pc'[<<0, 1>>] = "head", cnt'[<<0, 1>>] = AfterSend(<<0, 1>>)
  PROVE  LinesOK'
<1> DEFINE t == <<0, 1>>
<1>1. /\ sent[0] \in Seq(Nat) /\ Len(sent[0]) \in Nat /\ lines \in Nat
      /\ cnt[t] \in Nat /\ val[t] \in Nat /\ lines' = lines
  BY LinesShape, SameProgram
<1>2. /\ val[t] = cnt[t] + 1 /\ cnt[t] < lines /\ cnt[t] = Len(sent[0])
      /\ \A j \in 1 .. Len(sent[0]) : sent[0][j] = j
  BY DEF FlowOK, LinesOK
<1>3. cnt'[t] = cnt[t] + 1
  <2>1. Op(t[1]) = "lines"
    BY StageTyped DEF CInv
  <2> QED BY <2>1 DEF AfterSend
<1>4. /\ Len(sent'[0]) = Len(sent[0]) + 1
      /\ \A j \in 1 .. Len(sent[0]) : sent'[0][j] = sent[0][j]
      /\ sent'[0][Len(sent[0]) + 1] = val[t]
  BY <1>1, ST!AppendProperties
<1>5. \A j \in 1 .. Len(sent'[0]) : sent'[0][j] = j
  <2>1. \A j \in 1 .. Len(sent[0]) + 1 : j \in 1 .. Len(sent[0]) \/ j = Len(sent[0]) + 1
    BY <1>1
  <2> QED BY <1>2, <1>4, <2>1
<1> QED BY <1>1, <1>2, <1>3, <1>4, <1>5 DEF LinesOK, Holds

\* A step in which t sends, and a relay of the stage after it or the consumer
\* receives: every other stage is left alone.
LEMMA FlowTransfers ==
  ASSUME CInv, FlowOK, UNCHANGED <<given, closed>>, NEW t \in Thread, Holds(t),
         sent' = [sent EXCEPT ![t[1]] = Append(@, val[t])],
         pc'[t] = "head", cnt'[t] = AfterSend(t),
         NEW k \in Int, k # t[1],
         \A u \in Thread : u # t /\ u[1] # k => 
           pc'[u] = pc[u] /\ val'[u] = val[u] /\ cnt'[u] = cnt[u],
         \A u \in Thread : u[1] = t[1] /\ u # t => 
           pc'[u] = pc[u] /\ val'[u] = val[u] /\ cnt'[u] = cnt[u],
         k = t[1] + 1, k \in 1 .. N => StageOK(k)'
  PROVE  LinesOK' /\ \A i \in 1 .. N : StageOK(i)'
<1> DEFINE s == t[1]
<1>1. /\ s \in 0 .. N /\ t \in Relays(s) /\ val[t] \in 1 .. lines
      /\ N \in Nat /\ N <= MaxStages /\ MaxStages \in Nat
      /\ sent \in [0 .. MaxStages -> Seq(Nat)]
  BY HeldIsNew, StageTyped DEF CInv, TypeOK
<1>2. \A i \in 0 .. N : sent'[i] = IF i = s THEN Append(sent[i], val[t]) ELSE sent[i]
  <2>1. 0 .. N \subseteq 0 .. MaxStages
    BY <1>1
  <2> HIDE DEF s
  <2> QED BY <1>1, <2>1 DEF s
<1>3. LinesOK'
  <2>1. CASE s = 0
    <3>1. t = <<0, 1>>
      BY <1>1, <2>1, LinesShape
    <3>2. sent'[0] = Append(sent[0], val[t])
      BY <1>1, <1>2, <2>1
    <3> QED BY <3>1, <3>2, LinesSends
  <2>2. CASE s # 0
    <3>1. <<0, 1>> \in Thread /\ t # <<0, 1>> /\ k # 0
      BY <1>1, <2>2, LinesShape
    <3>2. pc'[<<0, 1>>] = pc[<<0, 1>>] /\ val'[<<0, 1>>] = val[<<0, 1>>] /\ cnt'[<<0, 1>>] = cnt[<<0, 1>>]
      <4>1. <<0, 1>>[1] = 0
        OBVIOUS
      <4> QED BY <3>1, <4>1
    <3>3. sent'[0] = sent[0] /\ lines' = lines
      BY <1>1, <1>2, <2>2, SameProgram
    <3> QED BY <3>2, <3>3 DEF FlowOK, LinesOK, Holds
  <2> QED BY <2>1, <2>2
<1>4. ASSUME NEW i \in 1 .. N PROVE StageOK(i)'
  <2>1. /\ StageOK(i) /\ Relays(i) \subseteq Thread /\ \A u \in Relays(i) : u[1] = i
        /\ i \in 0 .. N /\ i - 1 \in 0 .. N
    BY StageShape, RelaysTyped DEF FlowOK, CInv
  <2>2. CASE i = s
    <3>1. sent'[i] = Append(sent[i], val[t]) /\ sent'[i - 1] = sent[i - 1] /\ t \in Relays(i)
      <4>1. i - 1 # s
        BY <1>1, <2>2
      <4> QED BY <1>1, <1>2, <2>1, <2>2, <4>1
    <3>2. \A u \in Relays(i) : u # t => pc'[u] = pc[u] /\ val'[u] = val[u]
      BY <2>1, <2>2
    <3> QED BY <1>1, <2>1, <3>1, <3>2, StageSends
  <2>3. CASE i = k
    BY <2>3
  <2>4. CASE i # s /\ i # k
    <3>1. sent'[i] = sent[i] /\ sent'[i - 1] = sent[i - 1]
      <4>1. i - 1 # s
        BY <1>1, <2>4
      <4> QED BY <1>2, <2>1, <2>4, <4>1
    <3>2. \A u \in Relays(i) : pc'[u] = pc[u] /\ val'[u] = val[u] /\ cnt'[u] = cnt[u]
      <4>1. t[1] = s
        OBVIOUS
      <4> QED BY <2>1, <2>4, <4>1
    <3> QED BY <2>1, <3>1, <3>2, StageTurns
  <2> QED BY <2>2, <2>3, <2>4
<1> QED BY <1>3, <1>4

LEMMA TransferFlow ==
  ASSUME CInv, CInv', FlowOK, NEW t \in Thread, NEW r \in Thread, Transfer(t, r)
  PROVE  FlowOK'
<1> DEFINE s == t[1]
           k == r[1]
<1>1. /\ UNCHANGED <<given, main, built, stream, from, closed>>
      /\ Holds(t) /\ pc[r] = "recv" /\ from[r] = t[1]
      /\ sent' = [sent EXCEPT ![t[1]] = Append(@, val[t])]
  BY DEF Transfer, Holds
<1>2. t # r /\ k = s + 1 /\ s \in 0 .. N /\ N \in Nat /\ k \in Int
  <2>1. from[r] = r[1] - 1
    BY <1>1 DEF FlowOK, FromOK
  <2>2. r[1] \in 0 .. MaxStages /\ s \in 0 .. N /\ MaxStages \in Nat /\ N \in Nat
    BY <1>1, HeldIsNew, ThreadTyped, StageTyped DEF CInv
  <2>3. pc[t] # pc[r]
    BY <1>1 DEF Holds
  <2> QED BY <1>1, <2>1, <2>2, <2>3
<1>3. /\ pc \in [Thread -> {"off", "head", "recv", "send", "exit"}]
      /\ val \in [Thread -> Nat] /\ cnt \in [Thread -> Nat]
  BY DEF CInv, TypeOK
<1>4. /\ pc'[t] = "head" /\ cnt'[t] = AfterSend(t)
      /\ Skipping(r) => pc'[r] = "head" /\ cnt'[r] = cnt[r] + 1
      /\ ~Skipping(r) => pc'[r] = "send" /\ cnt'[r] = cnt[r] /\ val'[r] = val[t]
      /\ \A u \in Thread : u # t /\ u # r =>
           pc'[u] = pc[u] /\ val'[u] = val[u] /\ cnt'[u] = cnt[u]
  BY <1>2, <1>3 DEF Transfer
<1>5. val'[t] = val[t]
  BY <1>2, <1>3 DEF Transfer
<1>6. k \in 1 .. N /\ r \in Relays(k)
  <2>1. r \in Relays(k) /\ k < built /\ built \in 0 .. N + 1
    BY <1>1 DEF CInv, CloseOK, TypeOK
  <2> HIDE DEF s, k
  <2> QED BY <1>2, <2>1
<1>7. val[t] \in 1 .. lines /\ val[t] \notin ToSet(sent[s])
  BY <1>1, HeldIsNew
<1>8. StageOK(k)'
  <2>1. /\ StageOK(k) /\ Relays(k) \subseteq Thread /\ \A u \in Relays(k) : u[1] = k
        /\ k \in 0 .. N /\ k - 1 = s /\ sent[k] \in Seq(Nat)
    <3>1. k - 1 = s /\ k \in 0 .. N
      BY <1>2, <1>6
    <3> HIDE DEF k, s
    <3> QED BY <1>6, <3>1, StageShape, RelaysTyped DEF FlowOK, CInv
  <2>2. sent'[k - 1] = Append(sent[k - 1], val[t]) /\ sent'[k] = sent[k]
    <3>1. sent \in [0 .. MaxStages -> Seq(Nat)] /\ N <= MaxStages /\ MaxStages \in Nat
      BY StageTyped DEF CInv, TypeOK
    <3>2. k # s /\ k \in 0 .. MaxStages /\ s \in 0 .. MaxStages
      BY <1>2, <1>6, <3>1
    <3> QED BY <1>1, <2>1, <3>1, <3>2
  <2>3. \A u \in Relays(k) : u # r => pc'[u] = pc[u] /\ val'[u] = val[u]
    <3>1. k # s
      BY <1>2
    <3>2. t \notin Relays(k)
      BY <2>1, <3>1
    <3> QED BY <1>4, <2>1, <3>2
  <2>4. \A x \in ToSet(sent[k]) : x \in 1 .. lines
    <3> HIDE DEF k
    <3> QED BY <2>1, ToSetIs DEF FlowOK, Distinct
  <2>5. val[t] \notin ToSet(sent[k - 1])
    BY <1>7, <2>1
  <2> HIDE DEF s, k
  <2> QED BY <1>1, <1>4, <1>6, <1>7, <2>1, <2>2, <2>3, <2>4, <2>5, StageReceives
<1>9. LinesOK' /\ \A i \in 1 .. N : StageOK(i)'
  <2>1. \A u \in Thread : u # t /\ u[1] # k => 
          pc'[u] = pc[u] /\ val'[u] = val[u] /\ cnt'[u] = cnt[u]
    BY <1>4
  <2>2. \A u \in Thread : u[1] = t[1] /\ u # t => 
          pc'[u] = pc[u] /\ val'[u] = val[u] /\ cnt'[u] = cnt[u]
    <3>1. r[1] # t[1]
      BY <1>2
    <3> QED BY <1>4, <3>1
  <2>3. k # t[1] /\ k = t[1] + 1
    BY <1>2
  <2> HIDE DEF k, s
  <2> QED BY <1>1, <1>2, <1>4, <1>8, <2>1, <2>2, <2>3, FlowTransfers
<1>10. FromOK'
  <2>1. \A u \in Thread : pc'[u] = "recv" => pc[u] = "recv"
    BY <1>2, <1>4
  <2> QED BY <1>1, <2>1 DEF FlowOK, FromOK
<1>11. MainOK'
  <2>1. N' = N /\ want' = want
    BY <1>1, SameProgram
  <2>2. sent'[N] = sent[N]
    <3>1. s # N
      BY <1>2, <1>6
    <3>2. sent \in [0 .. MaxStages -> Seq(Nat)] /\ N <= MaxStages /\ MaxStages \in Nat /\ N \in Nat
      BY StageTyped DEF CInv, TypeOK
    <3> QED BY <1>1, <3>1, <3>2
  <2> QED BY <1>1, <2>1, <2>2 DEF FlowOK, MainOK, got
<1> QED BY <1>1, <1>2, <1>9, <1>10, <1>11, FlowSends

LEMMA DeliverFlow ==
  ASSUME CInv, CInv', FlowOK, NEW t \in Thread, Deliver(t)
  PROVE  FlowOK'
<1>1. /\ UNCHANGED <<given, built, stream, val, from, closed>> /\ Holds(t) /\ t[1] = N
      /\ sent' = [sent EXCEPT ![t[1]] = Append(@, val[t])]
      /\ main' = IF Len(sent'[N]) = want THEN "done" ELSE "recv"
  BY DEF Deliver, Holds
<1>2. /\ pc \in [Thread -> {"off", "head", "recv", "send", "exit"}]
      /\ cnt \in [Thread -> Nat] /\ N \in Nat
  BY StageTyped DEF CInv, TypeOK
<1>3. /\ pc'[t] = "head" /\ cnt'[t] = AfterSend(t)
      /\ \A u \in Thread : u # t => pc'[u] = pc[u] /\ val'[u] = val[u] /\ cnt'[u] = cnt[u]
  BY <1>1, <1>2 DEF Deliver, Jump
<1>4. N + 1 \in Int /\ N + 1 # t[1] /\ N + 1 = t[1] + 1 /\ N + 1 \notin 1 .. N
  BY <1>1, <1>2
<1>5. LinesOK' /\ \A i \in 1 .. N : StageOK(i)'
  <2>1. \A u \in Thread : u # t /\ u[1] # N + 1 => 
          pc'[u] = pc[u] /\ val'[u] = val[u] /\ cnt'[u] = cnt[u]
    BY <1>3
  <2>2. \A u \in Thread : u[1] = t[1] /\ u # t => 
          pc'[u] = pc[u] /\ val'[u] = val[u] /\ cnt'[u] = cnt[u]
    BY <1>3
  <2> QED BY <1>1, <1>3, <1>4, <2>1, <2>2, FlowTransfers
<1>6. FromOK'
  <2>1. \A u \in Thread : pc'[u] = "recv" => pc[u] = "recv"
    BY <1>3
  <2> QED BY <1>1, <2>1 DEF FlowOK, FromOK
<1>7. MainOK'
  <2>1. N' = N /\ want' = want
    BY <1>1, SameProgram
  <2> QED BY <1>1, <2>1 DEF MainOK, got
<1> QED BY <1>1, <1>5, <1>6, <1>7, FlowSends

-----------------------------------------------------------------------------
LEMMA InitFInv == Init => FInv
<1> SUFFICES ASSUME Init PROVE FlowOK
  BY DEF FInv
<1>1. CInv
  BY InitCInv
<1>2. /\ N \in Nat /\ N <= MaxStages /\ lines \in Nat
      /\ \A i \in 0 .. N : sent[i] = << >> /\ Len(sent[i]) = 0 /\ i \notin closed
      /\ \A t \in Thread : pc[t] = "off" /\ cnt[t] = 0
      /\ main = "build"
  <2>1. N \in Nat /\ N <= MaxStages /\ MaxStages \in Nat /\ lines \in Nat
    BY <1>1, StageTyped, LinesShape DEF CInv
  <2> QED BY <2>1 DEF Init
<1>3. FromOK /\ LinesOK /\ MainOK
  BY <1>1, <1>2, LinesShape DEF FromOK, LinesOK, MainOK, Holds
<1>4. ASSUME NEW i \in 1 .. N PROVE StageOK(i)
  <2>1. /\ Relays(i) \subseteq Thread /\ Off(i) \in Nat /\ i \in 0 .. N /\ i - 1 \in 0 .. N
        /\ Single(i) => <<i, 1>> \in Thread
    BY <1>1, StageShape
  <2>2. sent[i] = << >> /\ sent[i - 1] = << >> /\ Len(sent[i]) = 0 /\ Len(sent[i - 1]) = 0
    BY <1>2, <2>1
  <2>3. Single(i) => pc[<<i, 1>>] = "off" /\ cnt[<<i, 1>>] = 0
    BY <1>2, <2>1
  <2>4. Single(i) => SingleOK(i)
    BY <2>1, <2>2, <2>3 DEF SingleOK, Holds
  <2>5. Op(i) = "take" => TakeOK(i)
    BY <2>2, <2>3 DEF TakeOK, Single
  <2>6. Op(i) = "skip" => SkipOK(i)
    BY <2>1, <2>2, <2>3 DEF SkipOK, Single
  <2>7. ParallelOK(i)
    BY <1>2, <2>1, <2>2 DEF ParallelOK, Holds
  <2> QED BY <2>4, <2>5, <2>6, <2>7 DEF StageOK
<1>5. ASSUME NEW i \in 0 .. N PROVE Distinct(i) /\ MeantOK(i)
  <2>1. Meaning[i] \in Seq(Nat)
    BY <1>1, MeaningTyped DEF CInv
  <2>2. Len(Meaning[i]) \in Nat
    BY <2>1, ST!LenProperties
  <2> QED BY <1>2, <2>2 DEF Distinct, MeantOK, WithinMeaning
<1> QED BY <1>3, <1>4, <1>5 DEF FlowOK

LEMMA NextFInv == CInv /\ CInv' /\ FInv /\ [Next]_vars => FInv'
<1> SUFFICES ASSUME CInv, CInv', FInv, [Next]_vars, OwnSources' PROVE FlowOK'
  BY DEF FInv
<1>1. UNCHANGED given
  BY DEF Next, Build, Assign, MainEnds, Read, TakeIsFull, Receive, Drained, Deliver,
         Transfer, Close, vars
<1>2. OwnSources /\ FlowOK
  BY <1>1, SameProgram DEF FInv
<1>3. CASE Build \/ Assign \/ MainEnds \/ UNCHANGED vars
  BY <1>2, <1>3, MainFlow
<1>4. ASSUME NEW t \in Thread, Read(t) \/ TakeIsFull(t) \/ Receive(t) \/ Drained(t)
      PROVE  FlowOK'
  BY <1>2, <1>4, RelayFlow
<1>5. ASSUME NEW t \in Thread, NEW r \in Thread, Transfer(t, r)
      PROVE  FlowOK'
  BY <1>2, <1>5, TransferFlow
<1>6. ASSUME NEW t \in Thread, Deliver(t)
      PROVE  FlowOK'
  BY <1>2, <1>6, DeliverFlow
<1>7. ASSUME NEW i \in 0 .. MaxStages, Close(i)
      PROVE  FlowOK'
  BY <1>2, <1>7, CloseFlow
<1> QED
  BY <1>3, <1>4, <1>5, <1>6, <1>7 DEF Next

THEOREM FlowInvariance == Spec => []FInv
  BY InitFInv, NextFInv, CInvariance, PTL DEF Spec

\* Every pipeline in which no take or skip reads a variable assigned again,
\* whatever its stages, its workers and its lines: no line reaches the
\* consumer twice and none is made up, it gets at most as many as the meaning
\* of the pipeline has, and all of them when its loop ends by itself.
THEOREM EveryLineOnce == Spec => [](OwnSources => EachLineOnce)
<1>1. CInv /\ FInv => (OwnSources => EachLineOnce)
  <2> SUFFICES ASSUME CInv, FlowOK PROVE EachLineOnce
    BY DEF FInv
  <2>1. N \in Nat /\ N <= MaxStages /\ MaxStages \in Nat /\ N \in 0 .. N
    BY StageTyped DEF CInv
  <2>2. got \in Seq(Nat) /\ Distinct(N) /\ MeantOK(N) /\ got = sent[N] /\ Expected = Meaning[N]
    BY <2>1 DEF CInv, TypeOK, FlowOK, got, Expected
  <2>3. DOMAIN got = 1 .. Len(got)
    BY <2>2, ST!LenProperties
  <2>4. ToSet(got) \subseteq 1 .. lines
    BY <2>2, ToSetIs DEF Distinct
  <2>5. main = "done" => Len(got) \in {want, Len(Expected)}
    BY <2>2 DEF FlowOK, MainOK, MeantOK
  <2> QED BY <2>2, <2>3, <2>4, <2>5 DEF EachLineOnce, Distinct, MeantOK, WithinMeaning
<1> QED
  BY <1>1, CInvariance, FlowInvariance, PTL

\* Without workers that overtake each other the consumer sees a prefix of the
\* list the pipeline means, and all of it when its loop ends by itself.
THEOREM StreamsMeanLists == Spec => [](OwnSources => ListSemantics)
<1>1. CInv /\ FInv => (OwnSources => ListSemantics)
  <2> SUFFICES ASSUME CInv, FlowOK, InOrder
               PROVE  IsPrefix(got, Expected) /\ (main = "done" => got = Expected \/ Len(got) = want)
    BY DEF FInv, ListSemantics
  <2>1. N \in Nat /\ N <= MaxStages /\ MaxStages \in Nat /\ N \in 0 .. N
    BY StageTyped DEF CInv
  <2>2. got \in Seq(Nat) /\ MeantOK(N) /\ got = sent[N] /\ Expected = Meaning[N]
    BY <2>1 DEF CInv, TypeOK, FlowOK, got, Expected
  <2>3. Expected \in Seq(Nat)
    BY <2>1, <2>2, MeaningTyped DEF CInv
  <2>4. /\ Len(got) \in Nat /\ Len(Expected) \in Nat /\ Len(got) <= Len(Expected)
        /\ \A j \in 1 .. Len(got) : got[j] = Expected[j]
        /\ N \in closed => Len(got) = Len(Expected)
    BY <2>2, <2>3, ST!LenProperties DEF MeantOK, WithinMeaning
  <2> HIDE DEF got, Expected
  <2>5. SubSeq(got, 1, Len(got)) = SubSeq(Expected, 1, Len(got))
    <3> DEFINE n == Len(got)
    <3>1. /\ \A j \in 1 .. n : got[j] \in Nat /\ Expected[j] \in Nat
          /\ n \in Int /\ 1 \in Int
      BY <2>2, <2>3, <2>4, ST!ElementOfSeq
    <3> HIDE DEF n
    <3>2. /\ SubSeq(got, 1, n) \in Seq(Nat)
          /\ Len(SubSeq(got, 1, n)) = IF 1 <= n THEN n - 1 + 1 ELSE 0
          /\ \A j \in 1 .. n - 1 + 1 : SubSeq(got, 1, n)[j] = got[1 + j - 1]
      BY <3>1, ST!SubSeqProperties
    <3>3. /\ SubSeq(Expected, 1, n) \in Seq(Nat)
          /\ Len(SubSeq(Expected, 1, n)) = IF 1 <= n THEN n - 1 + 1 ELSE 0
          /\ \A j \in 1 .. n - 1 + 1 : SubSeq(Expected, 1, n)[j] = Expected[1 + j - 1]
      BY <3>1, ST!SubSeqProperties
    <3>4. \A j \in 1 .. n : SubSeq(got, 1, n)[j] = SubSeq(Expected, 1, n)[j]
      <4>1. \A j \in 1 .. n : got[j] = Expected[j]
        BY <2>4 DEF n
      <4>2. \A j \in 1 .. n : j \in 1 .. n - 1 + 1 /\ 1 + j - 1 = j
        BY <3>1
      <4> QED BY <3>2, <3>3, <4>1, <4>2
    <3>5. n \in Nat
      BY <2>4 DEF n
    <3>6. Len(SubSeq(got, 1, n)) = n /\ Len(SubSeq(Expected, 1, n)) = n
      BY <3>2, <3>3, <3>5
    <3>7. SubSeq(got, 1, n) = SubSeq(Expected, 1, n)
      BY <3>2, <3>3, <3>4, <3>6, ST!SeqEqual
    <3> QED BY <3>7 DEF n
  <2>6. Len(got) = Len(Expected) => got = Expected
    BY <2>2, <2>3, <2>4, ST!SeqEqual
  <2> QED BY <2>4, <2>5, <2>6 DEF IsPrefix, FlowOK, MainOK
<1> QED
  BY <1>1, CInvariance, FlowInvariance, PTL

\* A channel is closed only when its stage has passed on all it ever will of
\* what it received: no worker and no relay holds an element then.
THEOREM ClosedIsComplete == Spec => [](OwnSources => CompleteWhenClosed)
<1>1. CInv /\ FInv => (OwnSources => CompleteWhenClosed)
  <2> SUFFICES ASSUME CInv, FlowOK, NEW i \in closed \ {0}
               PROVE  CASE Op(i) = "take"     -> sent[i] = sent[i - 1]
                        [] Op(i) = "skip"     -> sent[i] = SkipOf(sent[i - 1], Arg(i))
                        [] Op(i) = "parallel" -> ToSet(sent[i]) = ToSet(sent[i - 1])
    BY DEF FInv, CompleteWhenClosed
  <2>1. i \in 1 .. N /\ i - 1 \in 0 .. N /\ i \in 0 .. N
    <3>1. closed \subseteq 0 .. N /\ N \in Nat
      BY StageTyped DEF CInv, TypeOK
    <3> QED BY <3>1
  <2>2. \A t \in Relays(i) : pc[t] = "exit"
    BY DEF CInv, CloseOK
  <2>3. StageOK(i) /\ Distinct(i) /\ Distinct(i - 1)
    BY <2>1 DEF FlowOK
  <2>4. /\ Op(i) = "take" => sent[i] = sent[i - 1]
        /\ Op(i) = "skip" => sent[i] = SkipOf(sent[i - 1], Arg(i))
        /\ Op(i) = "parallel" => ToSet(sent[i]) = ToSet(sent[i - 1])
        /\ Op(i) \in {"take", "skip", "parallel"}
    BY <2>1, <2>2, <2>3, StagePassedOn, StageShape
  <2>5. CASE Op(i) = "take"
    BY <2>4, <2>5
  <2>6. CASE Op(i) = "skip"
    BY <2>4, <2>6
  <2>7. CASE Op(i) = "parallel"
    BY <2>4, <2>7
  <2> QED BY <2>4, <2>5, <2>6, <2>7
<1> QED
  BY <1>1, CInvariance, FlowInvariance, PTL
=============================================================================
