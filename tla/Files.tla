------------------------------- MODULE Files -------------------------------
(***************************************************************************)
(* Reading through File handles (amiflrt/file.go, codegen/files.go): the   *)
(* buffer a handle creates at its first read, the three reading built-ins  *)
(* and the goroutine behind lines(f).                                      *)
(*                                                                         *)
(* All handles are on one open file of the system, as the handles that     *)
(* several calls of stdin() return; a program with one handle, from open,  *)
(* is a program that leaves the others alone.  A read of the system may    *)
(* return fewer bytes than asked, may fail, and fails after close.         *)
(*                                                                         *)
(* A byte is its position in the file, so that a value says which bytes it *)
(* is made of.  Two goroutines that read through one handle at a time are  *)
(* a data race in Go (reader() and bufio take no lock): the program here   *)
(* leaves the handle it gave to lines alone, except to close it.           *)
(***************************************************************************)
EXTENDS Naturals, Sequences, FiniteSets, SequencesExt

CONSTANTS
  Contents,   \* the files tried: sequences of "x", "\n" and "\r"
  Handles,
  BufSize,    \* the size of a bufio.Reader's buffer
  Sizes,      \* the n tried in read(f, n)
  MaxCalls,   \* bound: calls of the main goroutine
  MaxFaults   \* bound: reads of the system that fail

ASSUME FilesAssumption ==
  /\ Contents \subseteq Seq({"x", "\n", "\r"})
  /\ Handles # {}
  /\ BufSize \in Nat \ {0} /\ Sizes \subseteq Nat

VARIABLES
  content,   \* the bytes of the file
  taken,     \* how many of them the system has handed out
  closed,    \* whether close was called
  faults,    \* how many reads of the system have failed
  made,      \* handle |-> whether FileHandle.r exists
  buf,       \* handle |-> the bytes in its buffer
  pending,   \* handle |-> the error bufio keeps for its next call
  call,      \* actor |-> the built-in it is in
  main,      \* "free", "drain" (for ... in the stream) or "done"
  calls,     \* how many calls main has made
  relay,     \* the goroutine of lines: [pc, handle, line]
  sent,      \* the elements the stream has delivered
  fetched,   \* ghost: handle |-> the bytes the system gave it, in order
  log        \* ghost: handle |-> the calls that returned on it

source == <<content, taken, closed, faults, fetched>>
vars == <<source, made, buf, pending, call, main, calls, relay, sent, log>>

Actors == {"main", "relay"}
NoCall == [op |-> "none", h |-> CHOOSE h \in Handles : TRUE, n |-> 0, got |-> << >>]
Bytes(s) == [i \in DOMAIN s |-> content[s[i]]]
EndsIn(s, c) == s # << >> /\ content[Last(s)] = c
IsNewline(i) == content[i] = "\n"
HasLine(s) == \E i \in DOMAIN s : IsNewline(s[i])
LineEnd(s) == CHOOSE i \in DOMAIN s : IsNewline(s[i]) /\ \A j \in 1 .. (i - 1) : ~IsNewline(s[j])
AtMost(n, s) == SubSeq(s, 1, IF n < Len(s) THEN n ELSE Len(s))
Without(n, s) == SubSeq(s, n + 1, Len(s))

Init ==
  /\ content \in Contents
  /\ taken = 0 /\ closed = FALSE /\ faults = 0
  /\ made = [h \in Handles |-> FALSE]
  /\ buf = [h \in Handles |-> << >>]
  /\ pending = [h \in Handles |-> "none"]
  /\ call = [x \in Actors |-> NoCall]
  /\ main = "free" /\ calls = 0
  /\ relay = [pc |-> "off", handle |-> NoCall.h, line |-> << >>]
  /\ sent = << >>
  /\ fetched = [h \in Handles |-> << >>]
  /\ log = [h \in Handles |-> << >>]

(***************************************************************************)
(* bufio.Reader and os.File                                                *)
(***************************************************************************)

Room(c) == IF c.op = "read" /\ c.n >= BufSize THEN c.n ELSE BufSize - Len(buf[c.h])

\* A call that cannot go on with what the buffer holds asks the system.
Wants(c) ==
  /\ pending[c.h] = "none"
  /\ \/ c.op = "readLine" /\ ~HasLine(buf[c.h]) /\ Len(buf[c.h]) < BufSize
     \/ c.op = "read" /\ c.n > 0 /\ buf[c.h] = << >>
     \/ c.op = "readAll" /\ buf[c.h] = << >>

\* The system's answer: some bytes, the end of the file, or an error.
Fill(x) ==
  LET c == call[x]
  IN /\ Wants(c)
     /\ \/ /\ ~closed /\ taken < Len(content)
           /\ \E k \in 1 .. Room(c) :
                /\ taken + k <= Len(content)
                /\ LET new == [i \in 1 .. k |-> taken + i]
                   IN /\ buf' = [buf EXCEPT ![c.h] = @ \o new]
                      /\ fetched' = [fetched EXCEPT ![c.h] = @ \o new]
                /\ taken' = taken + k
           /\ UNCHANGED <<pending, faults>>
        \/ /\ ~closed /\ taken = Len(content)
           /\ pending' = [pending EXCEPT ![c.h] = "eof"]
           /\ UNCHANGED <<buf, fetched, taken, faults>>
        \/ /\ closed \/ faults < MaxFaults
           /\ pending' = [pending EXCEPT ![c.h] = "error"]
           /\ faults' = IF closed THEN faults ELSE faults + 1
           /\ UNCHANGED <<buf, fetched, taken>>
     /\ UNCHANGED <<content, closed, made, call, main, calls, relay, sent, log>>

\* A full buffer without a line end, or anything readAll finds, moves to what
\* the call has collected so far.
Collect(x) ==
  LET c == call[x]
  IN /\ \/ c.op = "readLine" /\ Len(buf[c.h]) >= BufSize /\ ~HasLine(buf[c.h]) /\ pending[c.h] = "none"
        \/ c.op = "readAll" /\ buf[c.h] # << >>
     /\ call' = [call EXCEPT ![x].got = @ \o buf[c.h]]
     /\ buf' = [buf EXCEPT ![c.h] = << >>]
     /\ UNCHANGED <<source, made, pending, main, calls, relay, sent, log>>

\* When a call can return, the bytes it takes and the error that comes along.
Ready(c) ==
  \/ c.op = "readLine" /\ (HasLine(buf[c.h]) \/ pending[c.h] # "none")
  \/ c.op = "read" /\ (c.n = 0 \/ buf[c.h] # << >> \/ pending[c.h] # "none")
  \/ c.op = "readAll" /\ buf[c.h] = << >> /\ pending[c.h] # "none"

Takes(c) ==
  CASE c.op = "readLine" -> IF HasLine(buf[c.h]) THEN SubSeq(buf[c.h], 1, LineEnd(buf[c.h])) ELSE buf[c.h]
    [] c.op = "read"     -> AtMost(c.n, buf[c.h])
    [] OTHER             -> << >>

ErrorWith(c) ==
  IF (c.op = "readLine" /\ HasLine(buf[c.h])) \/ (c.op = "read" /\ buf[c.h] # << >>)
  THEN "none" ELSE pending[c.h]

(***************************************************************************)
(* amiflrt/file.go                                                         *)
(***************************************************************************)

TrimSuffix(s, c) == IF EndsIn(s, c) THEN Front(s) ELSE s

\* Mutation: io.EOF is an error like any other.
ReadLineFileStrict(line, err) ==
  IF err # "none" THEN [value |-> << >>, err |-> err]
  ELSE [value |-> TrimSuffix(TrimSuffix(line, "\n"), "\r"), err |-> "none"]

ReadLineFile(line, err) ==
  IF err = "error" THEN [value |-> << >>, err |-> err]
  ELSE IF err = "eof" /\ line = << >> THEN [value |-> << >>, err |-> "eof"]
  ELSE [value |-> TrimSuffix(TrimSuffix(line, "\n"), "\r"), err |-> "none"]

ReadFile(bytes, err) == [value |-> bytes, err |-> err]

\* io.ReadAll: the end of the file is no error.
ReadAllFile(bytes, err) == [value |-> bytes, err |-> IF err = "eof" THEN "none" ELSE err]

Result(c) ==
  LET bytes == c.got \o Takes(c)
  IN CASE c.op = "readLine" -> ReadLineFile(bytes, ErrorWith(c))
       [] c.op = "read"     -> ReadFile(bytes, ErrorWith(c))
       [] OTHER             -> ReadAllFile(bytes, ErrorWith(c))

\* Mutation: every call makes a reader of its own.
ReaderAlways(h) == buf' = [buf EXCEPT ![h] = << >>] /\ made' = [made EXCEPT ![h] = TRUE]

\* reader(): the buffer is made once.
Reader(h) ==
  /\ buf' = IF made[h] THEN buf ELSE [buf EXCEPT ![h] = << >>]
  /\ made' = [made EXCEPT ![h] = TRUE]

Enter(x, op, h, n) ==
  /\ call[x].op = "none"
  /\ Reader(h)
  /\ call' = [call EXCEPT ![x] = [op |-> op, h |-> h, n |-> n, got |-> << >>]]
  /\ UNCHANGED <<source, pending, sent, log>>

\* What a return leaves in the handle.
Leave(x) ==
  LET c == call[x]
      k == Len(Takes(c))
  IN /\ Ready(c)
     /\ buf' = [buf EXCEPT ![c.h] = Without(k, @)]
     /\ pending' = IF ErrorWith(c) = "none" THEN pending ELSE [pending EXCEPT ![c.h] = "none"]
     /\ call' = [call EXCEPT ![x] = NoCall]
     /\ log' = [log EXCEPT ![c.h] = Append(@, [by |-> x, op |-> c.op, n |-> c.n, used |-> c.got \o Takes(c),
                                              value |-> Result(c).value, err |-> Result(c).err])]
     /\ UNCHANGED <<source, made, sent>>

(***************************************************************************)
(* The main goroutine                                                      *)
(***************************************************************************)

Free == main = "free" /\ call["main"].op = "none" /\ calls < MaxCalls

\* The program does not read through the handle that lines reads through.
Mine(h) == relay.pc \in {"off", "closed"} \/ relay.handle # h

Begin ==
  /\ Free
  /\ \E h \in Handles :
       /\ Mine(h)
       /\ \/ Enter("main", "readLine", h, 0)
          \/ \E n \in Sizes : Enter("main", "read", h, n)
          \/ Enter("main", "readAll", h, 0)
  /\ calls' = calls + 1
  /\ UNCHANGED <<main, relay>>

Return == Leave("main") /\ UNCHANGED <<main, calls, relay>>

CloseFile ==
  /\ Free /\ ~closed
  /\ closed' = TRUE
  /\ calls' = calls + 1
  /\ UNCHANGED <<content, taken, faults, fetched, made, buf, pending, call, main, relay, sent, log>>

\* genLinesValue: make the stream and spawn its relay.  The relay reads the
\* token of f at every line; when it is a variable, the program here does not
\* assign it while the relay runs, which would be a data race.
Lines ==
  /\ Free /\ relay.pc = "off"
  /\ \E h \in Handles : relay' = [relay EXCEPT !.pc = "loop", !.handle = h]
  /\ calls' = calls + 1
  /\ UNCHANGED <<source, made, buf, pending, call, main, sent, log>>

\* for line in s, or collect(s), as the last thing the program does.
Drain ==
  /\ main = "free" /\ call["main"].op = "none" /\ relay.pc # "off"
  /\ main' = "drain"
  /\ UNCHANGED <<source, made, buf, pending, call, calls, relay, sent, log>>

Finish ==
  /\ main = "drain" /\ relay.pc = "closed"
  /\ main' = "done"
  /\ UNCHANGED <<source, made, buf, pending, call, calls, relay, sent, log>>

(***************************************************************************)
(* The relay of lines                                                      *)
(***************************************************************************)

RelayCalls ==
  /\ relay.pc = "loop"
  /\ Enter("relay", "readLine", relay.handle, 0)
  /\ relay' = [relay EXCEPT !.pc = "read"]
  /\ UNCHANGED <<main, calls>>

\* Mutation: only the end of the file ends the loop.
AfterLineEofOnly(r) == IF r.err = "eof" THEN [relay EXCEPT !.pc = "stop"]
                       ELSE [relay EXCEPT !.pc = "send", !.line = r.value]

\* The first error of any kind ends the loop.
AfterLine(r) == IF r.err # "none" THEN [relay EXCEPT !.pc = "stop"]
                ELSE [relay EXCEPT !.pc = "send", !.line = r.value]

RelayReturns ==
  /\ relay.pc = "read"
  /\ Leave("relay")
  /\ relay' = AfterLine(Result(call["relay"]))
  /\ UNCHANGED <<main, calls>>

\* The stream is unbuffered: CHSEND and the receive of the loop are one step.
Transfer ==
  /\ relay.pc = "send" /\ main = "drain"
  /\ sent' = Append(sent, relay.line)
  /\ relay' = [relay EXCEPT !.pc = "loop"]
  /\ UNCHANGED <<source, made, buf, pending, call, main, calls, log>>

\* Mutation: the closure has no DEFER ?close.
RelayClosesNoDefer ==
  /\ relay.pc = "stop"
  /\ relay' = [relay EXCEPT !.pc = "ended"]
  /\ UNCHANGED <<source, made, buf, pending, call, main, calls, sent, log>>

\* DEFER ?close
RelayCloses ==
  /\ relay.pc = "stop"
  /\ relay' = [relay EXCEPT !.pc = "closed"]
  /\ UNCHANGED <<source, made, buf, pending, call, main, calls, sent, log>>

Next ==
  \/ Begin \/ Return \/ CloseFile \/ Lines \/ Drain \/ Finish
  \/ \E x \in Actors : Fill(x) \/ Collect(x)
  \/ RelayCalls \/ RelayReturns \/ Transfer \/ RelayCloses

\* Goroutines are scheduled and reads of the system return; that the program
\* makes another call, or drains its stream, is not assumed.
Fairness ==
  /\ WF_vars(Fill("relay") \/ Collect("relay"))
  /\ WF_vars(RelayCalls) /\ WF_vars(RelayReturns) /\ WF_vars(RelayCloses)
  /\ WF_vars(Transfer) /\ WF_vars(Finish)

Spec == Init /\ [][Next]_vars /\ Fairness

(***************************************************************************)
(* Properties                                                              *)
(***************************************************************************)

\* The terminators a line may have; the longest that fits is taken off.  (A
\* last line without "\n" loses a final "\r" as well.)
Terminators == {<< >>, <<"\n">>, <<"\r">>, <<"\r", "\n">>}

IsLineOf(value, used) ==
  \E t \in Terminators :
    /\ Bytes(used) = Bytes(value) \o t
    /\ \A s \in Terminators : IsSuffix(s, Bytes(used)) => Len(s) <= Len(t)

Collected(h) == LET cs == {x \in Actors : call[x].op # "none" /\ call[x].h = h}
                IN IF cs = {} THEN << >> ELSE call[CHOOSE x \in cs : TRUE].got

\* What a handle got from the system is what its calls used, in order and
\* with nothing left out, and then what it still holds.
NothingLost ==
  \A h \in Handles :
    FlattenSeq([i \in DOMAIN log[h] |-> log[h][i].used]) \o Collected(h) \o buf[h] = fetched[h]

\* Every result is the next piece of the file that the built-in promises: a
\* whole line without its terminator, at most n bytes, all the rest; the end
\* is reported only at the end; a readLine that fails drops no complete line
\* (ReadLineFile, ReadFile, ReadAllFile).
CallsReturnWhatIsNext ==
  \A h \in Handles : \A i \in DOMAIN log[h] :
    LET e == log[h][i]
        before == \A j \in DOMAIN e.used : j < Len(e.used) => ~IsNewline(e.used[j])
        end == taken = Len(content)
    IN CASE e.op = "readLine" /\ e.err = "none" ->
              /\ before /\ IsLineOf(e.value, e.used)
              /\ EndsIn(e.used, "\n") \/ (end /\ e.used # << >>)
         [] e.op = "readLine" /\ e.err = "eof" -> end /\ e.used = << >>
         [] e.op = "readLine" /\ e.err = "error" -> ~HasLine(e.used)
         [] e.op = "read" -> /\ e.value = e.used /\ Len(e.used) <= e.n
                             /\ (e.used = << >> /\ e.err = "none") => e.n = 0
         [] OTHER -> e.value = e.used /\ (e.err = "none" => end)

\* What the relay got from its successful calls, in the log of a handle.
Relayed(l) ==
  LET got[i \in 0 .. Len(l)] ==
        IF i = 0 THEN << >>
        ELSE IF l[i].by = "relay" /\ l[i].err = "none" THEN Append(got[i - 1], l[i].value)
        ELSE got[i - 1]
  IN got[Len(l)]

\* The stream of lines delivers the lines the relay read, each once and in
\* order; when the end of the file ends it, it has delivered every line its
\* handle could get (genLinesValue).
StreamIsTheLines ==
  relay.pc # "off" =>
    LET l == log[relay.handle]
    IN /\ Relayed(l) = IF relay.pc = "send" THEN Append(sent, relay.line) ELSE sent
       /\ (\E e \in ToSet(l) : e.by = "relay" /\ e.err = "eof") =>
            taken = Len(content) /\ NothingLost

\* A loop over lines(f) ends: with the file, with the first error, or when
\* the file is closed under it.
DrainEnds == main = "drain" ~> main = "done"
=============================================================================
