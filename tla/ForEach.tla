------------------------------ MODULE ForEach ------------------------------
(***************************************************************************)
(* What a for loop over a container promises: when the loop starts, the    *)
(* places of the container are put in an order; each is visited once, in   *)
(* that order; the loop is over only when none is left, unless its body    *)
(* breaks off or the next place is no longer there.  A yield collects one  *)
(* element for each visit.                                                 *)
(***************************************************************************)
EXTENDS Naturals, Sequences, Functions

CONSTANTS
  Places,   \* the index positions and keys a container may have
  Most,     \* how many of them, at most
  Values    \* what may be found at a place

VARIABLES
  kind,    \* whether the loop has a body or yields
  phase,   \* between two visits ("top"), during one ("body"), or how it ended
  todo, seen,
  out      \* what was yielded

vars == <<kind, phase, todo, seen, out>>

\* A container holds each place once.
Orders == {o \in UNION {[1 .. n -> Places] : n \in 0 .. Most} : IsInjective(o)}

Init ==
  /\ kind \in {"Body", "Yield"}
  /\ phase = "new" /\ todo = <<>> /\ seen = <<>> /\ out = <<>>

Start ==
  /\ phase = "new" /\ phase' = "top"
  /\ todo' \in Orders
  /\ UNCHANGED <<kind, seen, out>>

Visit ==
  /\ phase = "top" /\ phase' = "body"
  /\ todo # <<>> /\ todo' = Tail(todo)
  /\ \E v \in Values : seen' = Append(seen, [at |-> Head(todo), val |-> v])
  /\ UNCHANGED <<kind, out>>

EndBody ==
  /\ kind = "Body"
  /\ phase = "body" /\ phase' = "top"
  /\ UNCHANGED <<kind, todo, seen, out>>

Yield ==
  /\ kind = "Yield"
  /\ phase = "body" /\ phase' = "top"
  /\ out' = Append(out, seen[Len(seen)].val)
  /\ UNCHANGED <<kind, todo, seen>>

Break ==
  /\ kind = "Body"
  /\ phase = "body" /\ phase' = "left"
  /\ UNCHANGED <<kind, todo, seen, out>>

Finish ==
  /\ phase = "top" /\ phase' = "over"
  /\ todo = <<>>
  /\ UNCHANGED <<kind, todo, seen, out>>

Panic ==
  /\ phase = "top" /\ phase' = "panicked"
  /\ todo # <<>>
  /\ UNCHANGED <<kind, todo, seen, out>>

Next == Start \/ Visit \/ EndBody \/ Yield \/ Break \/ Finish \/ Panic

Spec == Init /\ [][Next]_vars

FairSpec == Spec /\ WF_vars(Next)
=============================================================================
