---------------------------- MODULE ScopesProofs ----------------------------
(***************************************************************************)
(* What the counters of Scopes say of the stack of blocks, for every depth *)
(* of nesting and every number of blocks and names.                        *)
(*                                                                         *)
(* A block remembers the counters it was entered with, so DepthAt and      *)
(* RetAt, the counters with the p-th block innermost, can be read off the  *)
(* stack s and the counters loops and ret.  The invariant relates them to  *)
(* the blocks up to p, for every p and not only for the innermost: that is *)
(* what a block that is left needs.                                        *)
(***************************************************************************)
EXTENDS Scopes, FiniteSetTheorems, WellFoundedInduction, TLAPS

Block == [kind : Kinds, id : Nat, saved : [loops : Nat, ret : Nat]]
Barrier == GoFunc \cup {"yield"}

DepthAt(s, loops, p) == IF p = Len(s) THEN loops ELSE s[p + 1].saved.loops
RetAt(s, ret, p)     == IF p = Len(s) THEN ret ELSE s[p + 1].saved.ret

\* No block of one of these kinds among those after the q-th, up to the p-th.
Clear(s, q, p, kinds) == \A i \in q + 1 .. p : s[i].kind \notin kinds

Shape(s, loops, ret) ==
  /\ s \in Seq(Block) /\ Len(s) > 0
  /\ \A p \in 1 .. Len(s) : s[p].kind = "func" <=> p = 1
  /\ loops \in Nat /\ ret \in Nat

\* What entering a block does to the counters.
LoopsIn(kind, loops) ==
  IF kind \in LoopBody THEN loops + 1 ELSE IF kind \in Barrier THEN 0 ELSE loops
RetIn(kind, id, ret) == IF kind \in GoFunc THEN id ELSE ret

Counted(s, loops, ret) ==
  \A p \in 1 .. Len(s) :
    /\ DepthAt(s, loops, p) = LoopsIn(s[p].kind, s[p].saved.loops)
    /\ RetAt(s, ret, p) = RetIn(s[p].kind, s[p].id, s[p].saved.ret)

\* A positive counter has a loop body behind it, and that body or the loop of
\* a condition inside it is the innermost loop of the emitted code.
Behind(s, p) ==
  \E q \in 1 .. p : \E l \in q .. p :
    /\ s[q].kind \in LoopBody /\ Clear(s, q, p, LoopBody \cup Barrier)
    /\ s[l].kind \in GoLoop /\ Clear(s, l, p, GoLoop)
LoopBehind(s, loops) ==
  \A p \in 1 .. Len(s) : DepthAt(s, loops, p) > 0 => Behind(s, p)

LoopAhead(s, loops) ==
  \A p \in 1 .. Len(s) : \A q \in 1 .. p :
    s[q].kind \in LoopBody /\ Clear(s, q, p, Barrier) => DepthAt(s, loops, p) > 0

Owner(s, ret, p) ==
  \E q \in 1 .. p :
    s[q].kind \in GoFunc /\ Clear(s, q, p, GoFunc) /\ s[q].id = RetAt(s, ret, p)
Owned(s, ret) == \A p \in 1 .. Len(s) : Owner(s, ret, p)

StackInv(s, loops, ret) ==
  /\ Shape(s, loops, ret) /\ Counted(s, loops, ret)
  /\ LoopBehind(s, loops) /\ LoopAhead(s, loops) /\ Owned(s, ret)

-----------------------------------------------------------------------------
(* The three things that happen to the stack.                              *)

\* A block is entered: its counters follow from those around it.
LEMMA Pushed ==
  ASSUME NEW s, NEW loops, NEW ret, StackInv(s, loops, ret),
         NEW kind \in Kinds \ {"func"}, NEW id \in Nat
  PROVE  StackInv(Append(s, [kind |-> kind, id |-> id,
                             saved |-> [loops |-> loops, ret |-> ret]]),
                  LoopsIn(kind, loops), RetIn(kind, id, ret))
<1> DEFINE b == [kind |-> kind, id |-> id, saved |-> [loops |-> loops, ret |-> ret]]
           t == Append(s, b)
           n == Len(s)
           m == n + 1
           loops2 == LoopsIn(kind, loops)
           ret2 == RetIn(kind, id, ret)
<1>1. /\ s \in Seq(Block) /\ n \in Nat /\ n > 0 /\ loops \in Nat /\ ret \in Nat
      /\ \A p \in 1 .. n : s[p].kind = "func" <=> p = 1
  BY DEF StackInv, Shape
<1>2. b \in Block /\ b.kind = kind /\ b.id = id /\ b.saved.loops = loops /\ b.saved.ret = ret
  BY <1>1 DEF Block
<1>3. t \in Seq(Block) /\ Len(t) = m /\ t[m] = b /\ \A p \in 1 .. n : t[p] = s[p]
  BY <1>1, <1>2
<1>4. loops2 \in Nat /\ ret2 \in Nat
  BY <1>1 DEF LoopsIn, RetIn
<1> HIDE DEF b, t, n
<1>5. ASSUME NEW p \in 1 .. n
      PROVE  DepthAt(t, loops2, p) = DepthAt(s, loops, p) /\ RetAt(t, ret2, p) = RetAt(s, ret, p)
  <2>1. CASE p = n
    BY <1>1, <1>2, <1>3, <2>1 DEF DepthAt, RetAt, n
  <2>2. CASE p # n
    BY <1>1, <1>3, <2>2 DEF DepthAt, RetAt, n
  <2> QED BY <2>1, <2>2
<1>6. DepthAt(t, loops2, m) = loops2 /\ RetAt(t, ret2, m) = ret2
  BY <1>3 DEF DepthAt, RetAt
<1>7. ASSUME NEW p \in 1 .. n, NEW q \in 1 .. p, NEW kinds
      PROVE  Clear(t, q, p, kinds) <=> Clear(s, q, p, kinds)
  BY <1>1, <1>3 DEF Clear
<1>8. ASSUME NEW q \in 1 .. n, NEW kinds
      PROVE  Clear(t, q, m, kinds) <=> Clear(s, q, n, kinds) /\ kind \notin kinds
  <2>1. q + 1 .. m = (q + 1 .. n) \cup {m}
    BY <1>1
  <2> QED BY <1>1, <1>2, <1>3, <2>1 DEF Clear
<1>9. 1 .. m = (1 .. n) \cup {m} /\ \A p \in 1 .. n : p # m
  BY <1>1
<1>10. \A kinds : Clear(t, m, m, kinds)
  BY <1>1 DEF Clear
<1>11. n \in 1 .. n /\ DepthAt(s, loops, n) = loops /\ RetAt(s, ret, n) = ret
  BY <1>1 DEF DepthAt, RetAt, n
<1>12. Shape(t, loops2, ret2)
  BY <1>1, <1>2, <1>3, <1>4, <1>9 DEF Shape
<1>13. Counted(t, loops2, ret2)
  <2>1. ASSUME NEW p \in 1 .. n
        PROVE  /\ DepthAt(t, loops2, p) = LoopsIn(t[p].kind, t[p].saved.loops)
               /\ RetAt(t, ret2, p) = RetIn(t[p].kind, t[p].id, t[p].saved.ret)
    BY <1>3, <1>5 DEF StackInv, Counted, n
  <2>2. /\ DepthAt(t, loops2, m) = LoopsIn(t[m].kind, t[m].saved.loops)
        /\ RetAt(t, ret2, m) = RetIn(t[m].kind, t[m].id, t[m].saved.ret)
    BY <1>2, <1>3, <1>6
  <2> QED BY <1>3, <1>9, <2>1, <2>2 DEF Counted
<1>14. LoopBehind(t, loops2)
  <2>1. ASSUME NEW p \in 1 .. n, DepthAt(t, loops2, p) > 0 PROVE Behind(t, p)
    <3>1. Behind(s, p)
      BY <1>5, <2>1 DEF StackInv, LoopBehind, n
    <3>2. PICK q \in 1 .. p, l \in 1 .. p :
             /\ l \in q .. p
             /\ s[q].kind \in LoopBody /\ Clear(s, q, p, LoopBody \cup Barrier)
             /\ s[l].kind \in GoLoop /\ Clear(s, l, p, GoLoop)
      BY <3>1 DEF Behind
    <3>3. q \in 1 .. n /\ l \in 1 .. n /\ l \in 1 .. p
      BY <1>1
    <3>4. /\ t[q].kind \in LoopBody /\ Clear(t, q, p, LoopBody \cup Barrier)
          /\ t[l].kind \in GoLoop /\ Clear(t, l, p, GoLoop)
      BY <1>3, <1>7, <3>2, <3>3
    <3> QED BY <3>2, <3>4 DEF Behind
  <2>2. ASSUME DepthAt(t, loops2, m) > 0 PROVE Behind(t, m)
    <3>1. CASE kind \in LoopBody
      <4>1. /\ t[m].kind \in LoopBody /\ t[m].kind \in GoLoop
            /\ m \in 1 .. m /\ m \in m .. m
        BY <1>1, <1>2, <1>3, <3>1 DEF LoopBody, GoLoop
      <4> QED BY <1>10, <4>1 DEF Behind
    <3>2. CASE kind \notin LoopBody
      <4>1. kind \notin Barrier /\ loops > 0
        BY <1>1, <1>6, <2>2, <3>2 DEF LoopsIn
      <4>2. Behind(s, n)
        BY <1>11, <4>1 DEF StackInv, LoopBehind, n
      <4>3. PICK q \in 1 .. n, l \in 1 .. n :
               /\ l \in q .. n
               /\ s[q].kind \in LoopBody /\ Clear(s, q, n, LoopBody \cup Barrier)
               /\ s[l].kind \in GoLoop /\ Clear(s, l, n, GoLoop)
        BY <4>2 DEF Behind
      <4>4. q \in 1 .. m /\ l \in 1 .. n /\ l \in q .. m /\ m \in q .. m
        BY <1>1, <4>3
      <4>5. t[q].kind \in LoopBody /\ Clear(t, q, m, LoopBody \cup Barrier)
        BY <1>3, <1>8, <3>2, <4>1, <4>3
      <4>6. CASE kind \in GoLoop
        BY <1>2, <1>3, <1>10, <4>4, <4>5, <4>6 DEF Behind
      <4>7. CASE kind \notin GoLoop
        <5>1. t[l].kind \in GoLoop /\ Clear(t, l, m, GoLoop)
          BY <1>3, <1>8, <4>3, <4>4, <4>7
        <5> QED BY <4>4, <4>5, <5>1 DEF Behind
      <4> QED BY <4>6, <4>7
    <3> QED BY <3>1, <3>2
  <2> QED BY <1>3, <1>9, <2>1, <2>2 DEF LoopBehind
<1>15. LoopAhead(t, loops2)
  <2>1. ASSUME NEW p \in 1 .. n, NEW q \in 1 .. p,
               t[q].kind \in LoopBody, Clear(t, q, p, Barrier)
        PROVE  DepthAt(t, loops2, p) > 0
    <3>1. q \in 1 .. n
      BY <1>1
    <3>2. s[q].kind \in LoopBody /\ Clear(s, q, p, Barrier)
      BY <1>3, <1>7, <2>1, <3>1
    <3> QED BY <1>5, <3>2 DEF StackInv, LoopAhead, n
  <2>2. ASSUME NEW q \in 1 .. m, t[q].kind \in LoopBody, Clear(t, q, m, Barrier)
        PROVE  DepthAt(t, loops2, m) > 0
    <3>1. CASE kind \in LoopBody
      BY <1>1, <1>6, <3>1 DEF LoopsIn
    <3>2. CASE kind \notin LoopBody
      <4>1. q \in 1 .. n
        BY <1>2, <1>3, <1>9, <2>2, <3>2
      <4>2. s[q].kind \in LoopBody /\ Clear(s, q, n, Barrier) /\ kind \notin Barrier
        BY <1>3, <1>8, <2>2, <4>1
      <4>3. loops > 0
        BY <1>11, <4>1, <4>2 DEF StackInv, LoopAhead, n
      <4> QED BY <1>6, <3>2, <4>2, <4>3 DEF LoopsIn
    <3> QED BY <3>1, <3>2
  <2> QED BY <1>3, <1>9, <2>1, <2>2 DEF LoopAhead
<1>16. Owned(t, ret2)
  <2>1. ASSUME NEW p \in 1 .. n PROVE Owner(t, ret2, p)
    <3>1. PICK q \in 1 .. p :
            s[q].kind \in GoFunc /\ Clear(s, q, p, GoFunc) /\ s[q].id = RetAt(s, ret, p)
      BY DEF StackInv, Owned, Owner, n
    <3>2. q \in 1 .. n
      BY <1>1
    <3> QED BY <1>3, <1>5, <1>7, <3>1, <3>2 DEF Owner
  <2>2. Owner(t, ret2, m)
    <3>1. CASE kind \in GoFunc
      <4>1. m \in 1 .. m
        BY <1>1
      <4> QED BY <1>2, <1>3, <1>6, <1>10, <3>1, <4>1 DEF Owner, RetIn
    <3>2. CASE kind \notin GoFunc
      <4>1. PICK q \in 1 .. n :
              s[q].kind \in GoFunc /\ Clear(s, q, n, GoFunc) /\ s[q].id = ret
        BY <1>11 DEF StackInv, Owned, Owner, n
      <4>2. q \in 1 .. m
        BY <1>9
      <4> QED BY <1>3, <1>6, <1>8, <3>2, <4>1, <4>2 DEF Owner, RetIn
    <3> QED BY <3>1, <3>2
  <2> QED BY <1>3, <1>9, <2>1, <2>2 DEF Owned
<1> QED BY <1>12, <1>13, <1>14, <1>15, <1>16 DEF StackInv, t, b

\* A block is left: what remains is the stack before it was entered, with the
\* counters it was entered with.
LEMMA Popped ==
  ASSUME NEW s, NEW loops, NEW ret, StackInv(s, loops, ret), Len(s) > 1
  PROVE  StackInv(Front(s), s[Len(s)].saved.loops, s[Len(s)].saved.ret)
<1> DEFINE t == Front(s)
           m == Len(s)
           n == m - 1
           loops2 == s[m].saved.loops
           ret2 == s[m].saved.ret
<1>1. /\ s \in Seq(Block) /\ m \in Nat /\ n \in Nat /\ n > 0
      /\ \A p \in 1 .. m : s[p].kind = "func" <=> p = 1
  BY DEF StackInv, Shape
<1>2. m \in 1 .. m /\ \A p \in 1 .. n : p \in 1 .. m /\ p # m
  BY <1>1
<1>3. t \in Seq(Block) /\ Len(t) = n /\ \A p \in 1 .. n : t[p] = s[p]
  BY <1>1 DEF Front
<1>4. loops2 \in Nat /\ ret2 \in Nat
  <2>1. s[m] \in Block
    BY <1>1, <1>2
  <2> QED BY <2>1 DEF Block
<1> HIDE DEF t, m
<1>5. ASSUME NEW p \in 1 .. n
      PROVE  DepthAt(t, loops2, p) = DepthAt(s, loops, p) /\ RetAt(t, ret2, p) = RetAt(s, ret, p)
  <2>1. CASE p = n
    BY <1>1, <1>3, <2>1 DEF DepthAt, RetAt, m
  <2>2. CASE p # n
    <3>1. p + 1 \in 1 .. n
      BY <1>1, <2>2
    <3> QED BY <1>1, <1>2, <1>3, <2>2, <3>1 DEF DepthAt, RetAt, m
  <2> QED BY <2>1, <2>2
<1>6. ASSUME NEW p \in 1 .. n, NEW q \in 1 .. p, NEW kinds
      PROVE  Clear(t, q, p, kinds) <=> Clear(s, q, p, kinds)
  BY <1>1, <1>3 DEF Clear
<1>7. Shape(t, loops2, ret2)
  BY <1>1, <1>2, <1>3, <1>4 DEF Shape
<1>8. Counted(t, loops2, ret2)
  BY <1>2, <1>3, <1>5 DEF StackInv, Counted, m
<1>9. LoopBehind(t, loops2)
  <2> SUFFICES ASSUME NEW p \in 1 .. n, DepthAt(t, loops2, p) > 0 PROVE Behind(t, p)
    BY <1>3 DEF LoopBehind
  <2>1. Behind(s, p)
    BY <1>2, <1>5 DEF StackInv, LoopBehind, m
  <2>2. PICK q \in 1 .. p, l \in 1 .. p :
          /\ l \in q .. p
          /\ s[q].kind \in LoopBody /\ Clear(s, q, p, LoopBody \cup Barrier)
          /\ s[l].kind \in GoLoop /\ Clear(s, l, p, GoLoop)
    BY <1>1, <2>1 DEF Behind
  <2>3. q \in 1 .. n /\ l \in 1 .. n
    BY <1>1
  <2> QED BY <1>3, <1>6, <2>2, <2>3 DEF Behind
<1>10. LoopAhead(t, loops2)
  <2> SUFFICES ASSUME NEW p \in 1 .. n, NEW q \in 1 .. p,
                      t[q].kind \in LoopBody, Clear(t, q, p, Barrier)
               PROVE  DepthAt(t, loops2, p) > 0
    BY <1>3 DEF LoopAhead
  <2>1. q \in 1 .. n
    BY <1>1
  <2> QED BY <1>2, <1>3, <1>5, <1>6, <2>1 DEF StackInv, LoopAhead, m
<1>11. Owned(t, ret2)
  <2> SUFFICES ASSUME NEW p \in 1 .. n PROVE Owner(t, ret2, p)
    BY <1>3 DEF Owned
  <2>1. PICK q \in 1 .. p :
          s[q].kind \in GoFunc /\ Clear(s, q, p, GoFunc) /\ s[q].id = RetAt(s, ret, p)
    BY <1>2 DEF StackInv, Owned, Owner, m
  <2>2. q \in 1 .. n
    BY <1>1
  <2> QED BY <1>3, <1>5, <1>6, <2>1, <2>2 DEF Owner
<1> QED BY <1>7, <1>8, <1>9, <1>10, <1>11 DEF StackInv, t, m

\* The condition of a while is over and its body begins.
LEMMA Entered ==
  ASSUME NEW s, NEW loops, NEW ret, StackInv(s, loops, ret), s[Len(s)].kind = "cond"
  PROVE  StackInv([s EXCEPT ![Len(s)].kind = "while"], loops + 1, ret)
<1> DEFINE m == Len(s)
           t == [s EXCEPT ![m].kind = "while"]
<1>1. /\ s \in Seq(Block) /\ m \in Nat /\ m > 0 /\ loops \in Nat /\ ret \in Nat
      /\ \A p \in 1 .. m : s[p].kind = "func" <=> p = 1
  BY DEF StackInv, Shape
<1>2. m \in 1 .. m /\ s[m] \in Block
  BY <1>1
<1>3. /\ t \in Seq(Block) /\ Len(t) = m /\ t[m].kind = "while"
      /\ t[m].id = s[m].id /\ t[m].saved = s[m].saved
      /\ \A p \in 1 .. m : p # m => t[p] = s[p]
  <2>1. [s[m] EXCEPT !.kind = "while"] \in Block
    BY <1>2 DEF Block, Kinds
  <2>2. t = [s EXCEPT ![m] = [s[m] EXCEPT !.kind = "while"]]
    BY <1>1, <1>2
  <2> QED BY <1>1, <1>2, <2>1, <2>2 DEF Block
<1> HIDE DEF t, m
<1>4. ASSUME NEW p \in 1 .. m, p # m
      PROVE  DepthAt(t, loops + 1, p) = DepthAt(s, loops, p)
  <2>1. p + 1 \in 1 .. m
    BY <1>1, <1>4
  <2>2. t[p + 1].saved = s[p + 1].saved
    BY <1>3, <2>1
  <2> QED BY <1>3, <1>4, <2>2 DEF DepthAt, m
<1>5. DepthAt(t, loops + 1, m) = loops + 1 /\ DepthAt(s, loops, m) = loops
  BY <1>3 DEF DepthAt, m
<1>6. ASSUME NEW p \in 1 .. m PROVE RetAt(t, ret, p) = RetAt(s, ret, p)
  <2>1. CASE p = m
    BY <1>3, <2>1 DEF RetAt, m
  <2>2. CASE p # m
    <3>1. p + 1 \in 1 .. m
      BY <1>1, <2>2
    <3>2. t[p + 1].saved = s[p + 1].saved
      BY <1>3, <3>1
    <3> QED BY <1>3, <2>2, <3>2 DEF RetAt, m
  <2> QED BY <2>1, <2>2
<1>7. ASSUME NEW p \in 1 .. m, p # m, NEW q \in 1 .. p, NEW kinds
      PROVE  Clear(t, q, p, kinds) <=> Clear(s, q, p, kinds)
  BY <1>1, <1>3, <1>7 DEF Clear
<1>8. s[m].kind = "cond"
  BY DEF m
<1>9. Shape(t, loops + 1, ret)
  BY <1>1, <1>2, <1>3, <1>8 DEF Shape
<1>10. Counted(t, loops + 1, ret)
  <2> SUFFICES ASSUME NEW p \in 1 .. m
               PROVE  /\ DepthAt(t, loops + 1, p) = LoopsIn(t[p].kind, t[p].saved.loops)
                      /\ RetAt(t, ret, p) = RetIn(t[p].kind, t[p].id, t[p].saved.ret)
    BY <1>3 DEF Counted
  <2>1. /\ DepthAt(s, loops, p) = LoopsIn(s[p].kind, s[p].saved.loops)
        /\ RetAt(s, ret, p) = RetIn(s[p].kind, s[p].id, s[p].saved.ret)
    BY DEF StackInv, Counted, m
  <2>2. CASE p = m
    BY <1>3, <1>5, <1>6, <1>8, <2>1, <2>2 DEF LoopsIn, RetIn, LoopBody, Barrier, GoFunc
  <2>3. CASE p # m
    BY <1>3, <1>4, <1>6, <2>1, <2>3
  <2> QED BY <2>2, <2>3
<1>11. LoopBehind(t, loops + 1)
  <2> SUFFICES ASSUME NEW p \in 1 .. m, DepthAt(t, loops + 1, p) > 0 PROVE Behind(t, p)
    BY <1>3 DEF LoopBehind
  <2>1. CASE p = m
    <3>1. m \in m .. m /\ \A kinds : Clear(t, m, m, kinds)
      BY <1>1 DEF Clear
    <3> QED BY <1>2, <1>3, <2>1, <3>1 DEF Behind, LoopBody, GoLoop
  <2>2. CASE p # m
    <3>1. Behind(s, p)
      BY <1>4, <2>2 DEF StackInv, LoopBehind, m
    <3>2. PICK q \in 1 .. p, l \in 1 .. p :
            /\ l \in q .. p
            /\ s[q].kind \in LoopBody /\ Clear(s, q, p, LoopBody \cup Barrier)
            /\ s[l].kind \in GoLoop /\ Clear(s, l, p, GoLoop)
      BY <1>1, <3>1 DEF Behind
    <3>3. q \in 1 .. m /\ l \in 1 .. m /\ q # m /\ l # m
      BY <1>1, <2>2
    <3> QED BY <1>3, <1>7, <2>2, <3>2, <3>3 DEF Behind
  <2> QED BY <2>1, <2>2
<1>12. LoopAhead(t, loops + 1)
  <2> SUFFICES ASSUME NEW p \in 1 .. m, NEW q \in 1 .. p,
                      t[q].kind \in LoopBody, Clear(t, q, p, Barrier)
               PROVE  DepthAt(t, loops + 1, p) > 0
    BY <1>3 DEF LoopAhead
  <2>1. CASE p = m
    BY <1>1, <1>5, <2>1
  <2>2. CASE p # m
    <3>1. q \in 1 .. m /\ q # m
      BY <1>1, <2>2
    <3> QED BY <1>3, <1>4, <1>7, <2>2, <3>1 DEF StackInv, LoopAhead, m
  <2> QED BY <2>1, <2>2
<1>13. Owned(t, ret)
  <2> SUFFICES ASSUME NEW p \in 1 .. m PROVE Owner(t, ret, p)
    BY <1>3 DEF Owned
  <2>1. PICK q \in 1 .. p :
          s[q].kind \in GoFunc /\ Clear(s, q, p, GoFunc) /\ s[q].id = RetAt(s, ret, p)
    BY DEF StackInv, Owned, Owner, m
  <2>2. q \in 1 .. m /\ q # m
    BY <1>1, <1>8, <2>1 DEF GoFunc
  <2>3. Clear(t, q, p, GoFunc)
    BY <1>1, <1>3, <2>1 DEF Clear, GoFunc
  <2> QED BY <1>3, <1>6, <2>1, <2>2, <2>3 DEF Owner
<1> QED BY <1>9, <1>10, <1>11, <1>12, <1>13 DEF StackInv, t, m

-----------------------------------------------------------------------------
(* The stack in the behaviours of Scopes.                                  *)

Inv == entered \in Nat /\ StackInv(open, loopDepth, retType)

stackVars == <<open, loopDepth, retType, entered>>

LEMMA InitInv == Init => Inv
<1> SUFFICES ASSUME Init PROVE Inv
  OBVIOUS
<1> DEFINE b == [kind |-> "func", id |-> 0, saved |-> [loops |-> 0, ret |-> 0]]
<1>1. open = <<b>> /\ loopDepth = 0 /\ retType = 0 /\ entered = 0
  BY DEF Init
<1>2. b \in Block
  BY DEF Block, Kinds
<1>3. /\ open \in Seq(Block) /\ Len(open) = 1 /\ open[1].kind = "func"
      /\ open[1].id = 0 /\ open[1].saved.loops = 0 /\ open[1].saved.ret = 0
  BY <1>1, <1>2
<1>4. Shape(open, 0, 0)
  BY <1>3 DEF Shape
<1>5. DepthAt(open, 0, 1) = 0 /\ RetAt(open, 0, 1) = 0
  BY <1>3 DEF DepthAt, RetAt
<1>6. Counted(open, 0, 0)
  BY <1>3, <1>5 DEF Counted, LoopsIn, RetIn, LoopBody, Barrier, GoFunc
<1>7. LoopBehind(open, 0)
  BY <1>3, <1>5 DEF LoopBehind
<1>8. LoopAhead(open, 0)
  BY <1>3 DEF LoopAhead, LoopBody
<1>9. Owned(open, 0)
  <2>1. 1 \in 1 .. 1 /\ Clear(open, 1, 1, GoFunc)
    BY DEF Clear
  <2> QED BY <1>3, <1>5, <2>1 DEF Owned, Owner, GoFunc
<1> QED BY <1>1, <1>4, <1>6, <1>7, <1>8, <1>9 DEF Inv, StackInv

\* Push and the counters it is used with.
LEMMA PushInv ==
  ASSUME Inv, NEW kind \in Kinds \ {"func"}, Push(kind),
         loopDepth' = LoopsIn(kind, loopDepth), retType' = RetIn(kind, entered + 1, retType)
  PROVE  Inv'
<1>1. entered + 1 \in Nat
  BY DEF Inv
<1>2. StackInv(open', loopDepth', retType')
  BY <1>1, Pushed DEF Inv, Push
<1> QED BY <1>1, <1>2 DEF Inv, Push

LEMMA OpenScopeInv ==
  ASSUME Inv, NEW kind \in Kinds \ {"func", "while", "cond"}, NEW ds, NEW closures, NEW seq,
         OpenScope(kind, ds, LoopsIn(kind, loopDepth), closures, seq)
  PROVE  Inv'
<1>1. CASE Declarable(Scope0, ds)
  <2>1. retType' = RetIn(kind, entered + 1, retType)
    BY <1>1 DEF OpenScope, RetIn, GoFunc, Kinds
  <2> QED BY <1>1, <2>1, PushInv DEF OpenScope
<1>2. CASE ~Declarable(Scope0, ds)
  BY <1>2 DEF OpenScope, Refuse, Inv
<1> QED BY <1>1, <1>2

LEMMA PopInv ==
  ASSUME Inv, NEW kinds, "func" \notin kinds, Pop(kinds),
         loopDepth' = Top.saved.loops, retType' = Top.saved.ret
  PROVE  Inv'
<1>1. open \in Seq(Block) /\ Len(open) > 0 /\ Top.kind # "func"
  BY DEF Inv, StackInv, Shape, Pop
<1>2. Len(open) > 1
  BY <1>1 DEF Inv, StackInv, Shape, Top
<1>3. StackInv(Front(open), Top.saved.loops, Top.saved.ret)
  BY <1>2, Popped DEF Inv, Top
<1> QED BY <1>3 DEF Inv, Pop

\* The counters of the innermost block, as Counted gives them.
LEMMA TopCounted ==
  ASSUME Inv
  PROVE  /\ loopDepth = LoopsIn(Top.kind, Top.saved.loops) /\ retType = RetIn(Top.kind, Top.id, Top.saved.ret)
         /\ loopDepth \in Nat /\ Top.saved.loops \in Nat
<1>1. open \in Seq(Block) /\ Len(open) \in 1 .. Len(open)
  BY DEF Inv, StackInv, Shape
<1>2. Top \in Block
  BY <1>1 DEF Top
<1> QED BY <1>1, <1>2 DEF Inv, StackInv, Shape, Counted, DepthAt, RetAt, Top, Block

LEMMA NextInv == Inv /\ [Next]_vars => Inv'
<1> SUFFICES ASSUME Inv, [Next]_vars PROVE Inv'
  OBVIOUS
<1>1. CASE UNCHANGED stackVars
  BY <1>1 DEF Inv, stackVars
<1>2. CASE Let
  <2>1. UNCHANGED stackVars
    BY <1>2 DEF Let, Declare, Refuse, stackVars
  <2> QED BY <1>1, <2>1
<1>3. CASE Const
  <2>1. UNCHANGED stackVars
    BY <1>3 DEF Const, Declare, Refuse, stackVars
  <2> QED BY <1>1, <2>1
<1>4. CASE OpenBranch
  <2>1. PICK names \in NameLists :
          OpenScope("branch", Fresh(names), loopDepth, closureDepth, declSeq + Len(names))
    BY <1>4 DEF OpenBranch
  <2>2. LoopsIn("branch", loopDepth) = loopDepth
    BY DEF LoopsIn, LoopBody, Barrier, GoFunc
  <2> QED BY <2>1, <2>2, OpenScopeInv DEF Kinds
<1>5. CASE OpenWhile
  BY <1>5, PushInv DEF OpenWhile, LoopsIn, RetIn, LoopBody, Barrier, GoFunc, Kinds
<1>6. CASE OpenBody
  <2>1. StackInv([open EXCEPT ![Len(open)].kind = "while"], loopDepth + 1, retType)
    BY <1>6, Entered DEF OpenBody, Top, Inv
  <2> QED BY <1>6, <2>1 DEF OpenBody, Inv
<1>7. CASE OpenFor
  <2>1. PICK names \in NameLists :
          OpenScope("for", Fresh(names), loopDepth + 1, closureDepth, declSeq + Len(names))
    BY <1>7 DEF OpenFor
  <2>2. LoopsIn("for", loopDepth) = loopDepth + 1
    BY DEF LoopsIn, LoopBody
  <2> QED BY <2>1, <2>2, OpenScopeInv DEF Kinds
<1>8. CASE OpenYield
  <2>1. PICK n \in Names : OpenScope("yield", Fresh(<<n>>), 0, closureDepth, declSeq + 1)
    BY <1>8 DEF OpenYield
  <2>2. LoopsIn("yield", loopDepth) = 0
    BY DEF LoopsIn, LoopBody, Barrier, GoFunc
  <2> QED BY <2>1, <2>2, OpenScopeInv DEF Kinds
<1>9. CASE OpenClosure
  <2>1. PICK names \in NameLists :
          OpenScope("closure", ClosureParams(names), 0, closureDepth + 1, declSeq)
    BY <1>9 DEF OpenClosure
  <2>2. LoopsIn("closure", loopDepth) = 0
    BY DEF LoopsIn, LoopBody, Barrier, GoFunc
  <2> QED BY <2>1, <2>2, OpenScopeInv DEF Kinds
<1>10. CASE CloseBranch
  BY <1>10, TopCounted, PopInv
     DEF CloseBranch, Pop, LoopsIn, RetIn, LoopBody, Barrier, GoFunc
<1>11. CASE CloseLoop
  <2>1. Pop({"while", "for"}) /\ Top.kind \in LoopBody /\ Top.kind \notin GoFunc
    BY <1>11 DEF CloseLoop, Pop, LoopBody, GoFunc
  <2>2. loopDepth' = Top.saved.loops
    BY <1>11, <2>1, TopCounted DEF CloseLoop, LoopsIn
  <2>3. retType' = Top.saved.ret
    BY <1>11, <2>1, TopCounted DEF CloseLoop, RetIn
  <2> QED BY <2>1, <2>2, <2>3, PopInv
<1>12. CASE CloseYield
  BY <1>12, TopCounted, PopInv DEF CloseYield, Pop, RetIn, GoFunc
<1>13. CASE CloseClosure
  BY <1>13, PopInv DEF CloseClosure
<1>14. CASE CloseFunc
  BY <1>1, <1>14 DEF CloseFunc, stackVars
<1>15. CASE Break
  BY <1>1, <1>15 DEF Break, Refuse, stackVars
<1>16. CASE Stopped \/ UNCHANGED vars
  BY <1>1, <1>16 DEF Stopped, vars, stackVars
<1> QED BY <1>2, <1>3, <1>4, <1>5, <1>6, <1>7, <1>8, <1>9, <1>10, <1>11, <1>12,
           <1>13, <1>14, <1>15, <1>16 DEF Next

THEOREM StackHolds == Spec => []Inv
<1>1. Init => Inv
  BY InitInv
<1>2. Inv /\ [Next]_vars => Inv'
  BY NextInv
<1> QED BY <1>1, <1>2, PTL DEF Spec

-----------------------------------------------------------------------------
(* What follows for break, return and their loops and functions.           *)

LEMMA CountsLoops == Inv => BreakNeedsLoop
<1> SUFFICES ASSUME Inv PROVE BreakNeedsLoop
  OBVIOUS
<1> DEFINE m == Len(open)
<1>1. open \in Seq(Block) /\ m \in Nat /\ m \in 1 .. m /\ DOMAIN open = 1 .. m
      /\ DepthAt(open, loopDepth, m) = loopDepth
  BY DEF Inv, StackInv, Shape, DepthAt
<1>2. ASSUME NEW p \in 1 .. m, NEW kinds
      PROVE  NoneAfter(p, kinds) <=> Clear(open, p, m, kinds)
  BY <1>1 DEF NoneAfter, Clear
<1>3. ASSUME loopDepth > 0
      PROVE  \E p \in DOMAIN open : open[p].kind \in LoopBody /\ NoneAfter(p, GoFunc \cup {"yield"})
  <2>1. PICK q \in 1 .. m :
          open[q].kind \in LoopBody /\ Clear(open, q, m, LoopBody \cup Barrier)
    BY <1>1, <1>3 DEF Inv, StackInv, LoopBehind, Behind
  <2>2. Clear(open, q, m, Barrier)
    BY <2>1 DEF Clear
  <2> QED BY <1>1, <1>2, <2>1, <2>2 DEF Barrier
<1>4. ASSUME NEW p \in DOMAIN open, open[p].kind \in LoopBody, NoneAfter(p, GoFunc \cup {"yield"})
      PROVE  loopDepth > 0
  BY <1>1, <1>2, <1>4 DEF Inv, StackInv, LoopAhead, Barrier
<1> QED BY <1>3, <1>4 DEF BreakNeedsLoop

\* break is accepted exactly inside the body of a loop, at every depth of
\* nesting (resolveBreakExpr, resolveContinueExpr).
THEOREM BreakNeedsLoopHolds == Spec => []BreakNeedsLoop
BY StackHolds, CountsLoops, PTL

LEMMA Answers == Inv => ReturnsToOwner
<1> SUFFICES ASSUME Inv PROVE ReturnsToOwner
  OBVIOUS
<1> DEFINE m == Len(open)
<1>1. open \in Seq(Block) /\ m \in Nat /\ m \in 1 .. m /\ DOMAIN open = 1 .. m
      /\ RetAt(open, retType, m) = retType
  BY DEF Inv, StackInv, Shape, RetAt
<1>2. PICK q \in 1 .. m :
        open[q].kind \in GoFunc /\ Clear(open, q, m, GoFunc) /\ open[q].id = retType
  BY <1>1 DEF Inv, StackInv, Owned, Owner
<1> QED BY <1>1, <1>2 DEF ReturnsToOwner, Innermost, NoneAfter, Clear

\* return and ? are checked against the innermost function around them
\* (resolveClosureLit saves and restores retType).
THEOREM ReturnsToOwnerHolds == Spec => []ReturnsToOwner
BY StackHolds, Answers, PTL

LEMMA BreakLands ==
  ASSUME Inv, loopDepth # 0
  PROVE  /\ BodyOfBreak # {}
         /\ \E l \in LoopOfBreak : l.kind = "cond" \/ l.id \in BodyOfBreak
<1> DEFINE m == Len(open)
<1>1. open \in Seq(Block) /\ m \in Nat /\ m \in 1 .. m /\ DOMAIN open = 1 .. m
      /\ DepthAt(open, loopDepth, m) = loopDepth /\ loopDepth > 0
  BY DEF Inv, StackInv, Shape, DepthAt
<1>2. PICK q \in 1 .. m, l \in 1 .. m :
        /\ l \in q .. m
        /\ open[q].kind \in LoopBody /\ Clear(open, q, m, LoopBody \cup Barrier)
        /\ open[l].kind \in GoLoop /\ Clear(open, l, m, GoLoop)
  <2>1. Behind(open, m)
    BY <1>1 DEF Inv, StackInv, LoopBehind
  <2> HIDE DEF m
  <2> QED BY <1>1, <2>1 DEF Behind
<1>3. StandsIn(q)
  BY <1>1, <1>2 DEF StandsIn, Innermost, NoneAfter, Clear, Barrier
<1>4. Lands(l)
  BY <1>1, <1>2 DEF Lands, Innermost, NoneAfter, Clear, Barrier
<1>5. open[q].id \in BodyOfBreak /\ open[l] \in LoopOfBreak
  BY <1>1, <1>3, <1>4 DEF BodyOfBreak, LoopOfBreak
<1>6. open[l].kind = "cond" \/ open[l].id \in BodyOfBreak
  <2>1. CASE l = q
    BY <1>5, <2>1
  <2>2. CASE l # q
    <3>1. l \in q + 1 .. m
      BY <1>1, <1>2, <2>2
    <3> QED BY <1>2, <3>1 DEF Clear, LoopBody, GoLoop, Barrier
  <2> QED BY <2>1, <2>2
<1> QED BY <1>5, <1>6

\* An accepted break leaves the loop in whose body it stands, or one whose
\* condition it is evaluated for (genWhileStmt, genForListStmt, genForYieldValue).
THEOREM JumpsStayInLoopHolds == Spec => []JumpsStayInLoop
<1>1. Init => JumpsStayInLoop
  BY DEF Init, JumpsStayInLoop
<1>2. Inv /\ JumpsStayInLoop /\ [Next]_vars => JumpsStayInLoop'
  <2> SUFFICES ASSUME Inv, JumpsStayInLoop, [Next]_vars PROVE JumpsStayInLoop'
    OBVIOUS
  <2>1. CASE UNCHANGED jump
    BY <2>1 DEF JumpsStayInLoop
  <2>2. CASE Break
    <3>1. CASE loopDepth = 0
      BY <2>1, <2>2, <3>1 DEF Break, Refuse
    <3>2. CASE loopDepth # 0
      BY <2>2, <3>2, BreakLands DEF Break, JumpsStayInLoop
    <3> QED BY <3>1, <3>2
  <2>3. CASE ~Break
    <3>1. UNCHANGED jump
      BY <2>3 DEF Next, vars, Let, Const, Declare, Refuse, OpenBranch, OpenWhile, OpenBody,
                  OpenFor, OpenYield, OpenClosure, OpenScope, CloseBranch, CloseLoop,
                  CloseYield, CloseClosure, Pop, CloseFunc, Stopped
    <3> QED BY <2>1, <3>1
  <2> QED BY <2>2, <2>3
<1> QED BY <1>1, <1>2, StackHolds, PTL DEF Spec

-----------------------------------------------------------------------------
(* The numbers of the variables.                                           *)

\* Every number in use was handed out by the counter of the function.
Numbered ==
  /\ declSeq \in Nat
  /\ \A d \in log : d.decl.token.class = "%" => d.decl.token.n \in 1 .. declSeq

Unique == Numbered /\ TokensUnique

\* The lists of names are sequences of them.
LEMMA NameListsAreLists ==
  ASSUME NEW names \in NameLists
  PROVE  names \in Seq(Names)
<1>1. CASE names = <<>>
  BY <1>1
<1>2. CASE names \in {<<n>> : n \in Names}
  <2>1. PICK n \in Names : names = <<n>>
    BY <1>2
  <2> QED BY <2>1
<1>3. CASE names \in {<<n, m>> : n \in Names, m \in Names}
  <2>1. PICK n \in Names, m \in Names : names = <<n, m>>
    BY <1>3
  <2> QED BY <2>1
<1> QED BY <1>1, <1>2, <1>3 DEF NameLists

\* Declarations numbered on from the counter.
LEMMA FreshTokens ==
  ASSUME Unique, NEW names \in NameLists, NEW block,
         log' = Logged(Fresh(names), block), declSeq' = declSeq + Len(names)
  PROVE  Unique'
<1> DEFINE e(i) == [decl |-> Fresh(names)[i], block |-> block]
<1>1. names \in Seq(Names) /\ Len(names) \in Nat
  BY NameListsAreLists
<1>2. DOMAIN Fresh(names) = 1 .. Len(names)
      /\ \A i \in 1 .. Len(names) : e(i).decl.token.n = declSeq + i
  BY <1>1 DEF Fresh, DeclsOf, Decl, Token
<1>3. log' = log \cup {e(i) : i \in 1 .. Len(names)}
  BY <1>2 DEF Logged
<1> HIDE DEF e
<1>4. declSeq \in Nat /\ declSeq' \in Nat
  BY <1>1 DEF Unique, Numbered
<1>5. ASSUME NEW d \in log', d.decl.token.class = "%"
      PROVE  /\ d.decl.token.n \in 1 .. declSeq'
             /\ d \in log => d.decl.token.n \in 1 .. declSeq
             /\ d \notin log => \E i \in 1 .. Len(names) : d = e(i)
  <2>1. CASE d \in log
    BY <1>1, <1>4, <1>5, <2>1 DEF Unique, Numbered
  <2>2. CASE d \notin log
    BY <1>1, <1>2, <1>3, <1>4, <2>2
  <2> QED BY <2>1, <2>2
<1>6. ASSUME NEW d \in log', NEW f \in log',
             d.decl.token.class = "%", d.decl.token = f.decl.token
      PROVE  d = f
  <2>1. d.decl.token.n = f.decl.token.n /\ f.decl.token.class = "%"
    BY <1>6
  <2>2. CASE d \in log /\ f \in log
    BY <1>6, <2>2 DEF Unique, TokensUnique
  <2>3. CASE d \notin log /\ f \notin log
    <3>1. PICK i \in 1 .. Len(names) : d = e(i)
      BY <1>5, <1>6, <2>3
    <3>2. PICK j \in 1 .. Len(names) : f = e(j)
      BY <1>5, <2>1, <2>3
    <3>3. i = j
      BY <1>1, <1>2, <1>4, <2>1, <3>1, <3>2
    <3> QED BY <3>1, <3>2, <3>3
  <2>4. CASE d \in log /\ f \notin log
    <3>1. PICK j \in 1 .. Len(names) : f = e(j)
      BY <1>5, <2>1, <2>4
    <3> QED BY <1>1, <1>2, <1>4, <1>5, <1>6, <2>1, <2>4, <3>1
  <2>5. CASE d \notin log /\ f \in log
    <3>1. PICK i \in 1 .. Len(names) : d = e(i)
      BY <1>5, <1>6, <2>5
    <3> QED BY <1>1, <1>2, <1>4, <1>5, <1>6, <2>1, <2>5, <3>1
  <2> QED BY <2>2, <2>3, <2>4, <2>5
<1> QED BY <1>4, <1>5, <1>6 DEF Unique, Numbered, TokensUnique

\* Parameters and consts do not count.
LEMMA OtherTokens ==
  ASSUME Unique, NEW ds, NEW block, \A i \in DOMAIN ds : ds[i].token.class # "%",
         log' = Logged(ds, block), declSeq' = declSeq
  PROVE  Unique'
BY DEF Unique, Numbered, TokensUnique, Logged

LEMMA UniqueSame ==
  ASSUME Unique, log' = log, declSeq' = declSeq
  PROVE  Unique'
BY DEF Unique, Numbered, TokensUnique

LEMMA OpenScopeUnique ==
  ASSUME Unique, NEW kind, NEW names \in NameLists, NEW loops, NEW seq,
         OpenScope(kind, Fresh(names), loops, closureDepth, seq), seq = declSeq + Len(names)
  PROVE  Unique'
<1>1. CASE Declarable(Scope0, Fresh(names))
  BY <1>1, FreshTokens DEF OpenScope
<1>2. CASE ~Declarable(Scope0, Fresh(names))
  BY <1>2, UniqueSame DEF OpenScope, Refuse
<1> QED BY <1>1, <1>2

LEMMA NextUnique == Unique /\ [Next]_vars => Unique'
<1> SUFFICES ASSUME Unique, [Next]_vars PROVE Unique'
  OBVIOUS
<1>1. CASE Let
  <2>1. PICK names \in NameLists \ {<<>>} :
          /\ Declare(Fresh(names))
          /\ declSeq' = IF verdict' = "checking" THEN declSeq + Len(names) ELSE declSeq
    BY <1>1 DEF Let
  <2>2. CASE Declarable(scope[Len(scope)], Fresh(names))
    <3>1. log' = Logged(Fresh(names), Top.id) /\ declSeq' = declSeq + Len(names)
      BY <2>1, <2>2 DEF Declare
    <3> QED BY <3>1, FreshTokens
  <2>3. CASE ~Declarable(scope[Len(scope)], Fresh(names))
    <3>1. log' = log /\ declSeq' = declSeq
      BY <2>1, <2>3 DEF Declare, Refuse
    <3> QED BY <3>1, UniqueSame
  <2> QED BY <2>2, <2>3
<1>2. CASE Const
  <2>1. PICK n \in Names : Declare(<<Decl(n, Token("const", 0, 0))>>)
    BY <1>2 DEF Const
  <2>2. declSeq' = declSeq
    BY <1>2 DEF Const
  <2> DEFINE ds == <<Decl(n, Token("const", 0, 0))>>
  <2>3. \A i \in DOMAIN ds : ds[i].token.class # "%"
    BY DEF Decl, Token
  <2>4. log' = Logged(ds, Top.id) \/ log' = log
    BY <2>1 DEF Declare, Refuse
  <2> QED BY <2>2, <2>3, <2>4, OtherTokens, UniqueSame
<1>3. CASE OpenBranch
  BY <1>3, OpenScopeUnique DEF OpenBranch
<1>4. CASE OpenFor
  BY <1>4, OpenScopeUnique DEF OpenFor
<1>5. CASE OpenYield
  <2>1. PICK n \in Names : OpenScope("yield", Fresh(<<n>>), 0, closureDepth, declSeq + 1)
    BY <1>5 DEF OpenYield
  <2>2. <<n>> \in NameLists /\ Len(<<n>>) = 1
    BY DEF NameLists
  <2> QED BY <2>1, <2>2, OpenScopeUnique
<1>6. CASE OpenClosure
  <2>1. PICK names \in NameLists :
          OpenScope("closure", ClosureParams(names), 0, closureDepth + 1, declSeq)
    BY <1>6 DEF OpenClosure
  <2>2. \A i \in DOMAIN ClosureParams(names) : ClosureParams(names)[i].token.class # "%"
    BY DEF ClosureParams, DeclsOf, Decl, Token
  <2>3. declSeq' = declSeq /\ (log' = log \/ log' = Logged(ClosureParams(names), entered + 1))
    BY <2>1 DEF OpenScope, Refuse
  <2> QED BY <2>2, <2>3, OtherTokens, UniqueSame
<1>7. CASE ~(Let \/ Const \/ OpenBranch \/ OpenFor \/ OpenYield \/ OpenClosure)
  <2>1. log' = log /\ declSeq' = declSeq
    BY <1>7 DEF Next, vars, OpenWhile, OpenBody, CloseBranch, CloseLoop, CloseYield,
                CloseClosure, Pop, CloseFunc, Break, Refuse, Stopped
  <2> QED BY <2>1, UniqueSame
<1> QED BY <1>1, <1>2, <1>3, <1>4, <1>5, <1>6, <1>7

\* No two variables of a function share a Go name, however its blocks and
\* closures nest (freshInternalName; resolveClosureLit keeps the counter).
THEOREM TokensUniqueHolds == Spec => []TokensUnique
<1>1. Init => Unique
  <2> SUFFICES ASSUME Init PROVE Unique
    OBVIOUS
  <2>1. PICK names \in NameLists :
          log = {[decl |-> Params(names)[i], block |-> 0] : i \in DOMAIN names}
    BY DEF Init
  <2>2. names \in Seq(Names)
    BY NameListsAreLists
  <2>3. \A i \in DOMAIN names : Params(names)[i].token.class = "$"
    BY <2>2 DEF Params, DeclsOf, Decl, Token
  <2>4. \A d \in log : d.decl.token.class = "$"
    BY <2>1, <2>3
  <2>5. declSeq = 0
    BY DEF Init
  <2> QED BY <2>4, <2>5 DEF Unique, Numbered, TokensUnique
<1>2. Unique /\ [Next]_vars => Unique'
  BY NextUnique
<1>3. Unique => TokensUnique
  BY DEF Unique
<1> QED BY <1>1, <1>2, <1>3, PTL DEF Spec

-----------------------------------------------------------------------------
(***************************************************************************)
(* The chain of scopes finds what the text says, for every nesting of      *)
(* blocks and every number of names.                                       *)
(*                                                                         *)
(* The blocks that are open and the scopes are two stacks of different     *)
(* heights: a condition is checked in the scope around it.  A chain is the *)
(* map from the scopes to their blocks; the invariant is that there is one *)
(* that leaves out the conditions only, and that each scope has what was   *)
(* declared in its block, and nothing of a block that had its place        *)
(* before.                                                                 *)
(***************************************************************************)

ScopeSet == [Names -> Tokens \cup {None}]

\* The declarations of a name in a block, in the log l.
Here(l, n, b) == {d \in l : d.decl.name = n /\ d.block = b}

\* The log with the declarations of a list in a block.
LogOf(l, ds, b) == l \cup {[decl |-> ds[i], block |-> b] : i \in DOMAIN ds}

\* A scope has what the log says of a block.
Says(s, l, b) ==
  \A n \in Names : IF s[n] = None THEN Here(l, n, b) = {}
                   ELSE \E e \in l : Here(l, n, b) = {e} /\ e.decl.token = s[n]

\* The scopes ss belong to the blocks of o, the conditions excepted.
Chain(f, ss, o, l) ==
  /\ f \in [1 .. Len(ss) -> 1 .. Len(o)]
  /\ \A i, j \in 1 .. Len(ss) : i < j => f[i] < f[j]
  /\ \A p \in 1 .. Len(o) : o[p].kind # "cond" <=> \E i \in 1 .. Len(ss) : f[i] = p
  /\ \A i \in 1 .. Len(ss) : Says(ss[i], l, o[f[i]].id)

\* The blocks are numbered apart, k is the last number given, and nothing is
\* declared in a condition.
Numbers(o, l, k) ==
  /\ k \in Nat
  /\ \A p \in 1 .. Len(o) : o[p].id \in 0 .. k
  /\ \A p, q \in 1 .. Len(o) : o[p].id = o[q].id => p = q
  /\ \A d \in l : d.block \in 0 .. k
  /\ \A p \in 1 .. Len(o) : o[p].kind = "cond" => \A d \in l : d.block # o[p].id

Linked(ss, o, l, k) == ss \in Seq(ScopeSet) /\ Numbers(o, l, k) /\ \E f : Chain(f, ss, o, l)

-----------------------------------------------------------------------------
(* Sets of numbers, scopes and lists of declarations.                      *)

\* A set of numbers up to k has a greatest.
LEMMA Greatest ==
  ASSUME NEW k \in Nat, NEW T \in SUBSET (1 .. k), T # {}
  PROVE  \E m \in T : \A i \in T : m >= i
<1> DEFINE S == {k - i : i \in T}
           R == {ss \in Nat \X Nat : ss[1] < ss[2]}
<1>1. IsWellFoundedOn(R, Nat)
  BY NatLessThanWellFounded DEF OpToRel
<1>2. T \subseteq 1 .. k /\ S \subseteq Nat /\ S # {}
  <2>1. \A i \in T : i \in 1 .. k /\ k - i \in Nat
    OBVIOUS
  <2> QED BY <2>1
<1>3. PICK x \in S : \A y \in S : <<y, x>> \notin R
  <2> HIDE DEF R, S
  <2> QED BY <1>1, <1>2, WFMin
<1>4. PICK m \in T : x = k - m
  BY <1>3
<1>5. ASSUME NEW i \in T PROVE m >= i
  <2>1. ~(k - i < k - m)
    BY <1>2, <1>3, <1>4
  <2> QED BY <1>2, <2>1
<1> QED BY <1>5

LEMMA MaxIs ==
  ASSUME NEW T, NEW m \in T, T \subseteq Nat, \A i \in T : m >= i
  PROVE  Max(T) = m
<1>1. \A x \in T : (\A y \in T : x >= y) => x = m
  OBVIOUS
<1>2. Max(T) \in T /\ \A y \in T : Max(T) >= y
  BY DEF Max
<1> QED BY <1>1, <1>2

LEMMA SaysExtended ==
  ASSUME NEW s \in ScopeSet, NEW l, NEW b, NEW ds \in Seq(Decls),
         Says(s, l, b), Declarable(s, ds)
  PROVE  Extend(s, ds) \in ScopeSet /\ Says(Extend(s, ds), LogOf(l, ds, b), b)
<1> DEFINE t == Extend(s, ds)
           g(n) == \E i \in DOMAIN ds : ds[i].name = n
           e(i) == [decl |-> ds[i], block |-> b]
<1>1. ASSUME NEW i \in DOMAIN ds
      PROVE  /\ ds[i] \in Decls /\ ds[i].name \in Names /\ ds[i].token \in Tokens
             /\ s[ds[i].name] = None /\ t[ds[i].name] = ds[i].token
  <2>1. ds[i] \in Decls
    OBVIOUS
  <2>2. ds[i].name \in Names /\ ds[i].token \in Tokens
    BY <2>1 DEF Decls
  <2>3. s[ds[i].name] = None /\ \A j \in DOMAIN ds : ds[j].name = ds[i].name => j = i
    BY DEF Declarable
  <2>4. (CHOOSE d \in Range(ds) : d.name = ds[i].name) = ds[i]
    BY <2>3 DEF Range
  <2>5. t[ds[i].name] = ds[i].token
    BY <2>2, <2>4 DEF Extend
  <2> QED BY <2>1, <2>2, <2>3, <2>5
<1>2. ASSUME NEW n \in Names, ~g(n) PROVE t[n] = s[n]
  BY <1>2 DEF Extend
<1>3. t \in ScopeSet
  <2>1. t = [n \in Names |-> t[n]]
    BY DEF Extend
  <2>2. \A n \in Names : t[n] \in Tokens \cup {None}
    BY <1>1, <1>2 DEF ScopeSet
  <2> QED BY <2>1, <2>2 DEF ScopeSet
<1>4. ASSUME NEW n \in Names
      PROVE  IF t[n] = None THEN Here(LogOf(l, ds, b), n, b) = {}
             ELSE \E d \in LogOf(l, ds, b) :
                    Here(LogOf(l, ds, b), n, b) = {d} /\ d.decl.token = t[n]
  <2>1. CASE g(n)
    <3>1. PICK i \in DOMAIN ds : ds[i].name = n
      BY <2>1
    <3>2. t[n] = ds[i].token /\ t[n] # None /\ s[n] = None
      BY <1>1, <3>1, NoneAssumption
    <3>3. Here(l, n, b) = {}
      BY <3>2 DEF Says
    <3>4. \A j \in DOMAIN ds : ds[j].name = n => j = i
      BY <3>1 DEF Declarable
    <3>5. Here(LogOf(l, ds, b), n, b) = {e(i)}
      BY <3>1, <3>3, <3>4 DEF Here, LogOf
    <3>6. e(i) \in LogOf(l, ds, b)
      BY DEF LogOf
    <3> QED BY <3>2, <3>5, <3>6
  <2>2. CASE ~g(n)
    <3>1. Here(LogOf(l, ds, b), n, b) = Here(l, n, b) /\ t[n] = s[n]
      BY <1>2, <2>2 DEF Here, LogOf
    <3>2. l \subseteq LogOf(l, ds, b)
      BY DEF LogOf
    <3> QED BY <3>1, <3>2 DEF Says
  <2> QED BY <2>1, <2>2
<1> QED BY <1>3, <1>4 DEF Says

\* A list of declarations changes nothing of other blocks.
LEMMA SaysElsewhere ==
  ASSUME NEW s, NEW l, NEW b, NEW c, NEW ds, Says(s, l, b), b # c
  PROVE  Says(s, LogOf(l, ds, c), b)
<1>1. \A n \in Names : Here(LogOf(l, ds, c), n, b) = Here(l, n, b)
  BY DEF Here, LogOf
<1>2. l \subseteq LogOf(l, ds, c)
  BY DEF LogOf
<1> QED BY <1>1, <1>2 DEF Says

\* A block of which the log says nothing has an empty scope.
LEMMA SaysNothing ==
  ASSUME NEW l, NEW b, \A d \in l : d.block # b
  PROVE  Says(Scope0, l, b) /\ Scope0 \in ScopeSet
BY DEF Says, Here, Scope0, ScopeSet

-----------------------------------------------------------------------------
(* What happens to the chain.                                              *)

\* The innermost scope is that of the innermost block, unless it is a condition.
LEMMA TopOfChain ==
  ASSUME NEW ss \in Seq(ScopeSet), NEW o \in Seq(Block), NEW l, NEW f, Chain(f, ss, o, l),
         Len(o) > 0, o[Len(o)].kind # "cond"
  PROVE  Len(ss) > 0 /\ f[Len(ss)] = Len(o)
<1>1. Len(o) \in 1 .. Len(o) /\ Len(ss) \in Nat
  OBVIOUS
<1>2. PICK i \in 1 .. Len(ss) : f[i] = Len(o)
  BY <1>1 DEF Chain
<1>3. Len(ss) \in 1 .. Len(ss)
  BY <1>1, <1>2
<1>4. f[Len(ss)] \in 1 .. Len(o) /\ (i < Len(ss) => f[i] < f[Len(ss)])
  BY <1>2, <1>3 DEF Chain
<1>5. i = Len(ss)
  BY <1>1, <1>2, <1>4
<1> QED BY <1>2, <1>3, <1>5

\* Names are declared in the innermost scope.
LEMMA DeclaredLinked ==
  ASSUME NEW ss, NEW o \in Seq(Block), NEW l, NEW k, Linked(ss, o, l, k),
         Len(o) > 0, o[Len(o)].kind # "cond",
         NEW ds \in Seq(Decls), Declarable(ss[Len(ss)], ds)
  PROVE  Linked([ss EXCEPT ![Len(ss)] = Extend(@, ds)], o, LogOf(l, ds, o[Len(o)].id), k)
<1> DEFINE m == Len(ss)
           b == o[Len(o)].id
           t == [ss EXCEPT ![m] = Extend(ss[m], ds)]
           l2 == LogOf(l, ds, b)
<1>1. ss \in Seq(ScopeSet) /\ Numbers(o, l, k) /\ Len(o) \in 1 .. Len(o)
  BY DEF Linked
<1>2. PICK f : Chain(f, ss, o, l)
  BY DEF Linked
<1>3. m \in 1 .. m /\ f[m] = Len(o)
  BY <1>1, <1>2, TopOfChain
<1>4. Says(ss[m], l, b) /\ ss[m] \in ScopeSet
  BY <1>1, <1>2, <1>3 DEF Chain
<1>5. Extend(ss[m], ds) \in ScopeSet /\ Says(Extend(ss[m], ds), l2, b)
  BY <1>4, SaysExtended
<1>6. t \in Seq(ScopeSet) /\ Len(t) = m /\ t[m] = Extend(ss[m], ds)
      /\ \A i \in 1 .. m : i # m => t[i] = ss[i]
  BY <1>1, <1>3, <1>5
<1>7. Chain(f, t, o, l2)
  <2>1. ASSUME NEW i \in 1 .. m PROVE Says(t[i], l2, o[f[i]].id)
    <3>1. CASE i = m
      BY <1>3, <1>5, <1>6, <3>1
    <3>2. CASE i # m
      <4>1. f[i] \in 1 .. Len(o) /\ f[i] # Len(o)
        BY <1>2, <1>3, <3>2 DEF Chain
      <4>2. o[f[i]].id # b
        BY <1>1, <4>1 DEF Numbers
      <4> QED BY <1>2, <1>6, <3>2, <4>2, SaysElsewhere DEF Chain
    <3> QED BY <3>1, <3>2
  <2> HIDE DEF t
  <2> QED BY <1>2, <1>6, <2>1 DEF Chain
<1>8. Numbers(o, l2, k)
  <2>1. b \in 0 .. k
    BY <1>1 DEF Numbers
  <2>2. \A d \in l2 : d \in l \/ d.block = b
    BY DEF LogOf
  <2>3. \A p \in 1 .. Len(o) : o[p].kind = "cond" => o[p].id # b
    BY <1>1 DEF Numbers
  <2> HIDE DEF l2, b
  <2> QED BY <1>1, <2>1, <2>2, <2>3 DEF Numbers
<1> QED BY <1>6, <1>7, <1>8 DEF Linked

\* A block is entered that has a scope, or one that has none.
LEMMA OpenedNumbers ==
  ASSUME NEW o \in Seq(Block), NEW l, NEW k, Numbers(o, l, k), NEW b \in Block, b.id = k + 1,
         NEW ds, ds = <<>> \/ b.kind # "cond"
  PROVE  Numbers(Append(o, b), LogOf(l, ds, k + 1), k + 1)
<1> DEFINE t == Append(o, b)
           l2 == LogOf(l, ds, k + 1)
<1>1. k \in Nat /\ Len(t) = Len(o) + 1 /\ t[Len(o) + 1] = b /\ \A p \in 1 .. Len(o) : t[p] = o[p]
  BY DEF Numbers
<1>2. \A p \in 1 .. Len(t) : p \in 1 .. Len(o) \/ p = Len(o) + 1
  BY <1>1
<1>3. \A d \in l2 : d \in l \/ (d.block = k + 1 /\ b.kind # "cond")
  BY DEF LogOf
<1>4. \A p \in 1 .. Len(o) : o[p].id # k + 1 /\ o[p].id \in 0 .. k + 1
  BY <1>1 DEF Numbers
<1> HIDE DEF t, l2
<1>5. \A p, q \in 1 .. Len(t) : t[p].id = t[q].id => p = q
  BY <1>1, <1>2, <1>4 DEF Numbers
<1>6. \A p \in 1 .. Len(t) : t[p].id \in 0 .. k + 1
  BY <1>1, <1>2, <1>4
<1>7. \A d \in l2 : d.block \in 0 .. k + 1
  BY <1>1, <1>3 DEF Numbers
<1>8. \A p \in 1 .. Len(t) : t[p].kind = "cond" => \A d \in l2 : d.block # t[p].id
  <2> SUFFICES ASSUME NEW p \in 1 .. Len(t), t[p].kind = "cond", NEW d \in l2
               PROVE  d.block # t[p].id
    OBVIOUS
  <2>1. CASE p \in 1 .. Len(o)
    BY <1>1, <1>3, <1>4, <2>1 DEF Numbers
  <2>2. CASE p = Len(o) + 1
    <3>1. d \in l
      BY <1>1, <1>3, <2>2
    <3>2. d.block \in 0 .. k
      BY <3>1 DEF Numbers
    <3> QED BY <1>1, <2>2, <3>2
  <2> QED BY <1>2, <2>1, <2>2
<1> QED BY <1>1, <1>5, <1>6, <1>7, <1>8 DEF Numbers, t, l2

LEMMA OpenedLinked ==
  ASSUME NEW ss, NEW o \in Seq(Block), NEW l, NEW k, Linked(ss, o, l, k),
         NEW b \in Block, b.id = k + 1, b.kind # "cond",
         NEW ds \in Seq(Decls), Declarable(Scope0, ds)
  PROVE  Linked(Append(ss, Extend(Scope0, ds)), Append(o, b), LogOf(l, ds, k + 1), k + 1)
<1> DEFINE s == Extend(Scope0, ds)
           m == Len(ss) + 1
           n == Len(o) + 1
           t == Append(ss, s)
           u == Append(o, b)
           l2 == LogOf(l, ds, k + 1)
<1>1. ss \in Seq(ScopeSet) /\ Numbers(o, l, k)
  BY DEF Linked
<1>2. PICK f : Chain(f, ss, o, l)
  BY DEF Linked
<1>3. \A d \in l : d.block # k + 1
  BY <1>1 DEF Numbers
<1>4. s \in ScopeSet /\ Says(s, l2, k + 1)
  BY <1>3, SaysNothing, SaysExtended
<1>5. /\ t \in Seq(ScopeSet) /\ Len(t) = m /\ t[m] = s /\ \A i \in 1 .. Len(ss) : t[i] = ss[i]
      /\ Len(u) = n /\ u[n] = b /\ \A p \in 1 .. Len(o) : u[p] = o[p]
  BY <1>1, <1>4
<1>6. Numbers(u, l2, k + 1)
  BY <1>1, OpenedNumbers
<1> DEFINE g == [i \in 1 .. m |-> IF i = m THEN n ELSE f[i]]
<1>7. /\ m \in Nat /\ n \in Nat
      /\ 1 .. m = (1 .. Len(ss)) \cup {m} /\ \A i \in 1 .. Len(ss) : i # m /\ i < m
      /\ 1 .. n = (1 .. Len(o)) \cup {n} /\ \A p \in 1 .. Len(o) : p # n /\ p < n
  BY <1>1
<1> HIDE DEF s, t, u, l2, m, n
<1>8. g \in [1 .. m -> 1 .. n] /\ g[m] = n /\ \A i \in 1 .. Len(ss) : g[i] = f[i]
  BY <1>2, <1>7 DEF Chain
<1>9. \A i, j \in 1 .. m : i < j => g[i] < g[j]
  <2> SUFFICES ASSUME NEW i \in 1 .. m, NEW j \in 1 .. m, i < j PROVE g[i] < g[j]
    OBVIOUS
  <2>1. i \in 1 .. Len(ss)
    BY <1>1, <1>7
  <2>2. f[i] \in 1 .. Len(o)
    BY <1>2, <2>1 DEF Chain
  <2>3. CASE j = m
    BY <1>7, <1>8, <2>1, <2>2, <2>3
  <2>4. CASE j \in 1 .. Len(ss)
    BY <1>2, <1>8, <2>1, <2>4 DEF Chain
  <2> QED BY <1>7, <2>3, <2>4
<1> HIDE DEF g
<1>10. ASSUME NEW p \in 1 .. n PROVE u[p].kind # "cond" <=> \E i \in 1 .. m : g[i] = p
  <2>1. CASE p = n
    BY <1>5, <1>7, <1>8, <2>1
  <2>2. CASE p \in 1 .. Len(o)
    <3>1. o[p].kind # "cond" <=> \E i \in 1 .. Len(ss) : f[i] = p
      BY <1>2, <2>2 DEF Chain
    <3> QED BY <1>5, <1>7, <1>8, <2>2, <3>1
  <2> QED BY <1>7, <2>1, <2>2
<1>11. ASSUME NEW i \in 1 .. m PROVE Says(t[i], l2, u[g[i]].id)
  <2>1. CASE i = m
    BY <1>4, <1>5, <1>8, <2>1
  <2>2. CASE i \in 1 .. Len(ss)
    <3>1. Says(ss[i], l, o[f[i]].id) /\ f[i] \in 1 .. Len(o)
      BY <1>2, <2>2 DEF Chain
    <3>2. o[f[i]].id # k + 1
      BY <1>1, <3>1 DEF Numbers
    <3>3. Says(ss[i], l2, o[f[i]].id)
      BY <3>1, <3>2, SaysElsewhere DEF l2
    <3> QED BY <1>5, <1>8, <2>2, <3>1, <3>3
  <2> QED BY <1>7, <2>1, <2>2
<1>12. Chain(g, t, u, l2)
  BY <1>5, <1>8, <1>9, <1>10, <1>11 DEF Chain
<1> QED BY <1>5, <1>6, <1>12 DEF Linked, t, u, l2, s

LEMMA ConditionLinked ==
  ASSUME NEW ss, NEW o \in Seq(Block), NEW l, NEW k, Linked(ss, o, l, k),
         NEW b \in Block, b.id = k + 1, b.kind = "cond"
  PROVE  Linked(ss, Append(o, b), l, k + 1)
<1> DEFINE n == Len(o) + 1
           u == Append(o, b)
<1>1. ss \in Seq(ScopeSet) /\ Numbers(o, l, k)
  BY DEF Linked
<1>2. PICK f : Chain(f, ss, o, l)
  BY DEF Linked
<1>3. Len(u) = n /\ u[n] = b /\ \A p \in 1 .. Len(o) : u[p] = o[p]
  OBVIOUS
<1>4. LogOf(l, <<>>, k + 1) = l
  BY DEF LogOf
<1>5. Numbers(u, l, k + 1)
  BY <1>1, <1>4, OpenedNumbers
<1>6. 1 .. n = (1 .. Len(o)) \cup {n} /\ \A p \in 1 .. Len(o) : p # n
  OBVIOUS
<1> HIDE DEF u, n
<1>7. \A i \in 1 .. Len(ss) : f[i] \in 1 .. Len(o)
  BY <1>2 DEF Chain
<1>8. f \in [1 .. Len(ss) -> 1 .. n]
  BY <1>2, <1>6 DEF Chain
<1>9. ASSUME NEW p \in 1 .. n PROVE u[p].kind # "cond" <=> \E i \in 1 .. Len(ss) : f[i] = p
  <2>1. CASE p = n
    BY <1>3, <1>6, <1>7, <2>1
  <2>2. CASE p \in 1 .. Len(o)
    BY <1>2, <1>3, <2>2 DEF Chain
  <2> QED BY <1>6, <2>1, <2>2
<1>10. \A i \in 1 .. Len(ss) : Says(ss[i], l, u[f[i]].id)
  BY <1>2, <1>3, <1>7 DEF Chain
<1>11. Chain(f, ss, u, l)
  BY <1>2, <1>3, <1>8, <1>9, <1>10 DEF Chain
<1> QED BY <1>1, <1>5, <1>11 DEF Linked, u

\* The body of a while takes the place of its condition.
LEMMA BodyLinked ==
  ASSUME NEW ss, NEW o \in Seq(Block), NEW l, NEW k, Linked(ss, o, l, k),
         Len(o) > 0, o[Len(o)].kind = "cond"
  PROVE  Linked(Append(ss, Scope0), [o EXCEPT ![Len(o)].kind = "while"], l, k)
<1> DEFINE m == Len(ss) + 1
           n == Len(o)
           t == Append(ss, Scope0)
           u == [o EXCEPT ![n].kind = "while"]
<1>1. ss \in Seq(ScopeSet) /\ Numbers(o, l, k) /\ n \in 1 .. n /\ Len(ss) \in Nat
  BY DEF Linked
<1>2. PICK f : Chain(f, ss, o, l)
  BY DEF Linked
<1>3. /\ Len(u) = n /\ u[n].kind = "while" /\ u[n].id = o[n].id
      /\ \A p \in 1 .. n : p # n => u[p] = o[p]
  <2>1. o[n] \in Block
    BY <1>1
  <2>2. u = [o EXCEPT ![n] = [o[n] EXCEPT !.kind = "while"]]
    BY <1>1
  <2>3. [o[n] EXCEPT !.kind = "while"].kind = "while" /\ [o[n] EXCEPT !.kind = "while"].id = o[n].id
    BY <2>1 DEF Block
  <2> QED BY <1>1, <2>2, <2>3
<1>4. Says(Scope0, l, o[n].id) /\ Scope0 \in ScopeSet
  BY <1>1, SaysNothing DEF Numbers
<1>5. t \in Seq(ScopeSet) /\ Len(t) = m /\ t[m] = Scope0 /\ \A i \in 1 .. Len(ss) : t[i] = ss[i]
  BY <1>1, <1>4
<1>6. \A p \in 1 .. n : u[p].id = o[p].id
  BY <1>3
<1> DEFINE g == [i \in 1 .. m |-> IF i = m THEN n ELSE f[i]]
<1>7. 1 .. m = (1 .. Len(ss)) \cup {m} /\ \A i \in 1 .. Len(ss) : i # m /\ i < m
  BY <1>1
<1> HIDE DEF t, u, m
<1>8. Numbers(u, l, k)
  <2>1. \A p \in 1 .. n : u[p].kind = "cond" => o[p].kind = "cond"
    BY <1>3
  <2> QED BY <1>1, <1>3, <1>6, <2>1 DEF Numbers
<1>9. \A i \in 1 .. Len(ss) : f[i] \in 1 .. n /\ f[i] # n /\ f[i] < n
  <2> SUFFICES ASSUME NEW i \in 1 .. Len(ss) PROVE f[i] \in 1 .. n /\ f[i] # n
    BY <1>1
  <2>1. f[i] \in 1 .. n
    BY <1>2 DEF Chain
  <2>2. o[f[i]].kind # "cond"
    BY <1>2, <2>1 DEF Chain
  <2> QED BY <2>1, <2>2
<1>10. g \in [1 .. m -> 1 .. n] /\ g[m] = n /\ \A i \in 1 .. Len(ss) : g[i] = f[i]
  BY <1>1, <1>7, <1>9
<1> HIDE DEF g, n
<1>11. \A i, j \in 1 .. m : i < j => g[i] < g[j]
  <2> SUFFICES ASSUME NEW i \in 1 .. m, NEW j \in 1 .. m, i < j PROVE g[i] < g[j]
    OBVIOUS
  <2>1. i \in 1 .. Len(ss)
    BY <1>1, <1>7
  <2>2. CASE j = m
    BY <1>9, <1>10, <2>1, <2>2
  <2>3. CASE j \in 1 .. Len(ss)
    BY <1>2, <1>10, <2>1, <2>3 DEF Chain
  <2> QED BY <1>7, <2>2, <2>3
<1>12. ASSUME NEW p \in 1 .. n PROVE u[p].kind # "cond" <=> \E i \in 1 .. m : g[i] = p
  <2>1. CASE p = n
    BY <1>3, <1>7, <1>10, <2>1
  <2>2. CASE p # n
    <3>1. o[p].kind # "cond" <=> \E i \in 1 .. Len(ss) : f[i] = p
      BY <1>2, <2>2 DEF Chain, n
    <3> QED BY <1>3, <1>7, <1>10, <2>2, <3>1
  <2> QED BY <2>1, <2>2
<1>13. ASSUME NEW i \in 1 .. m PROVE Says(t[i], l, u[g[i]].id)
  <2>1. CASE i = m
    BY <1>1, <1>4, <1>5, <1>6, <1>10, <2>1
  <2>2. CASE i \in 1 .. Len(ss)
    BY <1>2, <1>5, <1>6, <1>9, <1>10, <2>2 DEF Chain
  <2> QED BY <1>7, <2>1, <2>2
<1>14. Chain(g, t, u, l)
  BY <1>3, <1>5, <1>10, <1>11, <1>12, <1>13 DEF Chain
<1> QED BY <1>5, <1>8, <1>14 DEF Linked, t, u, n

\* A block is left, and its scope with it.
LEMMA PoppedLinked ==
  ASSUME NEW ss, NEW o \in Seq(Block), NEW l, NEW k, Linked(ss, o, l, k),
         Len(o) > 1, o[1].kind # "cond", o[Len(o)].kind # "cond"
  PROVE  Linked(Front(ss), Front(o), l, k) /\ Len(ss) > 1
<1> DEFINE m == Len(ss) - 1
           n == Len(o) - 1
           t == Front(ss)
           u == Front(o)
<1>1. ss \in Seq(ScopeSet) /\ Numbers(o, l, k) /\ 1 \in 1 .. Len(o) /\ Len(ss) \in Nat
  BY DEF Linked
<1>2. PICK f : Chain(f, ss, o, l)
  BY DEF Linked
<1>3. Len(ss) \in 1 .. Len(ss) /\ f[Len(ss)] = Len(o)
  BY <1>1, <1>2, TopOfChain
<1>4. PICK first \in 1 .. Len(ss) : f[first] = 1
  BY <1>1, <1>2 DEF Chain
<1>5. Len(ss) > 1
  BY <1>3, <1>4
<1>6. /\ t \in Seq(ScopeSet) /\ Len(t) = m /\ \A i \in 1 .. m : t[i] = ss[i]
      /\ u \in Seq(Block) /\ Len(u) = n /\ \A p \in 1 .. n : u[p] = o[p]
  BY <1>1, <1>5 DEF Front
<1>7. /\ \A i \in 1 .. m : i \in 1 .. Len(ss) /\ i < Len(ss)
      /\ \A i \in 1 .. Len(ss) : i \in 1 .. m \/ i = Len(ss)
      /\ \A p \in 1 .. n : p \in 1 .. Len(o) /\ p # Len(o)
      /\ \A p \in 1 .. Len(o) : p < Len(o) => p \in 1 .. n
  BY <1>1
<1> HIDE DEF t, u, m, n
<1>8. Numbers(u, l, k)
  BY <1>1, <1>6, <1>7 DEF Numbers
<1> DEFINE g == [i \in 1 .. m |-> f[i]]
<1>9. g \in [1 .. m -> 1 .. n] /\ \A i \in 1 .. m : g[i] = f[i]
  <2> SUFFICES ASSUME NEW i \in 1 .. m PROVE f[i] \in 1 .. n
    OBVIOUS
  <2>1. f[i] \in 1 .. Len(o) /\ f[i] < Len(o)
    BY <1>2, <1>3, <1>7 DEF Chain
  <2> QED BY <1>7, <2>1
<1> HIDE DEF g
<1>10. \A i, j \in 1 .. m : i < j => g[i] < g[j]
  BY <1>2, <1>7, <1>9 DEF Chain
<1>11. ASSUME NEW p \in 1 .. n PROVE u[p].kind # "cond" <=> \E i \in 1 .. m : g[i] = p
  <2>1. o[p].kind # "cond" <=> \E i \in 1 .. Len(ss) : f[i] = p
    BY <1>2, <1>7 DEF Chain
  <2>2. (\E i \in 1 .. Len(ss) : f[i] = p) <=> \E i \in 1 .. m : g[i] = p
    BY <1>3, <1>7, <1>9
  <2> QED BY <1>6, <2>1, <2>2
<1>12. ASSUME NEW i \in 1 .. m PROVE Says(t[i], l, u[g[i]].id)
  <2>1. g[i] \in 1 .. n /\ g[i] = f[i] /\ i \in 1 .. Len(ss)
    BY <1>7, <1>9
  <2>2. u[g[i]] = o[f[i]] /\ t[i] = ss[i]
    BY <1>6, <2>1
  <2>3. Says(ss[i], l, o[f[i]].id)
    BY <1>2, <2>1 DEF Chain
  <2> QED BY <2>2, <2>3
<1>13. Chain(g, t, u, l)
  BY <1>6, <1>9, <1>10, <1>11, <1>12 DEF Chain
<1> QED BY <1>5, <1>6, <1>8, <1>13 DEF Linked, t, u

\* What the chain finds is what the text says.
LEMMA LinkedLookup ==
  ASSUME Linked(scope, open, log, entered), open \in Seq(Block), NEW n \in Names
  PROVE  /\ Lookup(n) = {d.decl.token : d \in Nearest(n)}
         /\ Nearest(n) = {} \/ \E e : Nearest(n) = {e}
<1> DEFINE ms == Len(scope)
           mo == Len(open)
           S == {i \in DOMAIN scope : scope[i][n] # None}
           T == {p \in DOMAIN open : Here(log, n, open[p].id) # {}}
<1>1. /\ scope \in Seq(ScopeSet) /\ DOMAIN scope = 1 .. ms /\ DOMAIN open = 1 .. mo
      /\ ms \in Nat /\ mo \in Nat /\ Numbers(open, log, entered)
  BY DEF Linked
<1>2. PICK f : Chain(f, scope, open, log)
  BY DEF Linked
<1>3. Lookup(n) = IF S = {} THEN {} ELSE {scope[Max(S)][n]}
  BY DEF Lookup
<1>4. Nearest(n) = IF T = {} THEN {} ELSE Here(log, n, open[Max(T)].id)
  BY DEF Nearest, Here
<1>5. ASSUME NEW i \in 1 .. ms
      PROVE  /\ f[i] \in 1 .. mo
             /\ i \in S => \E e : Here(log, n, open[f[i]].id) = {e} /\ e.decl.token = scope[i][n]
             /\ i \in S <=> f[i] \in T
  <2>1. f[i] \in 1 .. mo /\ Says(scope[i], log, open[f[i]].id)
    BY <1>2 DEF Chain
  <2> QED BY <1>1, <2>1 DEF Says
<1>6. ASSUME NEW p \in T PROVE \E i \in S : f[i] = p
  <2>1. p \in 1 .. mo /\ open[p].kind # "cond"
    BY <1>1 DEF Numbers, Here
  <2>2. PICK i \in 1 .. ms : f[i] = p
    BY <1>2, <2>1 DEF Chain
  <2> QED BY <1>5, <2>2
<1> HIDE DEF S
<1>7. CASE S = {}
  <2>1. T = {}
    BY <1>6, <1>7
  <2> HIDE DEF T
  <2> QED BY <1>3, <1>4, <1>7, <2>1
<1>8. CASE S # {}
  <2>1. S \subseteq 1 .. ms /\ T \subseteq 1 .. mo
    BY <1>1 DEF S
  <2> HIDE DEF T, ms, mo
  <2>2. PICK m \in S : \A i \in S : m >= i
    BY <1>1, <1>8, <2>1, Greatest
  <2>3. S \subseteq Nat /\ T \subseteq Nat
    BY <2>1
  <2>4. Max(S) = m
    BY <2>2, <2>3, MaxIs
  <2>5. f[m] \in T
    BY <1>5, <2>1, <2>2
  <2>6. ASSUME NEW p \in T PROVE f[m] >= p
    <3>1. PICK i \in S : f[i] = p
      BY <1>6
    <3>2. i \in 1 .. ms /\ m \in 1 .. ms /\ (i = m \/ i < m)
      BY <2>1, <2>2
    <3>3. i < m => f[i] < f[m]
      BY <1>2, <3>2 DEF Chain, ms
    <3>4. f[i] \in Nat /\ f[m] \in Nat
      BY <2>3, <2>5, <3>1
    <3> QED BY <3>1, <3>2, <3>3, <3>4
  <2>7. Max(T) = f[m]
    BY <2>3, <2>5, <2>6, MaxIs
  <2>8. PICK e : Here(log, n, open[f[m]].id) = {e} /\ e.decl.token = scope[m][n]
    BY <1>5, <2>1, <2>2
  <2>9. Nearest(n) = {e} /\ Lookup(n) = {e.decl.token}
    BY <1>3, <1>4, <1>8, <2>4, <2>5, <2>7, <2>8
  <2> QED BY <2>9
<1> QED BY <1>7, <1>8

-----------------------------------------------------------------------------
(* The counters stay within the blocks that are open.                      *)

ClosuresIn(o) == {p \in 1 .. Len(o) : o[p].kind = "closure"}
One(kind) == IF kind = "closure" THEN 1 ELSE 0

\* How high the counters are with a block innermost, and how many closures are
\* open.
Framed(o, loops, ret, closures, k) ==
  /\ o \in Seq(Frame) /\ Len(o) <= MaxOpen
  /\ ret \in 0 .. MaxBlocks /\ k \in 0 .. MaxBlocks
  /\ closures = Cardinality(ClosuresIn(o))
  /\ \A p \in 1 .. Len(o) : DepthAt(o, loops, p) <= p

LEMMA ClosuresCounted ==
  ASSUME NEW o, Len(o) \in Nat
  PROVE  IsFiniteSet(ClosuresIn(o)) /\ Cardinality(ClosuresIn(o)) \in 0 .. Len(o)
<1>1. IsFiniteSet(1 .. Len(o)) /\ Cardinality(1 .. Len(o)) = Len(o)
  BY FS_Interval
<1>2. ClosuresIn(o) \in SUBSET (1 .. Len(o))
  BY DEF ClosuresIn
<1>3. IsFiniteSet(ClosuresIn(o)) /\ Cardinality(ClosuresIn(o)) <= Len(o)
  BY <1>1, <1>2, FS_Subset
<1> QED BY <1>3, FS_CardinalityType

LEMMA FramedPushed ==
  ASSUME NEW o, NEW loops, NEW ret, NEW closures, NEW k, NEW kind \in Kinds,
         StackInv(o, loops, ret), Framed(o, loops, ret, closures, k),
         Len(o) < MaxOpen, k < MaxBlocks
  PROVE  Framed(Append(o, [kind |-> kind, id |-> k + 1, saved |-> [loops |-> loops, ret |-> ret]]),
                LoopsIn(kind, loops), RetIn(kind, k + 1, ret), closures + One(kind), k + 1)
<1> DEFINE b == [kind |-> kind, id |-> k + 1, saved |-> [loops |-> loops, ret |-> ret]]
           n == Len(o) + 1
           t == Append(o, b)
<1>1. /\ o \in Seq(Frame) /\ loops \in Nat /\ Len(o) > 0 /\ Len(o) \in Nat /\ MaxOpen \in Nat
      /\ MaxBlocks \in Nat /\ k \in 0 .. MaxBlocks /\ ret \in 0 .. MaxBlocks
  BY ScopesAssumption DEF Framed, StackInv, Shape
<1>2. loops <= Len(o)
  <2>1. DepthAt(o, loops, Len(o)) = loops /\ Len(o) \in 1 .. Len(o)
    BY <1>1 DEF DepthAt
  <2> QED BY <2>1 DEF Framed
<1>3. b \in Frame
  BY <1>1, <1>2 DEF Frame, Saved
<1>4. t \in Seq(Frame) /\ Len(t) = n /\ t[n] = b /\ \A p \in 1 .. Len(o) : t[p] = o[p]
  BY <1>1, <1>3
<1>5. 1 .. n = (1 .. Len(o)) \cup {n} /\ n \notin 1 .. Len(o)
  BY <1>1
<1>6. closures + One(kind) = Cardinality(ClosuresIn(t))
  <2>1. /\ IsFiniteSet(ClosuresIn(o)) /\ n \notin ClosuresIn(o)
        /\ closures = Cardinality(ClosuresIn(o)) /\ closures \in Nat
    BY <1>1, <1>5, ClosuresCounted DEF Framed, ClosuresIn
  <2>2. CASE kind = "closure"
    <3>1. ClosuresIn(t) = ClosuresIn(o) \cup {n}
      BY <1>4, <1>5, <2>2 DEF ClosuresIn
    <3> QED BY <2>1, <2>2, <3>1, FS_AddElement DEF One
  <2>3. CASE kind # "closure"
    <3>1. ClosuresIn(t) = ClosuresIn(o)
      BY <1>4, <1>5, <2>3 DEF ClosuresIn
    <3> QED BY <2>1, <2>3, <3>1 DEF One
  <2> QED BY <2>2, <2>3
<1> DEFINE loops2 == LoopsIn(kind, loops)
<1>7. ASSUME NEW p \in 1 .. n PROVE DepthAt(t, loops2, p) <= p
  <2>1. CASE p = n
    BY <1>1, <1>2, <1>4, <2>1 DEF DepthAt, LoopsIn
  <2>2. CASE p = Len(o)
    BY <1>1, <1>2, <1>4, <2>2 DEF DepthAt
  <2>3. CASE p # n /\ p # Len(o)
    <3>1. p \in 1 .. Len(o) /\ p + 1 \in 1 .. Len(o)
      BY <1>1, <2>3
    <3>2. DepthAt(t, loops2, p) = DepthAt(o, loops, p)
      BY <1>4, <2>3, <3>1 DEF DepthAt
    <3> QED BY <3>1, <3>2 DEF Framed
  <2> QED BY <2>1, <2>2, <2>3
<1>8. RetIn(kind, k + 1, ret) \in 0 .. MaxBlocks /\ k + 1 \in 0 .. MaxBlocks
  BY <1>1 DEF RetIn
<1> HIDE DEF t, loops2
<1>9. Len(t) <= MaxOpen
  BY <1>1, <1>4
<1> QED BY <1>4, <1>6, <1>7, <1>8, <1>9 DEF Framed, t, loops2

LEMMA FramedPopped ==
  ASSUME NEW o, NEW loops, NEW ret, NEW closures, NEW k,
         StackInv(o, loops, ret), Framed(o, loops, ret, closures, k), Len(o) > 1
  PROVE  Framed(Front(o), o[Len(o)].saved.loops, o[Len(o)].saved.ret,
                closures - One(o[Len(o)].kind), k)
<1> DEFINE m == Len(o)
           n == m - 1
           t == Front(o)
           loops2 == o[m].saved.loops
           kind == o[m].kind
<1>1. o \in Seq(Frame) /\ m \in Nat /\ n \in Nat /\ n > 0 /\ m <= MaxOpen /\ MaxOpen \in Nat
  BY ScopesAssumption DEF Framed
<1>2. m \in 1 .. m /\ o[m] \in Frame
  BY <1>1
<1>3. t \in Seq(Frame) /\ Len(t) = n /\ \A p \in 1 .. n : t[p] = o[p]
  BY <1>1 DEF Front
<1>4. 1 .. m = (1 .. n) \cup {m} /\ m \notin 1 .. n
  BY <1>1
<1>5. closures - One(kind) = Cardinality(ClosuresIn(t))
  <2>1. /\ IsFiniteSet(ClosuresIn(o)) /\ ClosuresIn(o) \subseteq 1 .. m
        /\ closures = Cardinality(ClosuresIn(o)) /\ closures \in Nat
    BY <1>1, ClosuresCounted DEF Framed, ClosuresIn
  <2>2. ClosuresIn(t) = ClosuresIn(o) \ {m}
    BY <1>3, <1>4 DEF ClosuresIn
  <2>3. m \in ClosuresIn(o) <=> kind = "closure"
    BY <1>2 DEF ClosuresIn
  <2>4. Cardinality(ClosuresIn(o) \ {m}) = IF m \in ClosuresIn(o) THEN closures - 1 ELSE closures
    BY <2>1, FS_RemoveElement
  <2> QED BY <2>1, <2>2, <2>3, <2>4 DEF One
<1>6. ASSUME NEW p \in 1 .. n PROVE DepthAt(t, loops2, p) <= p
  <2>1. p \in 1 .. m /\ p # m
    BY <1>4
  <2>2. DepthAt(t, loops2, p) = DepthAt(o, loops, p)
    <3>1. CASE p = n
      BY <1>1, <1>3, <3>1 DEF DepthAt
    <3>2. CASE p # n
      <4>1. p + 1 \in 1 .. n
        BY <1>1, <3>2
      <4> QED BY <1>3, <2>1, <3>2, <4>1 DEF DepthAt
    <3> QED BY <3>1, <3>2
  <2> QED BY <2>1, <2>2 DEF Framed
<1>7. o[m].saved.ret \in 0 .. MaxBlocks
  BY <1>2 DEF Frame, Saved
<1> HIDE DEF t, loops2
<1>8. Len(t) <= MaxOpen /\ k \in 0 .. MaxBlocks
  BY <1>1, <1>3 DEF Framed
<1> QED BY <1>3, <1>5, <1>6, <1>7, <1>8 DEF Framed, t, loops2

LEMMA FramedEntered ==
  ASSUME NEW o, NEW loops, NEW ret, NEW closures, NEW k,
         StackInv(o, loops, ret), Framed(o, loops, ret, closures, k), o[Len(o)].kind = "cond"
  PROVE  Framed([o EXCEPT ![Len(o)].kind = "while"], loops + 1, ret, closures, k)
<1> DEFINE m == Len(o)
           t == [o EXCEPT ![m].kind = "while"]
<1>1. /\ o \in Seq(Frame) /\ m \in Nat /\ m > 0 /\ m <= MaxOpen /\ loops \in Nat
      /\ \A p \in 1 .. m : o[p].kind = "func" <=> p = 1
  BY DEF Framed, StackInv, Shape
<1>2. m \in 1 .. m /\ o[m] \in Frame /\ m # 1
  BY <1>1
<1>3. /\ t \in Seq(Frame) /\ Len(t) = m /\ t[m].kind = "while" /\ t[m].saved = o[m].saved
      /\ \A p \in 1 .. m : p # m => t[p] = o[p]
  <2>1. t = [o EXCEPT ![m] = [o[m] EXCEPT !.kind = "while"]]
    BY <1>1, <1>2
  <2>2. [o[m] EXCEPT !.kind = "while"] \in Frame
    BY <1>2 DEF Frame, Kinds
  <2> QED BY <1>1, <1>2, <2>1, <2>2 DEF Frame
<1>4. ClosuresIn(t) = ClosuresIn(o)
  BY <1>3 DEF ClosuresIn
<1>5. loops + 1 <= m
  <2>1. m - 1 \in 1 .. m /\ m - 1 # m /\ (m - 1) + 1 = m
    BY <1>1, <1>2
  <2>2. DepthAt(o, loops, m) = LoopsIn("cond", o[m].saved.loops)
    BY <1>2 DEF StackInv, Counted
  <2>3. loops = o[m].saved.loops
    BY <2>2 DEF DepthAt, LoopsIn, LoopBody, Barrier, GoFunc
  <2>4. DepthAt(o, loops, m - 1) = o[m].saved.loops
    BY <2>1 DEF DepthAt
  <2>5. DepthAt(o, loops, m - 1) <= m - 1
    BY <2>1 DEF Framed
  <2> HIDE DEF m
  <2> QED BY <1>1, <2>3, <2>4, <2>5
<1>6. ASSUME NEW p \in 1 .. m PROVE DepthAt(t, loops + 1, p) <= p
  <2>1. CASE p = m
    BY <1>3, <1>5, <2>1 DEF DepthAt
  <2>2. CASE p # m
    <3>1. p + 1 \in 1 .. m
      BY <1>1, <2>2
    <3>2. t[p + 1].saved = o[p + 1].saved
      BY <1>3, <3>1
    <3>3. DepthAt(t, loops + 1, p) = DepthAt(o, loops, p)
      BY <1>3, <2>2, <3>2 DEF DepthAt
    <3> QED BY <3>3 DEF Framed
  <2> QED BY <2>1, <2>2
<1> HIDE DEF t
<1> QED BY <1>1, <1>3, <1>4, <1>6 DEF Framed, t

-----------------------------------------------------------------------------
(* The actions of Scopes.                                                  *)

Rest ==
  /\ declSeq \in Nat /\ log \subseteq Entry
  /\ jump \subseteq [body : SUBSET (0 .. MaxBlocks), loop : SUBSET Frame]
  /\ verdict \in {"checking", "accepted", "duplicate", "stray"}

LinkInv ==
  /\ Inv /\ Framed(open, loopDepth, retType, closureDepth, entered)
  /\ Linked(scope, open, log, entered) /\ Rest

LEMMA LinkFacts ==
  ASSUME LinkInv
  PROVE  /\ open \in Seq(Block) /\ Len(open) \in Nat /\ Len(open) > 0 /\ open[1].kind = "func"
         /\ \A p \in 1 .. Len(open) : open[p].kind = "func" => p = 1
         /\ scope \in Seq(ScopeSet) /\ Len(scope) > 0 /\ entered \in 0 .. MaxBlocks
         /\ Len(open) <= MaxOpen /\ loopDepth \in 0 .. Len(open) /\ closureDepth \in 0 .. Len(open)
         /\ MaxOpen \in Nat /\ MaxBlocks \in Nat /\ declSeq \in Nat
<1>1. /\ open \in Seq(Block) /\ Len(open) \in Nat /\ Len(open) > 0 /\ loopDepth \in Nat
      /\ \A p \in 1 .. Len(open) : open[p].kind = "func" <=> p = 1
  BY DEF LinkInv, Inv, StackInv, Shape
<1>2. 1 \in 1 .. Len(open) /\ Len(open) \in 1 .. Len(open)
  BY <1>1
<1>3. PICK f : Chain(f, scope, open, log)
  BY DEF LinkInv, Linked
<1>4. scope \in Seq(ScopeSet) /\ Len(scope) > 0
  <2>1. scope \in Seq(ScopeSet)
    BY DEF LinkInv, Linked
  <2>2. PICK i \in 1 .. Len(scope) : f[i] = 1
    BY <1>1, <1>2, <1>3 DEF Chain
  <2> QED BY <2>1, <2>2
<1>5. DepthAt(open, loopDepth, Len(open)) <= Len(open)
  BY <1>2 DEF LinkInv, Framed
<1>6. closureDepth \in 0 .. Len(open)
  BY <1>1, ClosuresCounted DEF LinkInv, Framed
<1> QED BY <1>1, <1>2, <1>4, <1>5, <1>6, ScopesAssumption DEF LinkInv, Framed, DepthAt, Rest

\* A list of names makes a list of declarations.
LEMMA DeclsOfList ==
  ASSUME NEW names \in NameLists, NEW class \in {"$", "%", "&"}, NEW level \in 0 .. MaxOpen,
         NEW before \in Nat
  PROVE  DeclsOf(names, class, level, before) \in Seq(Decls)
<1>1. names \in Seq(Names) /\ Len(names) \in Nat
  BY NameListsAreLists
<1>2. ASSUME NEW i \in 1 .. Len(names)
      PROVE  Decl(names[i], Token(class, level, before + i)) \in Decls
  BY <1>1 DEF Decl, Token, Decls, Tokens
<1> QED BY <1>1, <1>2 DEF DeclsOf

LEMMA FreshTyped ==
  ASSUME LinkInv, NEW names \in NameLists
  PROVE  Fresh(names) \in Seq(Decls) /\ declSeq + Len(names) \in Nat
<1>1. declSeq \in Nat /\ 0 \in 0 .. MaxOpen
  BY LinkFacts
<1>2. names \in Seq(Names)
  BY NameListsAreLists
<1>3. declSeq + Len(names) \in Nat
  BY <1>1, <1>2
<1> QED BY <1>1, <1>3, DeclsOfList DEF Fresh

LEMMA LogTyped ==
  ASSUME log \subseteq Entry, NEW ds \in Seq(Decls), NEW b \in 0 .. MaxBlocks
  PROVE  LogOf(log, ds, b) \subseteq Entry
BY DEF LogOf, Entry

\* A scope with declarations of its own is entered, or refused.
LEMMA OpenScopeLink ==
  ASSUME LinkInv, Inv', NEW kind \in Kinds \ {"cond", "func"}, NEW ds \in Seq(Decls), NEW seq \in Nat,
         CanOpen,
         OpenScope(kind, ds, LoopsIn(kind, loopDepth), closureDepth + One(kind), seq)
  PROVE  LinkInv'
<1>1. CASE Declarable(Scope0, ds)
  <2> DEFINE b == [kind |-> kind, id |-> entered + 1, saved |-> [loops |-> loopDepth, ret |-> retType]]
  <2>1. /\ open' = Append(open, b) /\ entered' = entered + 1
        /\ scope' = Append(scope, Extend(Scope0, ds)) /\ log' = LogOf(log, ds, entered + 1)
        /\ loopDepth' = LoopsIn(kind, loopDepth) /\ closureDepth' = closureDepth + One(kind)
        /\ retType' = RetIn(kind, entered + 1, retType)
        /\ declSeq' = seq /\ UNCHANGED <<jump, verdict>>
    BY <1>1 DEF OpenScope, Push, Logged, LogOf, RetIn, GoFunc
  <2>2. b \in Block /\ b.id = entered + 1 /\ b.kind # "cond"
    BY LinkFacts DEF Block, LinkInv, Inv, StackInv, Shape
  <2>3. Linked(scope', open', log', entered')
    BY <1>1, <2>1, <2>2, LinkFacts, OpenedLinked DEF LinkInv
  <2>4. Framed(open', loopDepth', retType', closureDepth', entered')
    BY <2>1, LinkFacts, FramedPushed DEF LinkInv, Inv, CanOpen
  <2>5. entered + 1 \in 0 .. MaxBlocks
    BY LinkFacts DEF CanOpen
  <2>6. Rest'
    BY <2>1, <2>5, LogTyped DEF LinkInv, Rest
  <2> QED BY <2>3, <2>4, <2>6 DEF LinkInv
<1>2. CASE ~Declarable(Scope0, ds)
  BY <1>2 DEF OpenScope, Refuse, LinkInv, Rest
<1> QED BY <1>1, <1>2

\* Names are declared, or refused.
LEMMA DeclareLink ==
  ASSUME LinkInv, NEW ds \in Seq(Decls), Declare(ds), declSeq' \in Nat
  PROVE  LinkInv'
<1>1. CASE Declarable(scope[Len(scope)], ds)
  <2>1. /\ scope' = [scope EXCEPT ![Len(scope)] = Extend(@, ds)]
        /\ log' = LogOf(log, ds, open[Len(open)].id)
        /\ UNCHANGED <<loopDepth, closureDepth, retType, open, entered, jump, verdict>>
    BY <1>1 DEF Declare, Logged, LogOf, Top
  <2>2. open[Len(open)].kind # "cond"
    BY DEF Declare, Statement, Top
  <2>3. Linked(scope', open, log', entered)
    BY <1>1, <2>1, <2>2, LinkFacts, DeclaredLinked DEF LinkInv
  <2>4. open[Len(open)].id \in 0 .. MaxBlocks
    <3>1. open \in Seq(Frame) /\ Len(open) \in 1 .. Len(open)
      BY LinkFacts DEF LinkInv, Framed
    <3>2. open[Len(open)] \in Frame
      BY <3>1
    <3> QED BY <3>2 DEF Frame
  <2>5. Rest'
    BY <2>1, <2>4, LogTyped DEF LinkInv, Rest
  <2> QED BY <2>1, <2>3, <2>5 DEF LinkInv, Inv
<1>2. CASE ~Declarable(scope[Len(scope)], ds)
  BY <1>2 DEF Declare, Refuse, LinkInv, Inv, Rest
<1> QED BY <1>1, <1>2

\* A block is left.
LEMMA PopLink ==
  ASSUME LinkInv, Inv', NEW kinds, kinds \cap {"func", "cond"} = {}, Pop(kinds),
         loopDepth' = Top.saved.loops, retType' = Top.saved.ret,
         closureDepth' = closureDepth - One(Top.kind)
  PROVE  LinkInv'
<1>1. /\ open' = Front(open) /\ scope' = Front(scope)
      /\ UNCHANGED <<declSeq, entered, log, jump, verdict>>
      /\ open[Len(open)].kind # "cond" /\ open[Len(open)].kind # "func"
  BY DEF Pop, Top
<1>2. Len(open) > 1 /\ open[1].kind # "cond"
  BY <1>1, LinkFacts
<1>3. Linked(scope', open', log', entered')
  BY <1>1, <1>2, LinkFacts, PoppedLinked DEF LinkInv
<1>4. Framed(open', loopDepth', retType', closureDepth', entered')
  BY <1>1, <1>2, FramedPopped DEF LinkInv, Inv, Top
<1> QED BY <1>1, <1>3, <1>4 DEF LinkInv, Rest

\* What a break leaves is a block that is open.
LEMMA BreakLink ==
  ASSUME LinkInv, Break
  PROVE  LinkInv'
<1>1. UNCHANGED <<scope, loopDepth, closureDepth, declSeq, retType, open, entered, log>>
  BY DEF Break, Refuse
<1>2. jump' \subseteq [body : SUBSET (0 .. MaxBlocks), loop : SUBSET Frame]
      /\ verdict' \in {"checking", "accepted", "duplicate", "stray"}
  <2>1. CASE loopDepth = 0
    BY <2>1 DEF Break, Refuse, LinkInv, Rest
  <2>2. CASE loopDepth # 0
    <3>1. \A p \in DOMAIN open : open[p] \in Frame
      BY DEF LinkInv, Framed
    <3>2. BodyOfBreak \subseteq 0 .. MaxBlocks
      BY <3>1 DEF BodyOfBreak, Frame
    <3>3. LoopOfBreak \subseteq Frame
      BY <3>1 DEF LoopOfBreak
    <3>4. jump' = {[body |-> BodyOfBreak, loop |-> LoopOfBreak]} /\ verdict' = verdict
      BY <2>2 DEF Break
    <3> QED BY <3>2, <3>3, <3>4 DEF LinkInv, Rest
  <2> QED BY <2>1, <2>2
<1> QED BY <1>1, <1>2 DEF LinkInv, Inv, Rest

LEMMA NextLink == LinkInv /\ [Next]_vars => LinkInv'
<1> SUFFICES ASSUME LinkInv, [Next]_vars PROVE LinkInv'
  OBVIOUS
<1>1. Inv' /\ Inv
  BY NextInv DEF LinkInv
<1>2. CASE Let
  <2>1. PICK names \in NameLists :
          /\ Declare(Fresh(names))
          /\ declSeq' = IF verdict' = "checking" THEN declSeq + Len(names) ELSE declSeq
    BY <1>2 DEF Let
  <2>2. Fresh(names) \in Seq(Decls)
    BY FreshTyped
  <2>3. declSeq' \in Nat
    <3>1. Len(names) \in Nat
      BY NameListsAreLists
    <3> QED BY <2>1, <3>1, LinkFacts
  <2> QED BY <2>1, <2>2, <2>3, DeclareLink
<1>3. CASE Const
  <2>1. PICK n \in Names : Declare(<<Decl(n, Token("const", 0, 0))>>)
    BY <1>3 DEF Const
  <2>2. declSeq' \in Nat
    BY <1>3, LinkFacts DEF Const
  <2>3. Decl(n, Token("const", 0, 0)) \in Decls
    BY LinkFacts DEF Decl, Token, Decls, Tokens
  <2>4. <<Decl(n, Token("const", 0, 0))>> \in Seq(Decls)
    BY <2>3
  <2> QED BY <2>1, <2>2, <2>4, DeclareLink
<1>4. CASE OpenBranch
  <2>1. PICK names \in NameLists :
          /\ CanOpen
          /\ OpenScope("branch", Fresh(names), loopDepth, closureDepth, declSeq + Len(names))
    BY <1>4 DEF OpenBranch
  <2>2. Fresh(names) \in Seq(Decls) /\ declSeq + Len(names) \in Nat
    BY FreshTyped
  <2>3. LoopsIn("branch", loopDepth) = loopDepth /\ closureDepth + One("branch") = closureDepth
    BY LinkFacts DEF LoopsIn, LoopBody, Barrier, GoFunc, One
  <2> QED BY <1>1, <2>1, <2>2, <2>3, OpenScopeLink DEF Kinds
<1>5. CASE OpenWhile
  <2> DEFINE b == [kind |-> "cond", id |-> entered + 1, saved |-> [loops |-> loopDepth, ret |-> retType]]
  <2>1. /\ open' = Append(open, b) /\ entered' = entered + 1
        /\ UNCHANGED <<scope, loopDepth, closureDepth, declSeq, retType, log, jump, verdict>>
    BY <1>5 DEF OpenWhile, Push
  <2>2. b \in Block /\ b.id = entered + 1 /\ b.kind = "cond"
    BY LinkFacts DEF Block, Kinds, LinkInv, Inv, StackInv, Shape
  <2>3. Linked(scope', open', log', entered')
    BY <2>1, <2>2, LinkFacts, ConditionLinked DEF LinkInv
  <2>4. /\ LoopsIn("cond", loopDepth) = loopDepth /\ closureDepth + One("cond") = closureDepth
        /\ RetIn("cond", entered + 1, retType) = retType
    BY LinkFacts DEF LoopsIn, LoopBody, Barrier, GoFunc, One, RetIn
  <2>5. Framed(open', loopDepth, retType, closureDepth, entered')
    <3>1. Len(open) < MaxOpen /\ entered < MaxBlocks /\ "cond" \in Kinds
      BY <1>5 DEF OpenWhile, CanOpen, Kinds
    <3>2. Framed(Append(open, b), LoopsIn("cond", loopDepth), RetIn("cond", entered + 1, retType),
                 closureDepth + One("cond"), entered + 1)
      BY <3>1, FramedPushed DEF LinkInv, Inv
    <3> QED BY <2>1, <2>4, <3>2
  <2> QED BY <1>1, <2>1, <2>3, <2>5 DEF LinkInv, Rest
<1>6. CASE OpenBody
  <2>1. /\ open' = [open EXCEPT ![Len(open)].kind = "while"] /\ scope' = Append(scope, Scope0)
        /\ loopDepth' = loopDepth + 1 /\ open[Len(open)].kind = "cond"
        /\ UNCHANGED <<closureDepth, declSeq, retType, entered, log, jump, verdict>>
    BY <1>6 DEF OpenBody, Top
  <2>2. Linked(scope', open', log', entered')
    BY <2>1, LinkFacts, BodyLinked DEF LinkInv
  <2>3. Framed(open', loopDepth', retType', closureDepth', entered')
    BY <2>1, FramedEntered DEF LinkInv, Inv
  <2> QED BY <1>1, <2>1, <2>2, <2>3 DEF LinkInv, Rest
<1>7. CASE OpenFor
  <2>1. PICK names \in NameLists :
          /\ CanOpen
          /\ OpenScope("for", Fresh(names), loopDepth + 1, closureDepth, declSeq + Len(names))
    BY <1>7 DEF OpenFor
  <2>2. Fresh(names) \in Seq(Decls) /\ declSeq + Len(names) \in Nat
    BY FreshTyped
  <2>3. LoopsIn("for", loopDepth) = loopDepth + 1 /\ closureDepth + One("for") = closureDepth
    BY LinkFacts DEF LoopsIn, LoopBody, One
  <2> QED BY <1>1, <2>1, <2>2, <2>3, OpenScopeLink DEF Kinds
<1>8. CASE OpenYield
  <2>1. PICK n \in Names :
          CanOpen /\ OpenScope("yield", Fresh(<<n>>), 0, closureDepth, declSeq + 1)
    BY <1>8 DEF OpenYield
  <2>2. <<n>> \in NameLists /\ Len(<<n>>) = 1
    BY DEF NameLists
  <2>3. Fresh(<<n>>) \in Seq(Decls) /\ declSeq + 1 \in Nat
    BY <2>2, LinkFacts, FreshTyped
  <2>4. LoopsIn("yield", loopDepth) = 0 /\ closureDepth + One("yield") = closureDepth
    BY LinkFacts DEF LoopsIn, LoopBody, Barrier, GoFunc, One
  <2> QED BY <1>1, <2>1, <2>3, <2>4, OpenScopeLink DEF Kinds
<1>9. CASE OpenClosure
  <2>1. PICK names \in NameLists :
          /\ CanOpen
          /\ OpenScope("closure", ClosureParams(names), 0, closureDepth + 1, declSeq)
    BY <1>9 DEF OpenClosure
  <2>2. closureDepth + 1 \in 0 .. MaxOpen
    BY <2>1, LinkFacts DEF CanOpen
  <2>3. ClosureParams(names) \in Seq(Decls)
    BY <2>2, DeclsOfList DEF ClosureParams
  <2>4. LoopsIn("closure", loopDepth) = 0 /\ closureDepth + One("closure") = closureDepth + 1
    BY DEF LoopsIn, LoopBody, Barrier, GoFunc, One
  <2> QED BY <1>1, <2>1, <2>3, <2>4, LinkFacts, OpenScopeLink DEF Kinds
<1>10. CASE CloseBranch
  <2>1. Pop({"branch"}) /\ Top.kind = "branch" /\ UNCHANGED <<loopDepth, closureDepth, retType>>
    BY <1>10 DEF CloseBranch, Pop
  <2>2. /\ loopDepth = Top.saved.loops /\ retType = Top.saved.ret
        /\ closureDepth - One(Top.kind) = closureDepth
    BY <1>1, <2>1, TopCounted, LinkFacts DEF LoopsIn, RetIn, LoopBody, Barrier, GoFunc, One
  <2> QED BY <1>1, <2>1, <2>2, PopLink
<1>11. CASE CloseLoop
  <2>1. /\ Pop({"while", "for"}) /\ Top.kind \in {"while", "for"}
        /\ loopDepth' = loopDepth - 1 /\ UNCHANGED <<closureDepth, retType>>
    BY <1>11 DEF CloseLoop, Pop
  <2>2. /\ loopDepth - 1 = Top.saved.loops /\ retType = Top.saved.ret
        /\ closureDepth - One(Top.kind) = closureDepth
    BY <1>1, <2>1, TopCounted, LinkFacts DEF LoopsIn, RetIn, LoopBody, Barrier, GoFunc, One
  <2> QED BY <1>1, <2>1, <2>2, PopLink
<1>12. CASE CloseYield
  <2>1. /\ Pop({"yield"}) /\ Top.kind = "yield"
        /\ loopDepth' = Top.saved.loops /\ UNCHANGED <<closureDepth, retType>>
    BY <1>12 DEF CloseYield, Pop
  <2>2. retType = Top.saved.ret /\ closureDepth - One(Top.kind) = closureDepth
    BY <1>1, <2>1, TopCounted, LinkFacts DEF RetIn, GoFunc, One
  <2> QED BY <1>1, <2>1, <2>2, PopLink
<1>13. CASE CloseClosure
  <2>1. /\ Pop({"closure"}) /\ Top.kind = "closure"
        /\ loopDepth' = Top.saved.loops /\ retType' = Top.saved.ret
        /\ closureDepth' = closureDepth - One(Top.kind)
    BY <1>13 DEF CloseClosure, Pop, One
  <2> QED BY <1>1, <2>1, PopLink
<1>14. CASE CloseFunc
  BY <1>14 DEF CloseFunc, LinkInv, Inv, Rest
<1>15. CASE Break
  BY <1>15, BreakLink
<1>16. CASE Stopped \/ UNCHANGED vars
  BY <1>16 DEF Stopped, vars, LinkInv, Inv, Rest
<1> QED BY <1>2, <1>3, <1>4, <1>5, <1>6, <1>7, <1>8, <1>9, <1>10, <1>11, <1>12,
           <1>13, <1>14, <1>15, <1>16 DEF Next

LEMMA InitLink == Init => LinkInv
<1> SUFFICES ASSUME Init PROVE LinkInv
  OBVIOUS
<1> DEFINE b == [kind |-> "func", id |-> 0, saved |-> [loops |-> 0, ret |-> 0]]
<1>1. Inv
  BY InitInv
<1>2. /\ open = <<b>> /\ loopDepth = 0 /\ closureDepth = 0 /\ declSeq = 0 /\ retType = 0
      /\ entered = 0 /\ jump = {} /\ verdict = "checking"
  BY DEF Init
<1>3. PICK names \in NameLists :
        /\ Declarable(Scope0, Params(names)) /\ scope = <<Extend(Scope0, Params(names))>>
        /\ log = {[decl |-> Params(names)[i], block |-> 0] : i \in DOMAIN names}
  BY DEF Init
<1>4. MaxOpen \in Nat \ {0} /\ MaxBlocks \in Nat \ {0}
  BY ScopesAssumption
<1>5. b \in Frame
  BY <1>4 DEF Frame, Kinds, Saved
<1>6. open \in Seq(Frame) /\ Len(open) = 1 /\ open[1] = b
  BY <1>2, <1>5
<1>7. Framed(open, loopDepth, retType, closureDepth, entered)
  <2>1. ClosuresIn(open) = {}
    BY <1>6 DEF ClosuresIn
  <2>2. \A p \in 1 .. Len(open) : DepthAt(open, loopDepth, p) <= p
    BY <1>2, <1>6 DEF DepthAt
  <2> HIDE DEF b
  <2> QED BY <1>2, <1>4, <1>6, <2>1, <2>2, FS_EmptySet DEF Framed
<1>8. Params(names) \in Seq(Decls)
  BY <1>4, DeclsOfList DEF Params
<1>9. log = LogOf({}, Params(names), 0)
  <2>1. names \in Seq(Names)
    BY NameListsAreLists
  <2>2. DOMAIN names = DOMAIN Params(names)
    BY <2>1 DEF Params, DeclsOf
  <2> QED BY <1>3, <2>2 DEF LogOf
<1> DEFINE s == Extend(Scope0, Params(names))
<1>10. s \in ScopeSet /\ Says(s, log, 0)
  <2>1. Says(Scope0, {}, 0) /\ Scope0 \in ScopeSet
    BY SaysNothing
  <2> QED BY <1>3, <1>8, <1>9, <2>1, SaysExtended
<1> HIDE DEF s
<1>11. scope \in Seq(ScopeSet) /\ Len(scope) = 1 /\ scope[1] = s
  BY <1>3, <1>10 DEF s
<1>12. Chain([i \in {1} |-> 1], scope, open, log)
  <2>1. 1 .. 1 = {1} /\ open[1].kind # "cond" /\ open[1].id = 0
    BY <1>6
  <2> HIDE DEF b
  <2> QED BY <1>6, <1>10, <1>11, <2>1 DEF Chain
<1>13. Numbers(open, log, 0)
  <2>1. \A d \in log : d.block = 0
    BY <1>3
  <2> QED BY <1>6, <2>1 DEF Numbers
<1>14. Rest
  <2>1. LogOf({}, Params(names), 0) \subseteq Entry
    BY <1>4, <1>8 DEF LogOf, Entry
  <2> QED BY <1>2, <1>9, <2>1 DEF Rest
<1> QED BY <1>1, <1>2, <1>7, <1>11, <1>12, <1>13, <1>14 DEF LinkInv, Linked

\* The chain of scopes and the stack of blocks belong together, always.
THEOREM ChainHolds == Spec => []LinkInv
<1>1. Init => LinkInv
  BY InitLink
<1>2. LinkInv /\ [Next]_vars => LinkInv'
  BY NextLink
<1> QED BY <1>1, <1>2, PTL DEF Spec

\* The counters of the checker never exceed the blocks that are open, and the
\* scopes hold tokens only (pushScope, popScope, loopDepth, closureDepth).
THEOREM TypeCorrect == Spec => []TypeOK
<1>1. LinkInv => TypeOK
  <2> SUFFICES ASSUME LinkInv PROVE TypeOK
    OBVIOUS
  <2>1. open \in Seq(Frame) /\ retType \in 0 .. MaxBlocks
    BY DEF LinkInv, Framed
  <2>2. open # <<>> /\ scope # <<>>
    BY LinkFacts
  <2> QED BY <2>1, <2>2, LinkFacts DEF LinkInv, Rest, TypeOK, ScopeSet
<1> QED BY <1>1, ChainHolds, PTL

\* A name means its declaration in the nearest block around it that has one,
\* and one only, in every body and at every place of it (pushScope, popScope,
\* lookup).
THEOREM LexicalLookupHolds == Spec => []LexicalLookup
<1>1. LinkInv => LexicalLookup
  <2> SUFFICES ASSUME LinkInv, NEW n \in Names
               PROVE  /\ Lookup(n) = {d.decl.token : d \in Nearest(n)}
                      /\ Cardinality(Nearest(n)) <= 1
    BY DEF LexicalLookup
  <2>1. /\ Lookup(n) = {d.decl.token : d \in Nearest(n)}
        /\ Nearest(n) = {} \/ \E e : Nearest(n) = {e}
    BY LinkFacts, LinkedLookup DEF LinkInv
  <2>2. Cardinality(Nearest(n)) = 0 \/ Cardinality(Nearest(n)) = 1
    BY <2>1, FS_EmptySet, FS_Singleton
  <2> QED BY <2>1, <2>2
<1> QED BY <1>1, ChainHolds, PTL

-----------------------------------------------------------------------------
(* The parameters of the closures.                                         *)

UpTo(o, p) == {q \in 1 .. p : o[q].kind = "closure"}

\* A parameter of a closure that is open has the depth of that closure.
Nested(o, l) ==
  \A d \in l : d.decl.token.class = "&" =>
    \A p \in 1 .. Len(o) :
      o[p].id = d.block => o[p].kind = "closure" /\ d.decl.token.level = Cardinality(UpTo(o, p))

\* The blocks are a list after a step too.
LEMMA OpenAfter == ASSUME LinkInv' PROVE open' \in Seq(Block) /\ Len(open') \in Nat
<1>1. open' \in Seq(Block)
  BY DEF LinkInv, Inv, StackInv, Shape
<1> QED BY <1>1

\* What is said of a block is not disturbed by the blocks inside it.
LEMMA NestedPrefix ==
  ASSUME NEW o \in Seq(Block), NEW t \in Seq(Block), NEW n \in Nat, n <= Len(o), n <= Len(t),
         \A p \in 1 .. n : t[p] = o[p], NEW l, Nested(o, l), NEW d \in l,
         d.decl.token.class = "&", NEW p \in 1 .. n, t[p].id = d.block
  PROVE  t[p].kind = "closure" /\ d.decl.token.level = Cardinality(UpTo(t, p))
<1>1. p \in 1 .. Len(o) /\ t[p] = o[p]
  OBVIOUS
<1>2. UpTo(t, p) = UpTo(o, p)
  BY DEF UpTo
<1> QED BY <1>1, <1>2 DEF Nested

\* A block is entered with the parameters of a closure, or with none.
LEMMA NestedPushed ==
  ASSUME LinkInv, LinkInv', Nested(open, log), NEW b \in Block, b.id = entered + 1,
         open' = Append(open, b), NEW ds,
         log' = LogOf(log, ds, entered + 1),
         \A i \in DOMAIN ds : ds[i].token.class = "&" =>
           b.kind = "closure" /\ ds[i].token.level = closureDepth'
  PROVE  Nested(open', log')
<1> DEFINE n == Len(open)
<1>1. /\ open \in Seq(Block) /\ open' \in Seq(Block) /\ n \in Nat /\ Len(open') = n + 1
      /\ open'[n + 1] = b /\ \A p \in 1 .. n : open'[p] = open[p]
  BY LinkFacts
<1>2. Numbers(open, log, entered)
  BY DEF LinkInv, Linked
<1>3. closureDepth' = Cardinality(UpTo(open', n + 1))
  BY <1>1 DEF LinkInv, Framed, ClosuresIn, UpTo
<1> SUFFICES ASSUME NEW d \in log', d.decl.token.class = "&", NEW p \in 1 .. n + 1,
                    open'[p].id = d.block
             PROVE  open'[p].kind = "closure" /\ d.decl.token.level = Cardinality(UpTo(open', p))
  BY <1>1 DEF Nested
<1>4. CASE d \in log
  <2>1. d.block \in 0 .. entered /\ entered \in Nat
    BY <1>2, <1>4 DEF Numbers
  <2>2. p # n + 1
    BY <1>1, <2>1
  <2>3. p \in 1 .. n /\ n <= Len(open) /\ n <= Len(open')
    BY <1>1, <2>2
  <2> HIDE DEF n
  <2>4. UpTo(open', p) = UpTo(open, p) /\ open'[p] = open[p] /\ p \in 1 .. Len(open)
    BY <1>1, <2>3 DEF UpTo
  <2> QED BY <1>4, <2>4 DEF Nested
<1>5. CASE d \notin log
  <2>1. PICK i \in DOMAIN ds : d = [decl |-> ds[i], block |-> entered + 1]
    BY <1>5 DEF LogOf
  <2>2. p = n + 1
    BY <1>1, <1>2, <2>1 DEF Numbers
  <2> QED BY <1>1, <1>3, <2>1, <2>2
<1> QED BY <1>4, <1>5

\* Variables and consts are no parameters.
LEMMA NestedDeclared ==
  ASSUME Nested(open, log), UNCHANGED open, NEW ds, NEW b, log' = LogOf(log, ds, b),
         \A i \in DOMAIN ds : ds[i].token.class # "&"
  PROVE  Nested(open', log')
BY DEF Nested, LogOf

LEMMA NestedOpened ==
  ASSUME LinkInv, LinkInv', Nested(open, log), NEW kind, NEW ds, NEW loops, NEW closures, NEW seq,
         OpenScope(kind, ds, loops, closures, seq),
         \A i \in DOMAIN ds : ds[i].token.class = "&" =>
           kind = "closure" /\ ds[i].token.level = closures
  PROVE  Nested(open', log')
<1>1. CASE Declarable(Scope0, ds)
  <2> DEFINE b == [kind |-> kind, id |-> entered + 1, saved |-> [loops |-> loopDepth, ret |-> retType]]
  <2>1. /\ open' = Append(open, b) /\ log' = LogOf(log, ds, entered + 1) /\ closureDepth' = closures
    BY <1>1 DEF OpenScope, Push, Logged, LogOf
  <2>2. b \in Block
    <3>1. open' \in Seq(Block) /\ Len(open) + 1 \in 1 .. Len(open')
      BY <2>1, LinkFacts, OpenAfter
    <3>2. open'[Len(open) + 1] = b
      BY <2>1, LinkFacts
    <3> HIDE DEF b
    <3> QED BY <3>1, <3>2
  <2> QED BY <2>1, <2>2, NestedPushed
<1>2. CASE ~Declarable(Scope0, ds)
  BY <1>2 DEF OpenScope, Refuse
<1> QED BY <1>1, <1>2

LEMMA FreshAreVariables ==
  ASSUME NEW names \in NameLists
  PROVE  \A i \in DOMAIN Fresh(names) : Fresh(names)[i].token.class = "%"
<1>1. names \in Seq(Names)
  BY NameListsAreLists
<1> QED BY <1>1 DEF Fresh, DeclsOf, Decl, Token

LEMMA NextNested == LinkInv /\ LinkInv' /\ Nested(open, log) /\ [Next]_vars => Nested(open', log')
<1> SUFFICES ASSUME LinkInv, LinkInv', Nested(open, log), [Next]_vars PROVE Nested(open', log')
  OBVIOUS
<1>1. CASE Let
  <2>1. PICK names \in NameLists : Declare(Fresh(names))
    BY <1>1 DEF Let
  <2>2. CASE Declarable(scope[Len(scope)], Fresh(names))
    <3>1. UNCHANGED open /\ log' = LogOf(log, Fresh(names), Top.id)
      BY <2>1, <2>2 DEF Declare, Logged, LogOf
    <3> QED BY <3>1, FreshAreVariables, NestedDeclared
  <2>3. CASE ~Declarable(scope[Len(scope)], Fresh(names))
    BY <2>1, <2>3 DEF Declare, Refuse
  <2> QED BY <2>2, <2>3
<1>2. CASE Const
  <2>1. PICK n \in Names : Declare(<<Decl(n, Token("const", 0, 0))>>)
    BY <1>2 DEF Const
  <2> DEFINE ds == <<Decl(n, Token("const", 0, 0))>>
  <2>2. CASE Declarable(scope[Len(scope)], ds)
    <3>1. UNCHANGED open /\ log' = LogOf(log, ds, Top.id)
      BY <2>1, <2>2 DEF Declare, Logged, LogOf
    <3>2. \A i \in DOMAIN ds : ds[i].token.class # "&"
      BY DEF Decl, Token
    <3> QED BY <3>1, <3>2, NestedDeclared
  <2>3. CASE ~Declarable(scope[Len(scope)], ds)
    BY <2>1, <2>3 DEF Declare, Refuse
  <2> QED BY <2>2, <2>3
<1>3. CASE OpenBranch
  BY <1>3, FreshAreVariables, NestedOpened DEF OpenBranch
<1>4. CASE OpenFor
  BY <1>4, FreshAreVariables, NestedOpened DEF OpenFor
<1>5. CASE OpenYield
  <2>1. PICK n \in Names : OpenScope("yield", Fresh(<<n>>), 0, closureDepth, declSeq + 1)
    BY <1>5 DEF OpenYield
  <2>2. <<n>> \in NameLists
    BY DEF NameLists
  <2> QED BY <2>1, <2>2, FreshAreVariables, NestedOpened
<1>6. CASE OpenClosure
  <2>1. PICK names \in NameLists :
          OpenScope("closure", ClosureParams(names), 0, closureDepth + 1, declSeq)
    BY <1>6 DEF OpenClosure
  <2>2. \A i \in DOMAIN ClosureParams(names) :
          ClosureParams(names)[i].token.level = closureDepth + 1
    BY DEF ClosureParams, DeclsOf, Decl, Token
  <2> QED BY <2>1, <2>2, NestedOpened
<1>7. CASE OpenWhile
  <2> DEFINE b == [kind |-> "cond", id |-> entered + 1, saved |-> [loops |-> loopDepth, ret |-> retType]]
  <2>1. open' = Append(open, b) /\ log' = LogOf(log, <<>>, entered + 1)
    BY <1>7 DEF OpenWhile, Push, LogOf
  <2>2. b \in Block
    BY LinkFacts DEF Block, Kinds, LinkInv, Inv, StackInv, Shape
  <2> QED BY <2>1, <2>2, NestedPushed
<1>8. CASE OpenBody
  <2> DEFINE m == Len(open)
  <2>1. /\ open' = [open EXCEPT ![m].kind = "while"] /\ log' = log /\ open[m].kind = "cond"
        /\ open \in Seq(Block) /\ open' \in Seq(Block) /\ m \in Nat /\ m > 0
    BY <1>8, LinkFacts, OpenAfter DEF OpenBody, Top
  <2>2. Len(open') = m /\ open'[m].id = open[m].id /\ \A p \in 1 .. m - 1 : open'[p] = open[p]
    <3>1. open' = [open EXCEPT ![m] = [open[m] EXCEPT !.kind = "while"]] /\ m \in 1 .. m
      BY <2>1
    <3>2. open[m] \in Block
      BY <2>1, <3>1
    <3>3. [open[m] EXCEPT !.kind = "while"].id = open[m].id
      BY <3>2 DEF Block
    <3> QED BY <2>1, <3>1, <3>3
  <2>3. \A d \in log : d.block # open[m].id
    BY <2>1 DEF LinkInv, Linked, Numbers
  <2> HIDE DEF m
  <2> SUFFICES ASSUME NEW d \in log, d.decl.token.class = "&", NEW p \in 1 .. m,
                      open'[p].id = d.block
               PROVE  open'[p].kind = "closure" /\ d.decl.token.level = Cardinality(UpTo(open', p))
    BY <2>1, <2>2 DEF Nested
  <2> DEFINE k == m - 1
  <2>4. p # m
    BY <2>2, <2>3
  <2>5. /\ p \in 1 .. k /\ k \in Nat /\ k <= Len(open) /\ k <= Len(open')
        /\ \A q \in 1 .. k : open'[q] = open[q]
    BY <2>1, <2>2, <2>4 DEF m
  <2>6. UpTo(open', p) = UpTo(open, p) /\ open'[p] = open[p] /\ p \in 1 .. Len(open)
    <3> HIDE DEF k
    <3> QED BY <2>1, <2>5 DEF UpTo
  <2> QED BY <2>6 DEF Nested
<1>9. CASE CloseBranch \/ CloseLoop \/ CloseYield \/ CloseClosure
  <2> DEFINE n == Len(open')
  <2>1. open' = Front(open) /\ log' = log
    BY <1>9 DEF CloseBranch, CloseLoop, CloseYield, CloseClosure, Pop
  <2>2. open \in Seq(Block) /\ open' \in Seq(Block) /\ n \in Nat /\ Len(open) > 0
    BY LinkFacts, OpenAfter
  <2>3. n <= Len(open) /\ \A p \in 1 .. n : open'[p] = open[p]
    BY <2>1, <2>2 DEF Front
  <2> HIDE DEF n
  <2>4. ASSUME NEW d \in log, d.decl.token.class = "&", NEW p \in 1 .. n, open'[p].id = d.block
        PROVE  open'[p].kind = "closure" /\ d.decl.token.level = Cardinality(UpTo(open', p))
    BY <2>2, <2>3, <2>4, NestedPrefix DEF n
  <2> QED BY <2>1, <2>4 DEF Nested, n
<1>10. CASE CloseFunc \/ Break \/ Stopped \/ UNCHANGED vars
  BY <1>10 DEF CloseFunc, Break, Refuse, Stopped, vars
<1> QED BY <1>1, <1>2, <1>3, <1>4, <1>5, <1>6, <1>7, <1>8, <1>9, <1>10 DEF Next

\* What lookup finds was declared in a block that is open.
LEMMA NearestIsOpen ==
  ASSUME LinkInv, NEW n \in Names, NEW d \in Nearest(n)
  PROVE  d \in log /\ \E p \in DOMAIN open : open[p].id = d.block
<1> DEFINE T == {p \in DOMAIN open : Here(log, n, open[p].id) # {}}
<1>1. Nearest(n) = IF T = {} THEN {} ELSE Here(log, n, open[Max(T)].id)
  BY DEF Nearest, Here
<1>2. Len(open) \in Nat /\ T \in SUBSET (1 .. Len(open)) /\ T \subseteq DOMAIN open
  BY LinkFacts
<1> HIDE DEF T
<1>3. T # {}
  BY <1>1
<1>4. PICK m \in T : \A i \in T : m >= i
  BY <1>2, <1>3, Greatest
<1>5. T \subseteq Nat
  BY <1>2
<1>6. Max(T) = m
  BY <1>4, <1>5, MaxIs
<1> QED BY <1>1, <1>2, <1>3, <1>4, <1>6 DEF Here

\* A parameter of a closure has the depth of the closure it belongs to, in
\* every nest of closures, yields and blocks (closureDepth in
\* resolveClosureLit and checkClosureBody).
THEOREM ParamsDenoteTheirClosureHolds == Spec => []ParamsDenoteTheirClosure
<1>1. Init => Nested(open, log)
  <2> SUFFICES ASSUME Init PROVE Nested(open, log)
    OBVIOUS
  <2>1. PICK names \in NameLists :
          log = {[decl |-> Params(names)[i], block |-> 0] : i \in DOMAIN names}
    BY DEF Init
  <2>2. names \in Seq(Names)
    BY NameListsAreLists
  <2>3. \A i \in DOMAIN names : Params(names)[i].token.class = "$"
    BY <2>2 DEF Params, DeclsOf, Decl, Token
  <2> QED BY <2>1, <2>3 DEF Nested
<1>2. LinkInv /\ LinkInv' /\ Nested(open, log) /\ [Next]_vars => Nested(open', log')
  BY NextNested
<1>3. LinkInv /\ Nested(open, log) => ParamsDenoteTheirClosure
  <2> SUFFICES ASSUME LinkInv, Nested(open, log), NEW n \in Names, NEW d \in Nearest(n),
                      d.decl.token.class = "&"
               PROVE  \E p \in DOMAIN open :
                        /\ open[p].id = d.block /\ open[p].kind = "closure"
                        /\ d.decl.token.level = Cardinality(ClosuresUpTo(p))
    BY DEF ParamsDenoteTheirClosure
  <2>1. PICK p \in DOMAIN open : open[p].id = d.block
    BY NearestIsOpen
  <2>2. d \in log /\ p \in 1 .. Len(open)
    BY NearestIsOpen, LinkFacts
  <2> QED BY <2>1, <2>2 DEF Nested, UpTo, ClosuresUpTo
<1>4. Nested(open, log)' <=> Nested(open', log')
  BY DEF Nested, UpTo
<1> QED BY <1>1, <1>2, <1>3, <1>4, ChainHolds, PTL DEF Spec

=============================================================================
