------------------------------- MODULE Scopes -------------------------------
(***************************************************************************)
(* Names, blocks and loops in the body of one function: how the checker    *)
(* (funcChecker) opens and closes its scopes, hands out the tokens the     *)
(* generator emits, and counts the loops a break may leave.                *)
(*                                                                         *)
(* A behaviour is a walk through a function body, block by block; the body *)
(* is whatever the walk meets.  open holds the blocks the walk is in, and  *)
(* with them the Go blocks that are open in the emitted code: the two are  *)
(* nested alike, but the LOOP of a while begins before its condition.      *)
(* Types are in module Typing.                                             *)
(***************************************************************************)
EXTENDS Integers, Sequences, FiniteSets, SequencesExt

CONSTANTS
  Names, None,
  MaxOpen,     \* how deeply blocks are nested
  MaxBlocks,   \* how many blocks the body has
  MaxDecls     \* how many names it declares

ASSUME ScopesAssumption ==
  /\ None \notin Names
  /\ MaxOpen \in Nat \ {0} /\ MaxBlocks \in Nat \ {0} /\ MaxDecls \in Nat

VARIABLES
  scope,        \* the chain of scopes, the innermost last
  loopDepth, closureDepth, declSeq,
  retType,      \* the return type that governs: the number of the function's block
  open,         \* the blocks around the expression being checked
  entered,      \* how many blocks were entered: the number of the last
  log,          \* every declaration so far, with the block it stands in
  jump,         \* the last accepted break: the loop body it was checked in and
                \* the LOOP its BREAK leaves
  verdict

vars == <<scope, loopDepth, closureDepth, declSeq, retType, open, entered, log, jump, verdict>>

(***************************************************************************)
(* Tokens: $N is a parameter of the function, &L-N one of the closure that *)
(* is L closures deep, %name_N a variable.  A const has none.              *)
(***************************************************************************)
Token(class, level, n) == [class |-> class, level |-> level, n |-> n]

Tokens == [class : {"$", "%", "&", "const"}, level : 0 .. MaxOpen, n : Nat]

\* What a name that is not declared has instead of a token.
ASSUME NoneAssumption == None \notin Tokens

Decl(name, token) == [name |-> name, token |-> token]
Decls == [name : Names, token : Tokens]

\* Lists of names: none, one or two of them.
NameLists == {<<>>} \cup {<<n>> : n \in Names} \cup {<<n, m>> : n \in Names, m \in Names}

DeclsOf(names, class, level, before) ==
  [i \in 1 .. Len(names) |-> Decl(names[i], Token(class, level, before + i))]

Params(names) == DeclsOf(names, "$", 0, 0)
ClosureParams(names) == DeclsOf(names, "&", closureDepth + 1, 0)
Fresh(names) == DeclsOf(names, "%", 0, declSeq)

Scope0 == [n \in Names |-> None]

\* A scope with the declarations of a list added, in order.
Extend(s, ds) ==
  [n \in Names |-> IF \E i \in DOMAIN ds : ds[i].name = n
                     THEN (CHOOSE d \in Range(ds) : d.name = n).token
                     ELSE s[n]]

\* declare accepts them: none is declared in the scope, or twice in the list.
Declarable(s, ds) ==
  \A i \in DOMAIN ds : /\ s[ds[i].name] = None
                       /\ \A j \in DOMAIN ds : ds[j].name = ds[i].name => j = i

Room(names) == Cardinality(log) + Len(names) <= MaxDecls

Top == open[Len(open)]

\* An expression stands where a statement may only in the bodies; a condition
\* and the value of a yield hold expressions alone.
Statement == Top.kind \notin {"cond", "yield"}

Init ==
  \E names \in NameLists :
    /\ Len(names) <= MaxDecls /\ Declarable(Scope0, Params(names))
    /\ scope = <<Extend(Scope0, Params(names))>>
    /\ log = {[decl |-> Params(names)[i], block |-> 0] : i \in DOMAIN names}
    /\ loopDepth = 0 /\ closureDepth = 0 /\ declSeq = 0 /\ retType = 0
    /\ open = <<[kind |-> "func", id |-> 0, saved |-> [loops |-> 0, ret |-> 0]]>>
    /\ entered = 0 /\ jump = {} /\ verdict = "checking"
-----------------------------------------------------------------------------
(* Declarations.                                                           *)

\* A refusal ends the check: what the counters would be is read by nobody.
Refuse(why) ==
  /\ verdict' = why
  /\ UNCHANGED <<scope, loopDepth, closureDepth, declSeq, retType, open, entered, log, jump>>

Logged(ds, block) == log \cup {[decl |-> ds[i], block |-> block] : i \in DOMAIN ds}

\* let, let (a, b) and const, in the innermost scope.
Declare(ds) ==
  /\ verdict = "checking" /\ Statement
  /\ IF Declarable(scope[Len(scope)], ds)
       THEN /\ scope' = [scope EXCEPT ![Len(scope)] = Extend(@, ds)]
            /\ log' = Logged(ds, Top.id)
            /\ UNCHANGED <<loopDepth, closureDepth, retType, open, entered, jump, verdict>>
       ELSE Refuse("duplicate")

Let ==
  \E names \in NameLists \ {<<>>} :
    /\ Room(names)
    /\ Declare(Fresh(names))
    /\ declSeq' = IF verdict' = "checking" THEN declSeq + Len(names) ELSE declSeq

Const ==
  \E n \in Names :
    /\ Room(<<n>>)
    /\ Declare(<<Decl(n, Token("const", 0, 0))>>)
    /\ UNCHANGED declSeq
-----------------------------------------------------------------------------
(* Blocks.                                                                 *)

CanOpen == verdict = "checking" /\ Len(open) < MaxOpen /\ entered < MaxBlocks

Push(kind) ==
  /\ open' = Append(open, [kind |-> kind, id |-> entered + 1,
                            saved |-> [loops |-> loopDepth, ret |-> retType]])
  /\ entered' = entered + 1

\* A new scope that begins with declarations of its own: the scope in which
\* names are declared twice is never entered.
OpenScope(kind, ds, loops, closures, seq) ==
  IF Declarable(Scope0, ds)
    THEN /\ Push(kind)
         /\ scope' = Append(scope, Extend(Scope0, ds))
         /\ log' = Logged(ds, entered + 1)
         /\ loopDepth' = loops /\ closureDepth' = closures /\ declSeq' = seq
         /\ retType' = IF kind = "closure" THEN entered + 1 ELSE retType
         /\ UNCHANGED <<jump, verdict>>
    ELSE Refuse("duplicate")

\* A branch of an if, a case of a switch with the names it binds, or default.
OpenBranch ==
  \E names \in NameLists :
    /\ CanOpen /\ Room(names)
    /\ OpenScope("branch", Fresh(names), loopDepth, closureDepth, declSeq + Len(names))

\* The condition of a while is checked in the scope around it.
OpenWhile ==
  /\ CanOpen /\ Statement
  /\ Push("cond")
  /\ UNCHANGED <<scope, loopDepth, closureDepth, declSeq, retType, log, jump, verdict>>

\* Its body follows.
OpenBody ==
  /\ verdict = "checking" /\ Top.kind = "cond"
  /\ open' = [open EXCEPT ![Len(open)].kind = "while"]
  /\ scope' = Append(scope, Scope0)
  /\ loopDepth' = loopDepth + 1
  /\ UNCHANGED <<closureDepth, declSeq, retType, entered, log, jump, verdict>>

\* for x in items { } and for k, v in m { }.
OpenFor ==
  \E names \in NameLists \ {<<>>} :
    /\ CanOpen /\ Statement /\ Room(names)
    /\ OpenScope("for", Fresh(names), loopDepth + 1, closureDepth, declSeq + Len(names))

\* Mutation: the loops around a yield are still counted in it.
OpenYieldInLoop ==
  \E n \in Names :
    /\ CanOpen /\ Room(<<n>>)
    /\ OpenScope("yield", Fresh(<<n>>), loopDepth, closureDepth, declSeq + 1)

\* for x in items yield v.
OpenYield ==
  \E n \in Names :
    /\ CanOpen /\ Room(<<n>>)
    /\ OpenScope("yield", Fresh(<<n>>), 0, closureDepth, declSeq + 1)

\* Mutation: the body has a checker of its own, which counts from zero.
OpenClosureAnew ==
  \E names \in NameLists :
    /\ CanOpen /\ Room(names)
    /\ OpenScope("closure", ClosureParams(names), 0, closureDepth + 1, 0)

\* The closure of a let, whose name is declared after it, or of a pipe.
OpenClosure ==
  \E names \in NameLists :
    /\ CanOpen /\ Room(names)
    /\ OpenScope("closure", ClosureParams(names), 0, closureDepth + 1, declSeq)

Pop(kinds) ==
  /\ verdict = "checking" /\ Top.kind \in kinds
  /\ open' = Front(open)
  /\ scope' = Front(scope)
  /\ UNCHANGED <<declSeq, entered, log, jump, verdict>>

CloseBranch == Pop({"branch"}) /\ UNCHANGED <<loopDepth, closureDepth, retType>>

CloseLoop ==
  Pop({"while", "for"}) /\ loopDepth' = loopDepth - 1 /\ UNCHANGED <<closureDepth, retType>>

CloseYield ==
  Pop({"yield"}) /\ loopDepth' = Top.saved.loops /\ UNCHANGED <<closureDepth, retType>>

\* Mutations: the depth of closures, or the return type, is not restored; the
\* scope is kept.
CloseClosureDeep ==
  /\ Pop({"closure"})
  /\ loopDepth' = Top.saved.loops /\ retType' = Top.saved.ret /\ UNCHANGED closureDepth
CloseClosureTyped ==
  /\ Pop({"closure"})
  /\ loopDepth' = Top.saved.loops /\ closureDepth' = closureDepth - 1 /\ UNCHANGED retType
CloseClosureKept ==
  /\ verdict = "checking" /\ Top.kind = "closure"
  /\ open' = Front(open)
  /\ loopDepth' = Top.saved.loops /\ closureDepth' = closureDepth - 1
  /\ retType' = Top.saved.ret
  /\ UNCHANGED <<scope, declSeq, entered, log, jump, verdict>>

CloseClosure ==
  /\ Pop({"closure"})
  /\ loopDepth' = Top.saved.loops /\ closureDepth' = closureDepth - 1
  /\ retType' = Top.saved.ret

CloseFunc ==
  /\ verdict = "checking" /\ Top.kind = "func"
  /\ verdict' = "accepted"
  /\ UNCHANGED <<scope, loopDepth, closureDepth, declSeq, retType, open, entered, log, jump>>
-----------------------------------------------------------------------------
(* break and continue.                                                     *)

LoopBody == {"while", "for"}

\* The blocks that are Go loops in the emitted code, and those that are Go
\* functions.
GoLoop == {"cond", "while", "for", "yield"}
GoFunc == {"func", "closure"}

\* No block of one of these kinds is entered after the p-th.
NoneAfter(p, kinds) == \A q \in DOMAIN open : q > p => open[q].kind \notin kinds

Innermost(p, kinds) == open[p].kind \in kinds /\ NoneAfter(p, kinds)

\* What BREAK leaves in Go: the innermost LOOP that is open.
Lands(p) == Innermost(p, GoLoop) /\ NoneAfter(p, GoFunc)

\* The loop body a break stands in: the walk passes no closure and no yield
\* between the two.
StandsIn(p) == Innermost(p, LoopBody) /\ NoneAfter(p, GoFunc \cup {"yield"})

\* The same, as the blocks themselves: at most one.
BodyOfBreak == {open[p].id : p \in {q \in DOMAIN open : StandsIn(q)}}
LoopOfBreak == {open[p] : p \in {q \in DOMAIN open : Lands(q)}}

Break ==
  /\ verdict = "checking" /\ Statement
  /\ IF loopDepth = 0
       THEN Refuse("stray")
       ELSE /\ jump' = {[body |-> BodyOfBreak, loop |-> LoopOfBreak]}
            /\ UNCHANGED <<scope, loopDepth, closureDepth, declSeq, retType, open,
                           entered, log, verdict>>

Stopped == verdict # "checking" /\ UNCHANGED vars

Next ==
  \/ Let \/ Const
  \/ OpenBranch \/ OpenWhile \/ OpenBody \/ OpenFor \/ OpenYield \/ OpenClosure
  \/ CloseBranch \/ CloseLoop \/ CloseYield \/ CloseClosure \/ CloseFunc
  \/ Break
  \/ Stopped

Spec == Init /\ [][Next]_vars
-----------------------------------------------------------------------------
(* Properties                                                              *)

Kinds == {"func", "branch", "cond", "while", "for", "yield", "closure"}
Saved == [loops : 0 .. MaxOpen, ret : 0 .. MaxBlocks]
Frame == [kind : Kinds, id : 0 .. MaxBlocks, saved : Saved]
Entry == [decl : Decls, block : 0 .. MaxBlocks]

\* The variables hold values of their types, and the counters stay within the
\* blocks that are open.
TypeOK ==
  /\ scope \in Seq([Names -> Tokens \cup {None}]) /\ scope # <<>>
  /\ loopDepth \in 0 .. MaxOpen /\ closureDepth \in 0 .. MaxOpen
  /\ declSeq \in Nat /\ retType \in 0 .. MaxBlocks /\ entered \in 0 .. MaxBlocks
  /\ open \in Seq(Frame) /\ open # <<>>
  /\ log \subseteq Entry
  /\ jump \subseteq [body : SUBSET (0 .. MaxBlocks), loop : SUBSET Frame]
  /\ verdict \in {"checking", "accepted", "duplicate", "stray"}

\* What lookup finds in the chain of scopes.
Lookup(n) ==
  LET found == {i \in DOMAIN scope : scope[i][n] # None} IN
    IF found = {} THEN {} ELSE {scope[Max(found)][n]}

\* What the text says: the declarations of the name in the nearest block that
\* is still open and has one.
Nearest(n) ==
  LET here(p) == {d \in log : d.decl.name = n /\ d.block = open[p].id}
      found == {p \in DOMAIN open : here(p) # {}}
  IN  IF found = {} THEN {} ELSE here(Max(found))

\* A name always means its declaration in the nearest enclosing block, and one
\* only: blocks that are over leave nothing behind, and shadowing ends with
\* the block (pushScope and popScope in resolveBranches, resolveForExpr,
\* resolveClosureLit and the rest).
LexicalLookup ==
  \A n \in Names : Lookup(n) = {d.decl.token : d \in Nearest(n)} /\ Cardinality(Nearest(n)) <= 1

\* No two variables of a function, those of its closures included, share a Go
\* name: amivm repairs unused variables by searching for the first VAR of a
\* name (freshInternalName).
TokensUnique ==
  \A d, e \in log : d.decl.token.class = "%" /\ d.decl.token = e.decl.token => d = e

\* How many closures deep the p-th block is, itself included.
ClosuresUpTo(p) == {q \in 1 .. p : open[q].kind = "closure"}

\* &L-N in the emitted code is a parameter of the closure L deep in the nest
\* where it is used: a visible closure parameter is one of that closure
\* (closureDepth in resolveClosureLit, checkClosureBody).
ParamsDenoteTheirClosure ==
  \A n \in Names : \A d \in Nearest(n) :
    d.decl.token.class = "&" =>
      \E p \in DOMAIN open :
        /\ open[p].id = d.block /\ open[p].kind = "closure"
        /\ d.decl.token.level = Cardinality(ClosuresUpTo(p))

\* return and ? answer to the innermost function the expression is in, after
\* closures inside it are over as much as before (retType).
ReturnsToOwner ==
  \E p \in DOMAIN open : Innermost(p, GoFunc) /\ open[p].id = retType

\* break is accepted exactly inside the body of a loop, with no closure and no
\* yield between: a counter says what a stack of loops would (loopDepth).
BreakNeedsLoop ==
  (loopDepth > 0) <=> \E p \in DOMAIN open : open[p].kind \in LoopBody
                                             /\ NoneAfter(p, GoFunc \cup {"yield"})

\* An accepted break leaves the loop in whose body it stands, and nothing
\* else: never a function, never the LOOP of a yield.  The one exception is a
\* loop whose condition is being evaluated.
JumpsStayInLoop ==
  \A j \in jump :
    /\ j.body # {}
    /\ \E l \in j.loop : l.kind = "cond" \/ l.id \in j.body

\* break and continue act on the innermost loop only (amifl-spec.md:287), and
\* which one that is never needs to be named (expr.go:1002-1008): the loop the
\* checker accepted the break for is the loop its BREAK leaves.
BreakLandsInCheckedLoop == \A j \in jump : \A l \in j.loop : l.id \in j.body
=============================================================================
