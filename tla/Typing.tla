------------------------------- MODULE Typing -------------------------------
(***************************************************************************)
(* One function body through the checker and the generator: the types      *)
(* internal/sema gives to expressions, branches and diverging statements,  *)
(* and what internal/codegen emits for the annotated tree.  The generator  *)
(* trusts the annotations and the Go compiler behind it trusts nobody.     *)
(*                                                                         *)
(* An expression is a node of one shape.  Names are resolved (that is the  *)
(* subject of Scopes): a variable is its type, a function its signature.   *)
(***************************************************************************)
EXTENDS Integers, Sequences, TLC

CONSTANTS
  Programs,   \* the function bodies to consider, with their return types
  Depth,      \* how deep their trees are
  Nesting,    \* how deep in a type a List is looked for
  Types,      \* the types to consider
  ValueTypes, \* those that have values all through
  Bits,       \* the width of each integer type
  Signature,  \* the parameter types and the return type of each function
  Struct,     \* the fields of each struct, in order: a name and a type
  Enum        \* the variants of each enum, in order: a name and its fields

Signed   == {"Int8", "Int64"}
Unsigned == {"UInt8", "UInt64"}

\* A type is a constructor and its components.
Named(s)   == [con |-> s]
ListOf(t)  == [con |-> "List", of |-> t]
Pair(s, t) == [con |-> "Tuple2", fst |-> s, snd |-> t]

Unit  == Named("Unit")
Never == Named("Never")
Bool  == Named("Bool")
AnyT  == Named("Any")
ErrorT == Named("Error")
Untyped == Named("")    \* the empty string of sema: no expected type

IsInt(t)  == t.con \in Signed \cup Unsigned
IsUInt(t) == t.con \in Unsigned
IsList(t)  == t.con = "List"
IsTuple(t) == t.con = "Tuple2"
IsStruct(t) == t.con \in DOMAIN Struct
IsEnum(t)   == t.con \in DOMAIN Enum
IsFallible(t) == IsTuple(t) /\ t.snd = ErrorT     \* tuple2ErrorPayload

\* Fields are looked up by name.
NamesOf(fields) == {fields[i].name : i \in DOMAIN fields}
TypeIn(fields, name) == fields[CHOOSE i \in DOMAIN fields : fields[i].name = name].type
HasVariant(t, v) == IsEnum(t) /\ v \in NamesOf(Enum[t.con])
FieldsOf(t, v) ==
  Enum[t.con][CHOOSE i \in DOMAIN Enum[t.con] : Enum[t.con][i].name = v].fields

\* The fields one can read off a value of type t with a dot.
Readable(t) ==
  IF IsStruct(t) THEN Struct[t.con]
  ELSE IF IsTuple(t) THEN <<[name |-> "0", type |-> t.fst], [name |-> "1", type |-> t.snd]>>
  ELSE << >>

HasValues(t) == t \in ValueTypes

\* Where nothing is expected, or a value of a type.
Expected == Types \cup {Untyped}

\* The names a pattern can bind.
Bindable == UNION {UNION {NamesOf(Enum[e][i].fields) : i \in DOMAIN Enum[e]} : e \in DOMAIN Enum}

\* Declared fields have names of their own and types that have values.
Declared(fields) ==
  /\ fields \in Seq([name : STRING, type : ValueTypes])
  /\ \A i, j \in DOMAIN fields : fields[i].name = fields[j].name => i = j

\* The values of an integer type.
MaxOf(t) == IF IsUInt(t) THEN 2 ^ Bits[t.con] - 1 ELSE 2 ^ (Bits[t.con] - 1) - 1
MinOf(t) == IF IsUInt(t) THEN 0 ELSE -(2 ^ (Bits[t.con] - 1))

\* k: the kind; op: the operator or callee; n: a literal; ty: a variable's
\* type or a let's annotation; cs: the conditions of an if/elif chain or a
\* while, the subject of a switch, the bindings of a case; a: the operands,
\* blocks, named fields or cases; r: ResolvedType, once annotated.
Node(k, op, n, ty, cs, a) ==
  [k |-> k, op |-> op, n |-> n, ty |-> ty, cs |-> cs, a |-> a, r |-> Untyped]

\* The node e with another type, other parts and another annotation.
With(e, ty, cs, a, r) ==
  [k |-> e.k, op |-> e.op, n |-> e.n, ty |-> ty, cs |-> cs, a |-> a, r |-> r]
Annotated(e, a, r) == With(e, e.ty, e.cs, a, r)

IsLit(e) == e.k = "int"                      \* isAdaptableLiteral
Diverging(e) == e.k \in {"return", "break", "continue"}  \* isDivergentExpr
LastOf(b) == b.a[Len(b.a)]
EndsInLit(b) == b.a # << >> /\ IsLit(LastOf(b))
EndsInNever(b) == b.a # << >> /\ Diverging(LastOf(b))
HasElse(e) == Len(e.a) > Len(e.cs)

Levels == 0 .. Depth

\* What the parts of a node of each kind are.
Expression == {"int", "var", "bound", "unary", "binary", "if", "while", "list", "call", "struct",
               "variant", "tuple", "field", "try", "switch", "let", "assign", "discard",
               "return", "break", "continue"}
All(es, kinds) == \A i \in DOMAIN es : es[i].k \in kinds
Leaf == {"int", "var", "bound", "break", "continue"}
OverOne == {"unary", "field", "try", "let", "assign", "discard", "named"}

Shaped(e) ==
  /\ e.k \in Expression \cup {"block", "named", "case", "default"}
  /\ e.k \in {"var", "assign"} => e.ty \in ValueTypes
  /\ e.k = "let" => e.ty \in ValueTypes \cup {Untyped}
  /\ e.k = "struct" => IsStruct(e.ty) /\ e.ty \in ValueTypes
  /\ e.k = "variant" => e.ty \in ValueTypes
  /\ e.k = "unary" => e.op \in {"!", "-"}
  /\ e.k = "binary" => e.op \in {"&&", "<<", "+", "=="}
  /\ e.k = "call" => e.op \in DOMAIN Signature
  /\ e.k = "case" => All(e.cs, {"bound"})
  /\ e.k = "switch" => Len(e.cs) = 1 /\ All(e.cs, Expression) /\ All(e.a, {"case", "default"})
  /\ e.k = "if" => /\ Len(e.a) \in {Len(e.cs), Len(e.cs) + 1} /\ e.cs # << >>
                   /\ All(e.cs, Expression) /\ All(e.a, {"block"})
  /\ e.k = "while" => Len(e.cs) = 1 /\ All(e.cs, Expression) /\ Len(e.a) = 1 /\ All(e.a, {"block"})
  /\ e.k \in {"case", "default"} => Len(e.a) = 1 /\ All(e.a, {"block"})
  /\ e.k \in {"struct", "variant"} => All(e.a, {"named"})
  /\ e.k \notin {"case", "switch", "if", "while"} => e.cs = << >>
  /\ e.k \in Leaf => e.a = << >>
  /\ e.k \in OverOne => Len(e.a) = 1
  /\ e.k \in {"binary", "tuple"} => Len(e.a) = 2
  /\ e.k = "return" => Len(e.a) \in {0, 1}
  /\ e.k \in OverOne \cup {"block", "binary", "tuple", "list", "call", "return"} => All(e.a, Expression)

\* The nodes with parts in T, the trees of at most n levels.
NodesOver(T) == {e \in [k : STRING, op : STRING, n : Nat, ty : Expected,
                        cs : Seq(T), a : Seq(T), r : Expected] : Shaped(e)}
TreesAt[n \in Levels] == IF n = 0 THEN {} ELSE NodesOver(TreesAt[n - 1])

ASSUME TypingAssumption ==
  /\ Bits \in [Signed \cup Unsigned -> Nat \ {0}]
  /\ \A s \in Signed \cup Unsigned : 0 \in MinOf(Named(s)) .. MaxOf(Named(s))
  /\ Depth \in Nat /\ Nesting \in Nat
  /\ \A p \in Programs : /\ p.body \in TreesAt[Depth] /\ p.body.k = "block"
                         /\ p.ret \in ValueTypes \cup {Unit}

\* A type that has values all through is made of such types, and the other way
\* round; the types of elements are apart from those that stand for none.
ASSUME TypesAssumption ==
  /\ ValueTypes \subseteq Types /\ {Unit, Never, Bool, ErrorT} \subseteq Types
  /\ {Bool, ErrorT} \cup {Named(s) : s \in Signed \cup Unsigned} \subseteq ValueTypes
  /\ {Unit, Never} \cap ValueTypes = {} /\ {Untyped, AnyT} \cap Types = {}
  /\ \A t \in Types : \/ t = Named(t.con) /\ t.con \notin {"List", "Tuple2"}
                      \/ t.con = "List" /\ t = ListOf(t.of) /\ t.of \in Types
                      \/ t.con = "Tuple2" /\ t = Pair(t.fst, t.snd) /\ {t.fst, t.snd} \subseteq Types
  /\ \A t \in Types : IsList(t) => (t \in ValueTypes <=> t.of \in ValueTypes)
  /\ \A t \in Types : IsTuple(t) => (t \in ValueTypes <=> {t.fst, t.snd} \subseteq ValueTypes)

Basic == Signed \cup Unsigned \cup {"Bool", "Error", "Unit", "Never", "Any", "List", "Tuple2", ""}
ASSUME DeclaredAssumption ==
  /\ \A f \in DOMAIN Signature : /\ Signature[f].params \in Seq(ValueTypes \cup {AnyT})
                                 /\ Signature[f].ret \in ValueTypes \cup {Unit}
  /\ DOMAIN Struct \cap DOMAIN Enum = {} /\ (DOMAIN Struct \cup DOMAIN Enum) \cap Basic = {}
  /\ \A s \in DOMAIN Struct : Declared(Struct[s])
  /\ \A e \in DOMAIN Enum :
       /\ Enum[e] # << >>
       /\ \A i \in DOMAIN Enum[e] : Declared(Enum[e][i].fields)
       /\ \A i, j \in DOMAIN Enum[e] : Enum[e][i].name = Enum[e][j].name => i = j

-----------------------------------------------------------------------------
(***************************************************************************)
(* The checker.  A result is the type and the annotated node, or Bad.  The *)
(* context c holds the return type, the loop depth and the types of the     *)
(* names that the cases around bind.  An operator takes, as its first       *)
(* argument, the checker of the parts: a function of a node, the type       *)
(* expected of it and its context.                                          *)
(***************************************************************************)
Contexts == [ret : ValueTypes \cup {Unit}, loop : Nat, bound : [Bindable -> ValueTypes \cup {Untyped}]]

Bad == [ok |-> FALSE, t |-> Untyped, e |-> Node("bad", "", 0, Untyped, << >>, << >>)]
Typed(t, e) == [ok |-> TRUE, t |-> t, e |-> e]

AllOk(rs) == \A i \in DOMAIN rs : rs[i].ok
Trees(rs) == [i \in DOMAIN rs |-> rs[i].e]

\* The magnitude a literal under a minus sign may have.
\* Mutation: one too many.
NegatedLimitPlus(t) == IF IsUInt(t) THEN MaxOf(t) ELSE MaxOf(t) + 2
NegatedLimit(t) == IF IsUInt(t) THEN MaxOf(t) ELSE MaxOf(t) + 1

\* An integer literal, or a negated one, against the type it is to adapt to.
Literal(e, n, negated, x) ==
  LET t == IF x = Untyped THEN Named("Int64") ELSE x
      fits == n <= IF negated THEN NegatedLimit(t) ELSE MaxOf(t)
  IN  IF IsInt(t) /\ fits THEN Typed(t, Annotated(e, e.a, t)) ELSE Bad

First(S) == CHOOSE i \in S : \A j \in S : i <= j
\* The branch whose type the others must adapt to (pickBranchAnchor).
Anchor(bs) ==
  LET fixed == {i \in DOMAIN bs : ~EndsInLit(bs[i]) /\ ~EndsInNever(bs[i])}
      lives == {i \in DOMAIN bs : ~EndsInNever(bs[i])}
  IN  IF fixed # {} THEN First(fixed) ELSE IF lives # {} THEN First(lives) ELSE 1

\* Mutation: operands are always resolved from left to right.
LeftFirst(a, b) == TRUE
\* Whether the left operand is resolved before the right one.
ResolvedFirst(a, b) == ~(IsLit(a) /\ ~IsLit(b))

\* A resolved expression where type x is expected.
Against(res, x) ==
  IF res.ok /\ (x \in {Untyped, AnyT, res.t} \/ res.t = Never) THEN res ELSE Bad

\* Mutation: the type is resolved, not compared.
CheckAny(sub, e, x, c) == sub[e][IF x = AnyT THEN Untyped ELSE x][c]

\* checkExpr: every expression against its context, Never against any.
Check(sub, e, x, c) == Against(sub[e][IF x = AnyT THEN Untyped ELSE x][c], x)

\* checkBlock: every expression but the last has no value to lose.
BlockOf(b, x, rs) ==
  IF rs = << >> THEN IF x \in {Untyped, Unit} THEN Typed(Unit, b) ELSE Bad
  ELSE IF AllOk(rs) /\ \A i \in 1 .. Len(rs) - 1 : rs[i].t \in {Unit, Never}
  THEN Typed(rs[Len(rs)].t, Annotated(b, Trees(rs), b.r)) ELSE Bad
CheckBlock(sub, b, x, c) ==
  BlockOf(b, x, [i \in DOMAIN b.a |-> Check(sub, b.a[i], IF i = Len(b.a) THEN x ELSE Untyped, c)])

\* A binary node of operands p and q, unless they are wrong.
Binary(e, p, q, legal, r, t) ==
  IF p.ok /\ q.ok /\ legal THEN Typed(t, Annotated(e, <<p.e, q.e>>, r)) ELSE Bad

\* The two operands, the one that fixes the type first (resolveOperandTypes).
WithRight(sub, p, e, c) == <<p, Check(sub, e.a[2], p.t, c)>>
WithLeft(sub, q, e, c) == <<Check(sub, e.a[1], q.t, c), q>>
Operands(sub, e, x, c) ==
  IF ResolvedFirst(e.a[1], e.a[2]) THEN WithRight(sub, Check(sub, e.a[1], x, c), e, c)
                                   ELSE WithLeft(sub, Check(sub, e.a[2], x, c), e, c)

Logical(e, p, q)  == Binary(e, p, q, TRUE, Bool, Bool)
Shift(e, p, q)    == Binary(e, p, q, IsInt(p.t) /\ IsUInt(q.t), p.t, p.t)
Sum(e, o)         == Binary(e, o[1], o[2], o[1].t = o[2].t /\ IsInt(o[1].t), o[1].t, o[1].t)
Equality(e, o)    == Binary(e, o[1], o[2], o[1].t = o[2].t /\ ~IsList(o[1].t) /\ ~IsEnum(o[1].t),
                            o[1].t, Bool)

ResolveBinary(sub, e, x, c) ==
  CASE e.op = "&&" -> Logical(e, Check(sub, e.a[1], Bool, c), Check(sub, e.a[2], Bool, c))
    [] e.op = "<<" -> Shift(e, Check(sub, e.a[1], x, c), sub[e.a[2]][Named("UInt64")][c])
    [] e.op = "+"  -> Sum(e, Operands(sub, e, x, c))
    [] e.op = "==" -> Equality(e, Operands(sub, e, Untyped, c))

\* A node over one operand p, of type t, if it is legal.
Over(e, p, legal, t) ==
  IF p.ok /\ legal THEN Typed(t, Annotated(e, <<p.e>>, t)) ELSE Bad

Negation(e, p) == Over(e, p, IsInt(p.t), p.t)
ResolveUnary(sub, e, x, c) ==
  CASE e.op = "!" -> Over(e, Check(sub, e.a[1], Bool, c), TRUE, Bool)
    [] e.op # "!" /\ IsLit(e.a[1]) -> Literal(e, e.a[1].n, TRUE, x)
    [] OTHER -> Negation(e, Check(sub, e.a[1], x, c))

\* The branches of an if or a switch: the anchor, then the others against its
\* type.  live holds the blocks themselves.
BesideAnchor(sub, anchor, bs, live, c) ==
  [i \in DOMAIN bs |-> IF i = Anchor(live) THEN anchor ELSE sub[bs[i]][anchor.t][c]]
Branches(sub, bs, live, x, c) ==
  BesideAnchor(sub, sub[bs[Anchor(live)]][x][c], bs, live, c)

BranchContext(e, x) == IF HasElse(e) THEN x ELSE Unit

Branching(e, ty, cs, bs, t) ==
  IF AllOk(cs) /\ AllOk(bs) THEN Typed(t, With(e, ty, Trees(cs), Trees(bs), t)) ELSE Bad

IfOf(e, cs, bs) == Branching(e, e.ty, cs, bs, bs[Anchor(e.a)].t)
ResolveIf(sub, e, x, c) ==
  IfOf(e, [i \in DOMAIN e.cs |-> Check(sub, e.cs[i], Bool, c)],
       Branches(sub, e.a, e.a, BranchContext(e, x), c))

ResolveWhile(sub, e, c) ==
  Branching(e, e.ty, <<Check(sub, e.cs[1], Bool, c)>>,
            <<sub[e.a[1]][Unit][[c EXCEPT !.loop = @ + 1]]>>, Unit)

\* A list literal; without a context the first operand that is no literal
\* fixes the element type (resolveListElemTypes).
Resolved(e, rs, legal, t) ==
  IF legal /\ AllOk(rs) THEN Typed(t, Annotated(e, Trees(rs), t)) ELSE Bad

FirstFixed(es) ==
  IF \E i \in DOMAIN es : ~IsLit(es[i]) THEN First({i \in DOMAIN es : ~IsLit(es[i])}) ELSE 1
ListAround(sub, anchor, e, c) ==
  Resolved(e, [i \in DOMAIN e.a |-> IF i = FirstFixed(e.a) THEN anchor
                                    ELSE Check(sub, e.a[i], anchor.t, c)],
           ListOf(anchor.t) \in Types, ListOf(anchor.t))
ResolveList(sub, e, x, c) ==
  CASE IsList(x)    -> Resolved(e, [i \in DOMAIN e.a |-> Check(sub, e.a[i], x.of, c)], TRUE, x)
    [] ~IsList(x) /\ e.a = << >> -> Bad
    [] OTHER        -> ListAround(sub, Check(sub, e.a[FirstFixed(e.a)], Untyped, c), e, c)

ResolveCall(sub, e, c) ==
  Resolved(e, [i \in DOMAIN e.a |-> Check(sub, e.a[i], Signature[e.op].params[i], c)],
           Len(e.a) = Len(Signature[e.op].params), Signature[e.op].ret)

\* A struct literal, the construction of a variant: every field once, in any
\* order.
ResolveFields(sub, e, t, fields, c) ==
  Resolved(e, [i \in DOMAIN e.a |-> sub[e.a[i]][TypeIn(fields, e.a[i].op)][c]],
           Len(e.a) = Len(fields) /\ {e.a[i].op : i \in DOMAIN e.a} = NamesOf(fields), t)

NamedOf(e, p) == Over(e, p, TRUE, p.t)

\* The elements of a tuple never see the context, and are no tuples.
TupleOf(e, p, q) ==
  Resolved(e, <<p, q>>, Pair(p.t, q.t) \in Types /\ \A s \in {p.t, q.t} : s # Unit /\ ~IsTuple(s),
           Pair(p.t, q.t))
ResolveTuple(sub, e, c) ==
  TupleOf(e, Check(sub, e.a[1], Untyped, c), Check(sub, e.a[2], Untyped, c))

FieldOf(e, p) ==
  Over(e, p, e.op \in NamesOf(Readable(p.t)), TypeIn(Readable(p.t), e.op))

\* What a function may return that has a `?` in it.
TryAllowed(ret) == ret = ErrorT \/ IsFallible(ret)

TryOf(e, p, c) ==
  Over(e, p, (p.t = ErrorT \/ IsFallible(p.t)) /\ TryAllowed(c.ret),
       IF p.t = ErrorT THEN Unit ELSE p.t.fst)

\* The pattern of a case: a variant of the subject's enum and the names of
\* all its fields, in their order.
Fitting(k, t) ==
  /\ k.ty = t /\ HasVariant(t, k.op) /\ Len(k.cs) = Len(FieldsOf(t, k.op))
  /\ \A i \in DOMAIN k.cs : k.cs[i].op = FieldsOf(t, k.op)[i].name

\* The context of a case's body.
Within(k, c) ==
  IF k.k = "default" THEN c
  ELSE [c EXCEPT !.bound = [n \in Bindable |-> IF n \in NamesOf(FieldsOf(k.ty, k.op))
                                              THEN TypeIn(FieldsOf(k.ty, k.op), n) ELSE c.bound[n]]]

\* A case or default whose pattern fits.
CaseOf(k, b) ==
  IF b.ok
  THEN LET named == [i \in DOMAIN k.cs |-> Annotated(k.cs[i], k.cs[i].a, FieldsOf(k.ty, k.op)[i].type)]
       IN  Typed(b.t, With(k, k.ty, named, <<b.e>>, b.t))
  ELSE Bad

\* Mutation: a switch need not be exhaustive.
CoversSome(cases, t) == TRUE
\* Whether the cases and the default leave no variant out.
Covers(cases, t) ==
  \/ \E i \in DOMAIN cases : cases[i].k = "default"
  \/ NamesOf(Enum[t.con]) = {cases[i].op : i \in DOMAIN cases}

Patterns(e) == {i \in DOMAIN e.a : e.a[i].k = "case"}
Bodies(e) == [i \in DOMAIN e.a |-> e.a[i].a[1]]

LegalSwitch(e, t) ==
  /\ IsEnum(t) /\ Covers(e.a, t)
  /\ \A i \in Patterns(e) :
       Fitting(e.a[i], t) /\ \A j \in Patterns(e) \ {i} : e.a[i].op # e.a[j].op

SwitchOf(sub, e, p, x, c) ==
  IF p.ok /\ LegalSwitch(e, p.t)
  THEN LET bs == Branches(sub, e.a, Bodies(e), x, c)
       IN  Branching(e, p.t, <<p>>, bs, bs[Anchor(Bodies(e))].t)
  ELSE Bad

\* let, assignment, discard and return: a value that goes somewhere.
Sink(e, p, refused, t) ==
  IF p.ok /\ p.t \notin refused THEN Typed(t, Annotated(e, <<p.e>>, p.t)) ELSE Bad

Resolve(sub, e, x, c) ==
  CASE e.k = "int"    -> Literal(e, e.n, FALSE, x)
    [] e.k = "var"    -> Typed(e.ty, Annotated(e, e.a, e.ty))
    [] e.k = "unary"  -> ResolveUnary(sub, e, x, c)
    [] e.k = "binary" -> ResolveBinary(sub, e, x, c)
    [] e.k = "if"     -> ResolveIf(sub, e, x, c)
    [] e.k = "while"  -> ResolveWhile(sub, e, c)
    [] e.k = "list"   -> ResolveList(sub, e, x, c)
    [] e.k = "call"   -> ResolveCall(sub, e, c)
    [] e.k = "bound"  -> IF e.op \in Bindable /\ c.bound[e.op] # Untyped
                         THEN Typed(c.bound[e.op], Annotated(e, e.a, c.bound[e.op])) ELSE Bad
    [] e.k = "struct" -> ResolveFields(sub, e, e.ty, Struct[e.ty.con], c)
    [] e.k = "variant" -> IF HasVariant(e.ty, e.op)
                          THEN ResolveFields(sub, e, e.ty, FieldsOf(e.ty, e.op), c) ELSE Bad
    [] e.k = "named"  -> NamedOf(e, Check(sub, e.a[1], x, c))
    [] e.k = "tuple"  -> ResolveTuple(sub, e, c)
    [] e.k = "field"  -> FieldOf(e, Check(sub, e.a[1], Untyped, c))
    [] e.k = "try"    -> TryOf(e, Check(sub, e.a[1], Untyped, c), c)
    [] e.k = "switch" -> SwitchOf(sub, e, Check(sub, e.cs[1], Untyped, c), x, c)
    [] e.k \in {"case", "default"} -> CaseOf(e, sub[e.a[1]][x][Within(e, c)])
    [] e.k = "let"    -> Sink(e, Check(sub, e.a[1], e.ty, c), {Unit, Never}, Unit)
    [] e.k = "assign" -> Sink(e, Check(sub, e.a[1], e.ty, c), {Never}, Unit)
    [] e.k = "discard" -> Sink(e, Check(sub, e.a[1], Untyped, c), {}, Unit)
    [] e.k = "return" ->
         IF e.a = << >> THEN IF c.ret = Unit THEN Typed(Never, e) ELSE Bad
                        ELSE Sink(e, Check(sub, e.a[1], c.ret, c), {}, Never)
    [] e.k \in {"break", "continue"} -> IF c.loop = 0 THEN Bad ELSE Typed(Never, e)
    [] e.k = "block"  -> CheckBlock(sub, e, x, c)

\* The checker of trees of at most n levels.
Checker[n \in Levels] ==
  [e \in TreesAt[n] |-> [x \in Expected |-> [c \in Contexts |-> Resolve(Checker[n - 1], e, x, c)]]]

-----------------------------------------------------------------------------
(***************************************************************************)
(* The generator.  genValue returns an operand: a literal token, or a      *)
(* token of a Go variable with its type.  The first argument of an          *)
(* operator is the generator of the parts.                                  *)
(***************************************************************************)
NoOperand == [ok |-> FALSE, lit |-> FALSE, n |-> 0, t |-> Untyped]
LitOperand(n) == [ok |-> TRUE, lit |-> TRUE, n |-> n, t |-> Untyped]
VarOperand(t) == [ok |-> TRUE, lit |-> FALSE, n |-> 0, t |-> t]
Done == VarOperand(Unit)     \* emitted, and there is no value
Left == VarOperand(Never)    \* a block that leaves before its value is stored

\* The Go compiler takes operand o where a value of type t goes.  Without
\* Ranged, literal operands are not looked at.
Fits(o, t, ranged) ==
  o.ok /\ IF o.lit THEN IsInt(t) /\ (ranged => o.n \in MinOf(t) .. MaxOf(t))
                   ELSE o.t = t

\* Go computes an operation on two literals itself, exactly, and wants the
\* result in range (an operation on a variable wraps).
Folds(op, p, q, t) ==
  p.lit /\ q.lit /\ op \in {"+", "<<"}
    => (IF op = "+" THEN p.n + q.n ELSE p.n * 2 ^ q.n) \in MinOf(t) .. MaxOf(t)

\* What Go can compare with ==: a type without a List in it, down to n
\* components.
HasList[n \in 0 .. Nesting] == [t \in Types |->
  \/ IsList(t)
  \/ n > 0 /\ \/ IsTuple(t) /\ (HasList[n - 1][t.fst] \/ HasList[n - 1][t.snd])
              \/ IsStruct(t) /\ \E i \in DOMAIN Struct[t.con] : HasList[n - 1][Struct[t.con][i].type]
              \/ IsEnum(t) /\ \E v \in NamesOf(Enum[t.con]) : \E i \in DOMAIN FieldsOf(t, v) :
                                HasList[n - 1][FieldsOf(t, v)[i].type]]
Comparable(t) == ~HasList[Nesting][t]

Value(sub, e, g, ranged) == sub[e][g][ranged]["value"]
Runs(sub, e, g, ranged) == sub[e][g][ranged]["run"].ok

\* The operand o, or none.
Given(legal, o) == IF legal THEN o ELSE NoOperand

\* genValueBlock: everything but the last expression runs, its value is stored.
BlockValue(sub, b, g, ranged) ==
  IF b.a = << >> \/ ~ \A i \in 1 .. Len(b.a) - 1 : Runs(sub, b.a[i], g, ranged) THEN NoOperand
  ELSE IF Diverging(LastOf(b)) THEN Given(Runs(sub, LastOf(b), g, ranged), Left)
  ELSE Value(sub, LastOf(b), g, ranged)
Yields(o, t, ranged) == o = Left \/ Fits(o, t, ranged)

\* genStructLitValue, genEnumVariantValue: one FSET for each field.
Filled(sub, e, fields, g, ranged) ==
  \A i \in DOMAIN e.a :
    e.a[i].op \in NamesOf(fields)
      /\ Fits(Value(sub, e.a[i], g, ranged), TypeIn(fields, e.a[i].op), ranged)

\* genTryValue reads the payload and the error; emitEarlyReturn writes the
\* error to the second field of what the function returns.
Tried(sub, e, g, ranged) ==
  /\ Fits(Value(sub, e.a[1], g, ranged), IF e.r = Unit THEN ErrorT ELSE Pair(e.r, ErrorT), ranged)
  /\ g.ret = ErrorT \/ IsFallible(g.ret)

\* genSwitchChain: a case reads each field it binds off the subject, which
\* has the fields of every variant, and runs its body with them.
Inside(k, g) ==
  [g EXCEPT !.bound = [n \in Bindable |->
     IF \E i \in DOMAIN k.cs : k.cs[i].op = n
     THEN k.cs[CHOOSE i \in DOMAIN k.cs : k.cs[i].op = n].r ELSE g.bound[n]]]

Chain(sub, e, g, ranged) ==
  /\ Fits(Value(sub, e.cs[1], g, ranged), e.ty, ranged)
  /\ \A i \in Patterns(e) :
       LET fields == FieldsOf(e.ty, e.a[i].op)
       IN  \A j \in DOMAIN e.a[i].cs : LET b == e.a[i].cs[j]
                                      IN  b.op \in NamesOf(fields) /\ b.r = TypeIn(fields, b.op)

\* The operands of a binary instruction of Go.
Operates(e, p, q, ranged) ==
  /\ HasValues(e.r) /\ Fits(p, e.r, ranged)
  /\ IF e.op = "<<" THEN q.ok /\ (ranged /\ q.lit => q.n >= 0) ELSE Fits(q, e.r, ranged)
  /\ e.op = "==" => Comparable(e.r)
  /\ ranged => Folds(e.op, p, q, e.r)

\* A minus sign over a literal token makes another (literalToken).
Negated(e, p, ranged) ==
  IF e.op = "-" /\ p.ok /\ p.lit THEN LitOperand(-p.n) ELSE Given(Fits(p, e.r, ranged), VarOperand(e.r))

\* The result of a switch is always set.
AlwaysSet(e) ==
  \A v \in NamesOf(Enum[e.ty.con]) : \E i \in DOMAIN e.a : e.a[i].k = "default" \/ e.a[i].op = v

Passed(sub, e, g, ranged) ==
  \A i \in DOMAIN e.a :
    LET v == Value(sub, e.a[i], g, ranged)
        t == Signature[e.op].params[i]
    IN  IF t = AnyT THEN v.ok ELSE Fits(v, t, ranged)

\* genValue; g knows the function's result type, the enclosing loops and what
\* the cases around bind, ranged says whether literals are range checked.
GenValue(sub, e, g, ranged) ==
  CASE e.k = "int" -> LitOperand(e.n)
    [] e.k = "var" -> VarOperand(e.ty)
    [] e.k = "unary" -> Negated(e, Value(sub, e.a[1], g, ranged), ranged)
    [] e.k = "binary" ->
         Given(Operates(e, Value(sub, e.a[1], g, ranged), Value(sub, e.a[2], g, ranged), ranged),
               VarOperand(IF e.op = "==" THEN Bool ELSE e.r))
    [] e.k = "if" ->
         Given(/\ HasElse(e) /\ HasValues(e.r)
               /\ \A i \in DOMAIN e.cs : Fits(Value(sub, e.cs[i], g, ranged), Bool, ranged)
               /\ \A i \in DOMAIN e.a : Yields(Value(sub, e.a[i], g, ranged), e.r, ranged),
               VarOperand(e.r))
    [] e.k = "list" ->
         Given(/\ HasValues(e.r.of)
               /\ \A i \in DOMAIN e.a : Fits(Value(sub, e.a[i], g, ranged), e.r.of, ranged),
               VarOperand(e.r))
    [] e.k = "call" -> Given(e.r # Unit /\ Passed(sub, e, g, ranged), VarOperand(e.r))
    [] e.k = "bound" -> Given(e.op \in Bindable /\ g.bound[e.op] # Untyped, VarOperand(g.bound[e.op]))
    [] e.k = "struct" -> Given(Filled(sub, e, Struct[e.r.con], g, ranged), VarOperand(e.r))
    [] e.k = "variant" -> Given(Filled(sub, e, FieldsOf(e.r, e.op), g, ranged), VarOperand(e.r))
    [] e.k = "named" -> Value(sub, e.a[1], g, ranged)
    [] e.k = "tuple" ->
         Given(/\ HasValues(e.r.fst) /\ Fits(Value(sub, e.a[1], g, ranged), e.r.fst, ranged)
               /\ HasValues(e.r.snd) /\ Fits(Value(sub, e.a[2], g, ranged), e.r.snd, ranged),
               VarOperand(e.r))
    [] e.k = "field" ->
         LET p == Value(sub, e.a[1], g, ranged)
         IN  Given(p.ok /\ e.op \in NamesOf(Readable(p.t)) /\ TypeIn(Readable(p.t), e.op) = e.r,
                   VarOperand(e.r))
    [] e.k = "try" -> Given(e.r # Unit /\ Tried(sub, e, g, ranged), VarOperand(e.r))
    [] e.k = "switch" ->
         Given(/\ HasValues(e.r) /\ Chain(sub, e, g, ranged) /\ AlwaysSet(e)
               /\ \A i \in DOMAIN e.a : Yields(Value(sub, e.a[i], g, ranged), e.r, ranged),
               VarOperand(e.r))
    [] e.k = "case" -> Value(sub, e.a[1], Inside(e, g), ranged)
    [] e.k = "default" -> Value(sub, e.a[1], g, ranged)
    [] e.k = "block" -> BlockValue(sub, e, g, ranged)
    [] OTHER -> NoOperand

\* genStmt: e is emitted for its effect.
GenStmt(sub, e, g, ranged) ==
  CASE e.k \in {"int", "var", "bound"} -> TRUE
    [] e.k \in {"unary", "binary", "list", "struct", "variant", "tuple", "field", "named"} ->
         GenValue(sub, e, g, ranged).ok
    [] e.k = "try" -> Tried(sub, e, g, ranged)
    [] e.k = "switch" -> Chain(sub, e, g, ranged) /\ \A i \in DOMAIN e.a : Runs(sub, e.a[i], g, ranged)
    [] e.k = "case" -> Runs(sub, e.a[1], Inside(e, g), ranged)
    [] e.k = "default" -> Runs(sub, e.a[1], g, ranged)
    [] e.k = "call" -> Passed(sub, e, g, ranged)
    [] e.k = "if" ->
         /\ \A i \in DOMAIN e.cs : Fits(Value(sub, e.cs[i], g, ranged), Bool, ranged)
         /\ \A i \in DOMAIN e.a : Runs(sub, e.a[i], g, ranged)
    [] e.k = "while" ->
         /\ Fits(Value(sub, e.cs[1], g, ranged), Bool, ranged)
         /\ Runs(sub, e.a[1], [g EXCEPT !.loop = @ + 1], ranged)
    [] e.k = "block" -> \A i \in DOMAIN e.a : Runs(sub, e.a[i], g, ranged)
    [] e.k = "let" -> HasValues(e.r) /\ Fits(Value(sub, e.a[1], g, ranged), e.r, ranged)
    [] e.k = "assign" -> Fits(Value(sub, e.a[1], g, ranged), e.ty, ranged)
    [] e.k = "discard" -> Runs(sub, e.a[1], g, ranged)
    [] e.k = "return" ->
         IF e.a = << >> THEN g.ret = Unit
         ELSE Fits(Value(sub, e.a[1], g, ranged), g.ret, ranged)
    [] e.k \in {"break", "continue"} -> g.loop > 0

\* The generator of trees of at most n levels.
Generator[n \in Levels] ==
  [e \in TreesAt[n] |-> [g \in Contexts |-> [ranged \in BOOLEAN |-> [how \in {"value", "run"} |->
     IF how = "value" THEN GenValue(Generator[n - 1], e, g, ranged)
     ELSE Given(GenStmt(Generator[n - 1], e, g, ranged), Done)]]]]

\* Outside(p): where the body of function p stands.
Outside(p) == [ret |-> p.ret, loop |-> 0, bound |-> [n \in Bindable |-> Untyped]]

\* genFuncDecl
Emits(b, p, ranged) ==
  IF p.ret = Unit THEN Runs(Generator[Depth], b, Outside(p), ranged)
  ELSE Yields(Value(Generator[Depth], b, Outside(p), ranged), p.ret, ranged)
-----------------------------------------------------------------------------
VARIABLES
  program,  \* the function: its body and its return type
  phase,    \* how far the compiler has come
  tree      \* the body, as annotated by the checker

vars == <<program, phase, tree>>

Init ==
  /\ program \in Programs
  /\ phase = "parsed"
  /\ tree = program.body

Result(b, p) == Checker[Depth][b][p.ret][Outside(p)]

CheckFunc ==
  /\ phase = "parsed"
  /\ LET res == Result(tree, program)
     IN  /\ phase' = IF res.ok THEN "checked" ELSE "rejected"
         /\ tree' = IF res.ok THEN res.e ELSE tree
  /\ UNCHANGED program

Generate ==
  /\ phase = "checked"
  /\ phase' = IF Emits(tree, program, TRUE) THEN "compiled" ELSE "refused"
  /\ UNCHANGED <<program, tree>>

Next == CheckFunc \/ Generate

Spec == Init /\ [][Next]_vars

-----------------------------------------------------------------------------
(***************************************************************************)
(* What the language means by a type, without any order of checking: e can *)
(* be given type t in context c.                                           *)
(***************************************************************************)
\* Each of the fields is given once.
EachOnce(e, fields) ==
  \A n \in NamesOf(fields) : \E i \in DOMAIN e.a : e.a[i].op = n /\ \A j \in DOMAIN e.a \ {i} : e.a[j].op # n

\* Each variant has a case, or there is a default for it.
Exhaustive(e, u) ==
  \A v \in NamesOf(Enum[u.con]) :
    LET mine == {i \in DOMAIN e.a : e.a[i].k = "case" /\ e.a[i].op = v}
    IN  \/ \E i \in mine : mine = {i}
        \/ mine = {} /\ Patterns(e) # DOMAIN e.a

Means(has, e, t, c) ==
  CASE e.k = "int" -> IsInt(t) /\ e.n <= MaxOf(t)
    [] e.k = "var" -> t = e.ty
    [] e.k = "unary" ->
         IF e.op = "!" THEN t = Bool /\ has[e.a[1]][Bool][c]
         ELSE IsInt(t) /\ IF IsLit(e.a[1]) THEN -e.a[1].n >= MinOf(t) ELSE has[e.a[1]][t][c]
    [] e.k = "binary" ->
         LET both(u) == \A i \in 1 .. 2 : has[e.a[i]][u][c]
         IN  \/ e.op = "&&" /\ t = Bool /\ both(Bool)
             \/ e.op = "+" /\ IsInt(t) /\ both(t)
             \/ e.op = "==" /\ t = Bool /\ \E u \in ValueTypes : ~IsList(u) /\ ~IsEnum(u) /\ both(u)
             \/ /\ e.op = "<<" /\ IsInt(t) /\ has[e.a[1]][t][c]
                /\ \E u \in ValueTypes : IsUInt(u) /\ has[e.a[2]][u][c]
    [] e.k = "if" ->
         /\ HasElse(e) \/ t = Unit
         /\ \A i \in DOMAIN e.cs : has[e.cs[i]][Bool][c]
         /\ \A i \in DOMAIN e.a : has[e.a[i]][t][c]
    [] e.k = "while" ->
         /\ t = Unit /\ has[e.cs[1]][Bool][c]
         /\ has[e.a[1]][Unit][[c EXCEPT !.loop = @ + 1]]
    [] e.k = "list" -> IsList(t) /\ \A i \in DOMAIN e.a : has[e.a[i]][t.of][c]
    [] e.k = "call" ->
         /\ t = Signature[e.op].ret
         /\ \A i \in DOMAIN e.a : \E u \in ValueTypes :
              Signature[e.op].params[i] \in {u, AnyT} /\ has[e.a[i]][u][c]
    [] e.k = "bound" -> e.op \in Bindable /\ t = c.bound[e.op]
    [] e.k \in {"struct", "variant"} ->
         LET fields == IF e.k = "struct" THEN Struct[e.ty.con] ELSE FieldsOf(e.ty, e.op)
         IN  /\ t = e.ty /\ EachOnce(e, fields)
             /\ \A i \in DOMAIN e.a : /\ e.a[i].op \in NamesOf(fields)
                                     /\ has[e.a[i]][TypeIn(fields, e.a[i].op)][c]
    [] e.k = "named" -> has[e.a[1]][t][c]
    [] e.k = "tuple" -> IsTuple(t) /\ has[e.a[1]][t.fst][c] /\ has[e.a[2]][t.snd][c]
    [] e.k = "field" -> \E u \in ValueTypes : /\ e.op \in NamesOf(Readable(u))
                                              /\ t = TypeIn(Readable(u), e.op)
                                              /\ has[e.a[1]][u][c]
    [] e.k = "try" ->
         /\ c.ret = ErrorT \/ IsFallible(c.ret)
         /\ \E u \in ValueTypes : u = (IF t = Unit THEN ErrorT ELSE Pair(t, ErrorT)) /\ has[e.a[1]][u][c]
    [] e.k = "switch" ->
         \E u \in ValueTypes :
           /\ IsEnum(u) /\ has[e.cs[1]][u][c] /\ Exhaustive(e, u)
           /\ \A i \in Patterns(e) : Fitting(e.a[i], u)
           /\ \A i \in DOMAIN e.a : has[e.a[i]][t][c]
    [] e.k \in {"case", "default"} -> has[e.a[1]][t][Within(e, c)]
    [] e.k = "let" -> t = Unit /\ \E u \in ValueTypes : e.ty \in {u, Untyped} /\ has[e.a[1]][u][c]
    [] e.k = "assign" -> t = Unit /\ has[e.a[1]][e.ty][c]
    [] e.k = "discard" -> t = Unit /\ \E u \in ValueTypes \cup {Unit} : has[e.a[1]][u][c]
    [] e.k = "return" -> IF e.a = << >> THEN c.ret = Unit ELSE has[e.a[1]][c.ret][c]
    [] e.k \in {"break", "continue"} -> c.loop > 0
    [] e.k = "block" ->
         /\ \A i \in 1 .. Len(e.a) - 1 : has[e.a[i]][Unit][c]
         /\ IF e.a = << >> THEN t = Unit ELSE has[LastOf(e)][t][c]

HasType[n \in Levels] ==
  [e \in TreesAt[n] |-> [t \in Types |-> [c \in Contexts |-> Means(HasType[n - 1], e, t, c)]]]

\* The nodes of a tree of at most n levels.
Nodes[n \in Levels] ==
  [e \in TreesAt[n] |-> {e} \cup (UNION {Nodes[n - 1][e.a[i]] : i \in DOMAIN e.a})
                            \cup (UNION {Nodes[n - 1][e.cs[i]] : i \in DOMAIN e.cs})]

\* The type of an annotated node.
TypeOf(e) ==
  IF e.k \in {"let", "assign", "discard", "while"} THEN Unit
  ELSE IF Diverging(e) THEN Never
  ELSE IF e.k = "binary" /\ e.op = "==" THEN Bool
  ELSE e.r

\* Wherever a value is used there is one: no operand, element, argument or
\* result is an expression without value (an if without else, an if of which
\* every branch leaves, a while, the call of a Unit function).
EndsInValue(b) == b.a # << >> => Diverging(LastOf(b)) \/ HasValues(TypeOf(LastOf(b)))

Valued(e) ==
  /\ e.k # "case" => \A i \in DOMAIN e.cs : HasValues(TypeOf(e.cs[i]))
  /\ e.k = "if" /\ HasValues(e.r) => \A i \in DOMAIN e.a : EndsInValue(e.a[i])
  /\ e.k = "switch" /\ HasValues(e.r) => \A i \in DOMAIN e.a : EndsInValue(e.a[i].a[1])
  /\ e.k \notin {"if", "switch", "case", "default", "while", "block", "discard"}
       => \A i \in DOMAIN e.a : HasValues(TypeOf(e.a[i]))

UsesValues ==
  /\ \A e \in Nodes[Depth][tree] : Valued(e)
  /\ program.ret # Unit => EndsInValue(tree)

\* No constant of more than one literal, no minus sign on an unsigned one.
Minus(e) == e.k = "unary" /\ e.op = "-"
Constant(e) == IsLit(e) \/ (Minus(e) /\ IsLit(e.a[1]))
Simple(e) ==
  /\ e.k = "binary" /\ e.op # "==" => ~(Constant(e.a[1]) /\ Constant(e.a[2]))
  /\ Minus(e) => /\ IsLit(e.a[1]) => ~IsUInt(e.r)
                 /\ Minus(e.a[1]) => ~Constant(e.a[1])
SimpleLiterals == \A e \in Nodes[Depth][tree] : Simple(e)

\* The checker accepts only what has a type by the language's own rules,
\* whatever order it looks at operands and branches in.
Sound ==
  phase = "checked" /\ UsesValues /\ SimpleLiterals
    => HasType[Depth][program.body][program.ret][Outside(program)]

\* No == between two structs or tuples that Go cannot compare.
ComparesComparable ==
  \A e \in Nodes[Depth][tree] : e.k = "binary" /\ e.op = "==" => Comparable(e.r)

\* A tree the checker has annotated never surprises the generator: it finds a
\* case for every node, every variable has a Go type, every operand has the
\* type its instruction wants, break and continue stand in a loop, the names
\* that a pattern binds are fields of its variant, every variant of a subject
\* has a branch that sets the result, and a `?` has somewhere to put its error.
GeneratorTrustsChecker ==
  phase = "checked" /\ UsesValues /\ ComparesComparable => Emits(tree, program, FALSE)

\* Section 2.1: an integer literal is checked against the type it takes.
\* Every literal, with the signs and operations that Go sees as part of the
\* constant, is a value of the Go type it is emitted for.
LiteralsFit ==
  phase = "checked" /\ Emits(tree, program, FALSE)
    => Emits(tree, program, TRUE)

\* The same for literals that stand alone, under one minus sign if signed.
SimpleLiteralsFit == phase = "checked" /\ SimpleLiterals => LiteralsFit

\* A program with its operands and branches in the other order.
Swapped(e) == \/ e.k = "binary" /\ e.op \in {"+", "=="}
              \/ e.k = "if" /\ Len(e.cs) = 1 /\ HasElse(e)
              \/ e.k = "list" /\ Len(e.a) = 2
              \/ e.k = "switch" /\ Len(e.a) = 2 /\ Patterns(e) = {1, 2}
Mirror[n \in Levels] ==
  [e \in TreesAt[n] |->
     LET cs == [i \in DOMAIN e.cs |-> Mirror[n - 1][e.cs[i]]]
         a  == [i \in DOMAIN e.a |-> Mirror[n - 1][e.a[i]]]
     IN  [e EXCEPT !.cs = cs, !.a = IF Swapped(e) THEN <<a[2], a[1]>> ELSE a]]

\* The type of e does not depend on where it stands: no literal inside is
\* left to adapt to the context, and e is not an if of which every branch leaves.
Settled(e, c) ==
  LET here == Checker[Depth][e]
      own == here[Untyped][c]
  IN  /\ own.t # Never
      /\ \A x \in ValueTypes : Against(here[x][c], x).ok => own.ok /\ own.t = x

SettledOperands[n \in Levels] ==
  [e \in TreesAt[n] |-> [c \in Contexts |->
     LET operand(d) == CASE d.k = "block" -> LastOf(d)
                         [] d.k \in {"case", "default"} -> LastOf(d.a[1])
                         [] OTHER -> d
         around(d) == IF d.k = "case" /\ HasVariant(d.ty, d.op) THEN Within(d, c) ELSE c
     IN  /\ Swapped(e) => \A i \in DOMAIN e.a : \/ IsLit(operand(e.a[i]))
                                                \/ Diverging(operand(e.a[i]))
                                                \/ Settled(operand(e.a[i]), around(e.a[i]))
         /\ \A i \in DOMAIN e.cs : SettledOperands[n - 1][e.cs[i]][c]
         /\ \A i \in DOMAIN e.a : SettledOperands[n - 1][e.a[i]][around(e.a[i])]]]

\* The function with its operands and branches in the other order is accepted
\* when it is.
SameEitherWay ==
  Result(Mirror[Depth][program.body], program).ok = (phase = "checked")

\* The intent of resolveOperandTypes and pickBranchAnchor: whether a + b,
\* [a, b], an if or a switch is accepted does not depend on which operand or
\* branch comes first, when each is a literal, leaves, or has a type of its own.
OrderIrrelevant ==
  /\ phase \in {"checked", "rejected"}
  /\ SettledOperands[Depth][program.body][[Outside(program) EXCEPT !.loop = 1]]
  => SameEitherWay

\* The comment on resolveBranches: the two orders of an if are symmetric.
BranchesSymmetric == phase \in {"checked", "rejected"} => SameEitherWay

\* The comment on == in resolveBinaryExpr: what Go cannot compare is refused
\* here and does not reach amivm.
EqualityCompiles == phase = "checked" => ComparesComparable

\* The comment on resolveIfExpr: without an else, the whole expression is
\* Unit-typed.
IfWithoutElseIsUnit ==
  phase = "checked" => \A e \in Nodes[Depth][tree] : e.k = "if" /\ ~HasElse(e) => e.r = Unit

\* The promise of the README, "a broken AmiFL program never reaches amivm as
\* a confusing Go error": what the checker accepts, the generator emits, and
\* what it emits has the types Go wants.
NeverRefused == phase # "refused"
=============================================================================
