------------------------------ MODULE MCTyping ------------------------------
(***************************************************************************)
(* Small function bodies for Typing.                                       *)
(***************************************************************************)
EXTENDS Typing

\* Int8 is -4 .. 3, UInt8 0 .. 7, Int64 -8 .. 7, UInt64 0 .. 15.
SmallBits == [t \in Signed \cup Unsigned |->
                IF t \in {"Int8", "UInt8"} THEN 3 ELSE 4]

I8 == Named("Int8")
I64 == Named("Int64")
U8 == Named("UInt8")

Functions == [take |-> [params |-> <<I8>>, ret |-> I8],
              show |-> [params |-> <<AnyT>>, ret |-> Unit]]

Record(name, type) == [name |-> name, type |-> type]
Variant(name, fields) == [name |-> name, fields |-> fields]
\* A struct Go can compare and one it cannot; an enum with a payload of each
\* kind, and one more that has a variant of the same name.
Structs == [Point |-> <<Record("x", I8), Record("y", U8)>>,
            Box |-> <<Record("items", ListOf(I8))>>]
Enums == [Shape |-> <<Variant("Dot", << >>), Variant("Line", <<Record("n", I8)>>),
                      Variant("Area", <<Record("n", I64), Record("on", Bool)>>)>>,
          Way |-> <<Variant("Dot", << >>), Variant("Line", <<Record("n", U8)>>)>>]
Point == Named("Point")
Box   == Named("Box")
Shape == Named("Shape")
Way   == Named("Way")

\* Plain types, pairs and lists of them; a struct in a pair or a list.
Plain == {Named(s) : s \in Signed \cup Unsigned \cup {"Bool"}}
Declarations == {Point, Box, Shape, Way, ErrorT}
Lists(T) == {ListOf(t) : t \in T}
MCValueTypes ==
  Plain \cup Declarations \cup Lists(Plain \cup Declarations) \cup Lists(Lists(Plain))
    \cup {Pair(s, t) : s, t \in Plain \cup {ErrorT}}
MCTypes == MCValueTypes \cup {Unit, Never} \cup Lists({Unit, Never})

Num(n)     == Node("int", "", n, Untyped, << >>, << >>)
Var(t)     == Node("var", "", 0, t, << >>, << >>)
Un(op, e)  == Node("unary", op, 0, Untyped, << >>, <<e>>)
Bin(op, l, r) == Node("binary", op, 0, Untyped, << >>, <<l, r>>)
Block(es)  == Node("block", "", 0, Untyped, << >>, es)
If(c, b)   == Node("if", "", 0, Untyped, <<c>>, <<b>>)
IfElse(c, b, d) == Node("if", "", 0, Untyped, <<c>>, <<b, d>>)
While(c, b) == Node("while", "", 0, Untyped, <<c>>, <<b>>)
ListLit(es)   == Node("list", "", 0, Untyped, << >>, es)
Call(f, es) == Node("call", f, 0, Untyped, << >>, es)
Let(t, e)  == Node("let", "", 0, t, << >>, <<e>>)
Assign(t, e) == Node("assign", "", 0, t, << >>, <<e>>)
Discard(e) == Node("discard", "", 0, Untyped, << >>, <<e>>)
Return(e)  == Node("return", "", 0, Untyped, << >>, <<e>>)
Bound(n)   == Node("bound", n, 0, Untyped, << >>, << >>)
Named1(n, e) == Node("named", n, 0, Untyped, << >>, <<e>>)
StructOf(t, es) == Node("struct", "", 0, t, << >>, es)
VariantOf(t, v, es) == Node("variant", v, 0, t, << >>, es)
Tuple(l, r) == Node("tuple", "", 0, Untyped, << >>, <<l, r>>)
Field(e, n) == Node("field", n, 0, Untyped, << >>, <<e>>)
Try(e)     == Node("try", "", 0, Untyped, << >>, <<e>>)
Case(t, v, ns, e) ==
  Node("case", v, 0, t, [i \in DOMAIN ns |-> Bound(ns[i])], <<Block(<<e>>)>>)
Default(e) == Node("default", "", 0, Untyped, << >>, <<Block(<<e>>)>>)
Switch(e, ks) == Node("switch", "", 0, Untyped, <<e>>, ks)
Break      == Node("break", "", 0, Untyped, << >>, << >>)

Function(es, ret) == [body |-> Block(es), ret |-> ret]

\* Literals that fit both integer types, or only the wider one.
Atoms == {Num(1), Num(4), Un("-", Num(5)), Var(I8), Var(I64), Var(U8), Var(Bool)}

\* Values whose operands are atoms.
Flat(A) ==
  {Bin(op, l, r) : op \in {"+", "=="}, l \in A, r \in A} \cup
  {Bin("<<", l, r) : l \in A, r \in {Num(1), Var(U8), Var(I8)}} \cup
  {Bin("&&", Var(Bool), r) : r \in A} \cup
  {Un("!", e) : e \in A} \cup {Un("-", Var(t)) : t \in {I8, Bool}} \cup
  {ListLit(<<l, r>>) : l \in A, r \in A} \cup
  {Call("take", <<e>>) : e \in A} \cup {Call("show", <<e>>) : e \in A}

\* Tails of branches: values, and statements that leave.
Tails(V) == V \cup {Return(Num(1)), Return(Var(I64)), Break}

Ifs(V) == {IfElse(Var(Bool), Block(<<x>>), Block(<<y>>)) : x \in Tails(V), y \in Tails(V)}
          \cup {If(Var(Bool), Block(<<x>>)) : x \in Tails(V) \cup {Discard(Num(1))}}

\* What a function may do with a value.
Use(v) ==
  <<Function(<<v>>, I8), Function(<<Let(Untyped, v), Num(1)>>, I8),
    Function(<<Let(I8, v), Num(1)>>, I8), Function(<<Let(U8, v), Num(1)>>, I8),
    Function(<<Assign(I64, v)>>, Unit),
    Function(<<Discard(v)>>, Unit), Function(<<v, Return(v)>>, I8),
    Function(<<While(Var(Bool), Block(<<Discard(v), v>>)), Num(1)>>, I8),
    Function(<<While(v, Block(<<Break>>))>>, Unit)>>

FlatValues == Atoms \cup Flat(Atoms) \cup Ifs(Atoms)

\* An if as the result; only those with an else; a minus sign where none fits.
WholeIfs == {Function(<<v>>, I8) : v \in Ifs({Var(I8)})}
MinusFive == {Use(Un("-", Num(5)))[4]}
ElseIfs == {p \in WholeIfs : Len(p.body.a[1].a) = 2}

\* One operand is an operation or an if of its own.
Inner == {Un("-", Num(5))} \cup Flat({Num(1), Var(I8)}) \cup Ifs({Num(1), Var(I8)})
DeepValues ==
    {Bin(op, l, r) : op \in {"+", "=="}, l \in Inner, r \in {Num(1), Var(I8)}} \cup
    {Call(f, <<e>>) : f \in {"take", "show"}, e \in Inner} \cup
    {ListLit(<<e>>) : e \in Inner} \cup {Un("-", e) : e \in Inner} \cup
    {Un("-", Un("-", Num(3)))} \cup
    {IfElse(Var(Bool), Block(<<x>>), Block(<<y>>)) :
       x \in Inner, y \in {Num(1), Var(I8), Return(Num(1))}}

\* Struct literals and variants: with their fields, in the other order, one
\* missing, one twice, one of another type.
Fieldwise(A) ==
  {StructOf(Point, <<Named1("x", l), Named1("y", r)>>) : l \in A, r \in A} \cup
  {StructOf(Point, <<Named1(n, Num(1)), Named1("x", e)>>) : n \in {"x", "y", "z"}, e \in A} \cup
  {StructOf(Point, <<Named1("x", e)>>) : e \in A} \cup
  {VariantOf(t, v, << >>) : t \in {Shape, Way}, v \in {"Dot", "Line", "Area"}} \cup
  {VariantOf(t, "Line", <<Named1(n, e)>>) : t \in {Shape, Way}, n \in {"n", "on"}, e \in A} \cup
  {VariantOf(Shape, "Area", <<Named1("on", l), Named1("n", r)>>) : l \in A, r \in A} \cup
  {Tuple(l, r) : l \in A \cup {Var(Pair(I8, ErrorT))}, r \in A \cup {Var(ErrorT)}} \cup
  {Field(Var(t), n) : t \in {I8, Point, Box, Shape, Pair(I8, ErrorT)}, n \in {"x", "0", "1", "items"}} \cup
  {Field(Tuple(l, r), "0") : l \in A, r \in A} \cup
  {Bin("==", Var(t), Var(u)) : t, u \in {Point, Box, Shape, ErrorT, Pair(I8, U8)}}

\* The bodies of cases: values, what the pattern binds, an if that may leave.
Arms(A) == A \cup {Bound("n"), Bound("on"), Bin("+", Bound("n"), Num(1)),
                   IfElse(Var(Bool), Block(<<Num(1)>>), Block(<<Return(Num(1))>>))}
DotCases(t, A)  == {Case(t, "Dot", << >>, e) : e \in A}
LineCases(t, A) == {Case(t, "Line", ns, e) : ns \in {<<"n">>, <<"on">>, << >>}, e \in A}
AreaCases(A)    == {Case(Shape, "Area", ns, e) : ns \in {<<"n", "on">>, <<"on", "n">>}, e \in A}

Switches ==
  {Switch(Var(t), <<k, l>>) :
     t \in {Way, Shape, I8}, k \in DotCases(Way, Arms(Atoms)), l \in LineCases(Way, Arms(Atoms))} \cup
  {Switch(Var(Way), <<l, k>>) :
     l \in LineCases(Way, Arms(Atoms)), k \in {Default(e) : e \in Atoms} \cup LineCases(Way, {Num(1)})} \cup
  {Switch(Var(Shape), <<k, l, m>>) :
     k \in DotCases(Shape, {Num(1), Num(4)}), l \in LineCases(Shape, {Num(1), Bound("n"), Var(I64)}),
     m \in AreaCases({Num(1), Bound("n"), Bound("on"), Var(I8)})} \cup
  {Switch(Var(Shape), <<k, l>>) : k \in DotCases(Shape, {Num(1)}), l \in LineCases(Shape, {Bound("n")})} \cup
  {Switch(VariantOf(Way, "Dot", << >>), <<k, Case(Way, "Line", <<"n">>,
     Switch(Var(Way), <<Case(Way, "Dot", << >>, x), Case(Way, "Line", <<"n">>, Bound("n"))>>))>>) :
     k \in DotCases(Way, {Num(1), Var(U8), Bound("n")}), x \in {Num(4), Bound("n"), Var(I8)}}

\* `?` in functions that return an error, one with a value, or none.
Tries == {Try(Var(t)) : t \in {ErrorT, Pair(I8, ErrorT), Pair(ErrorT, I8), I8}} \cup
         {Try(Tuple(e, Var(ErrorT))) : e \in {Num(1), Var(I8), Var(ErrorT)}}
TryPrograms ==
  {Function(<<s, e>>, r) :
     s \in UNION {{v, Discard(v), Let(I8, v), Assign(I8, v), Call("take", <<v>>), If(Var(Bool), Block(<<v>>)),
                   Discard(Bin("+", v, Num(1))), While(Var(Bool), Block(<<v>>))} : v \in Tries},
     e \in {Var(ErrorT), Tuple(Var(I8), Var(ErrorT)), Num(1)}, r \in {ErrorT, Pair(I8, ErrorT), I8}}

RecordPrograms ==
  {Function(<<v>>, r) : v \in Fieldwise({Num(1), Var(I8)}), r \in {Point, Shape, Way, Pair(I8, I64), Bool}}

\* Two structs with a list in them.
Boxes == {Function(<<Discard(Bin("==", Var(Box), Var(Box)))>>, Unit)}

AllPrograms ==
  {Use(v)[i] : v \in FlatValues \cup DeepValues \cup Fieldwise(Atoms) \cup Switches, i \in 1 .. 9}
    \cup TryPrograms \cup RecordPrograms
=============================================================================
