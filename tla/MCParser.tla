------------------------------ MODULE MCParser ------------------------------
(***************************************************************************)
(* Programs for Parser: every construct of the language within every       *)
(* other, two deep, and files of declarations.                             *)
(***************************************************************************)
EXTENDS Parser

MCNames == {"_", "a", "b", "f", "x", "y", "P", "T", "E", "V", "cast", "parse",
            "List", "Set", "Chan", "Stream", "Array", "Map", "Tuple2"}
MCLiterals == [Int |-> {"0", "1"}, Float |-> {"1.5"}, String |-> {"text"}]

A == IdentExpr("a")
B == IntLit("1")
T == NamedType("T")
Do(exprs) == Block(exprs)
Fn(body) == ClosureLit(<<Param("x", T)>>, T, body)
Program(exprs) == File(<<FuncDecl("f", << >>, T, Do(exprs))>>)

\* A stage of a pipe, with e before it: n is the stage and the argument.
HeadOf(e) == IF e.k \in {"IdentExpr", "CallExpr"} THEN e.v ELSE "<value>"
Through(e, n, callee, type, closure, args) ==
  LET before == IF n[1] = 1 THEN <<HeadOf(e)>> ELSE e.s
  IN  Shape("CallExpr", callee, n, Append(before, callee), <<type, closure>> \o args)
Twice(e) ==
  [Through(Through(e, <<1, 0>>, "f", Nil, Nil, <<e>>), <<2, 1>>, "b", T, Nil, <<A, A>>) EXCEPT
     !.c[4] = [Through(e, <<1, 0>>, "f", Nil, Nil, <<e>>) EXCEPT !.s = <<HeadOf(e), "f", "parse">>],
     !.s = <<HeadOf(e), "f", "parse">>, !.v = "parse"]

\* An operator of every level, and around e what an expression may be around
\* one.
Ops == {"||", "&&", "!=", "<=", "-", "&^"}
Around(e) ==
  {BinaryExpr(op, e, B) : op \in Ops} \cup {BinaryExpr(op, B, e) : op \in Ops}
  \cup {UnaryExpr("-", e), RangeExpr("..", e, B), RangeExpr("..=", B, e),
        CallExpr("f", Nil, <<e>>), CallExpr("cast", T, <<B, e>>), TupleLit(<<e, B>>),
        ListLit(<<B, e>>), SetOrMapLit(<<e, B>>),
        SetOrMapLit(<<MapLitEntry(B, e), MapLitEntry(e, B)>>), StructLit(<< >>, "P", <<StructLitField("x", e)>>),
        StructLit(<<"x">>, "P", <<StructLitField("x", e), StructLitField("y", B)>>),
        IndexExpr(e, B), IndexExpr(A, e), SliceExpr(A, e, Nil), SliceExpr(A, Nil, e), SliceExpr(e, B, A),
        FieldExpr(e, "0"), TryExpr(e),
        FieldCall(A, "x", <<StructLitField("", e), StructLitField("y", e)>>),
        Through(e, <<1, 0>>, "f", Nil, Nil, <<e>>),
        Through(A, <<1, 1>>, "f", Nil, Nil, <<e, A, B>>), Twice(e),
        Through(e, <<1, 0>>, "<closure>", Nil, Fn(Do(<<B>>)), <<e>>),
        Fn(Do(<<e>>)), IfExpr(e, Do(<<A>>), Nil), IfExpr(A, Do(<<e>>), Do(<<B>>)),
        IfExpr(A, Do(<<B>>), IfExpr(e, Do(<<A, B>>), Do(<<e>>))),
        WhileExpr(e, Do(<<A>>)), ForExpr(<<"x">>, e, Do(<<e, A>>)), ForYield("x", e, B), ForYield("x", A, e),
        SwitchExpr(e, <<SwitchCase("E", "V", <<"x">>, Do(<<A>>))>>, Nil),
        SwitchExpr(A, <<SwitchCase("E", "V", << >>, Do(<<e>>))>>, Do(<<e>>))}

\* What may stand on a line of a block.
Lines_(e) ==
  {LetExpr("x", T, e), LetExpr("x", Nil, e), LetTupleExpr(<<"x", "y">>, e), ConstDecl("x", Nil, e),
   AssignExpr("a", e), IndexAssignExpr(e, B, A), FieldAssignExpr(A, "x", e), DiscardExpr(e), ReturnExpr(e)}
Jumps == {BreakExpr, ContinueExpr, ReturnExpr(Nil)}

Types == {ListType(T), SetType(T), ChanType(T), StreamType(T), MapType(T, T), QualifiedType("x", "P"),
          TupleType(<<T, T>>), ArrayType(ArrayType(T, IntLit("1")), BinaryExpr("-", A, B)),
          FuncType(<<T, ListType(T)>>, T)}
Declarations ==
  File(<<ImportDecl("x", "text"),
         ExternDecl("text", "x", <<ExternTypeDecl("T")>>,
                    <<ExternBindDecl("f", << >>, <<Param("a", T)>>, T),
                      ExternBindDecl("f", <<"T", "V">>, << >>, T), ExternBindDecl("f", <<"b">>, << >>, T)>>),
         EnumDecl("E", <<EnumVariant("V", << >>), EnumVariant("T", <<Param("x", T), Param("y", T)>>)>>),
         StructDecl("P", <<Param("x", T), Param("y", T)>>),
         ConstDecl("a", T, B),
         FuncDecl("f", <<Param("x", T)>>, T, Do(<< >>))>>)

Simple == {Program(<<l>>) : l \in Around(A) \cup Lines_(A) \cup Jumps} \cup {Declarations}
MCPrograms ==
  Simple \cup {Program(<<e, A>>) : e \in UNION {Around(d) : d \in Around(A)}}
  \cup {Program(<<l, A>>) : l \in UNION {Lines_(d) : d \in Around(A)} \cup Jumps}
  \cup {File(<<FuncDecl("f", <<Param("x", t)>>, t, Do(<<ReturnExpr(Nil)>>))>>) : t \in Types}
MCDrafts == Simple \cup {Program(<<l, A>>) : l \in UNION {Lines_(d) : d \in {BinaryExpr("-", A, B), Twice(A)}}}
MCTypos == {NL, ")", "{", "return", "a", "|>", ","}
===============================================================================
