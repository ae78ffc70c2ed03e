------------------------------- MODULE Notation -------------------------------
(***************************************************************************)
(* How a tree is written down: amifl-spec.md sections 5 to 9 read from the *)
(* tree to the text, as internal/parser reads from the text to the tree.   *)
(* Parentheses stand only where the table of precedences of section 6 asks *)
(* for them, and where section 7.1 does.                                   *)
(*                                                                         *)
(* The layouts are "flat" (no line break that is not needed), "lines"      *)
(* (a break wherever section 5 allows one, and commas at the end) and      *)
(* "switch" (like flat, with a `switch` for every `if` that can be one).   *)
(***************************************************************************)
EXTENDS Syntax, SequencesExt, FiniteSets

NL == "newline"
Layouts == {"flat", "lines", "switch"}
Break(lay) == IF lay = "lines" THEN <<NL>> ELSE << >>

\* Texts one after the other with a token between, or in brackets.
Separated(texts, sep) ==
  FlattenSeq([i \in DOMAIN texts |-> IF i = 1 THEN texts[i] ELSE <<sep>> \o texts[i]])
InBrackets(open, texts, close, lay) ==
  IF lay = "lines" /\ texts # << >>
  THEN <<open, NL>> \o FlattenSeq([i \in DOMAIN texts |-> texts[i] \o <<",", NL>>]) \o <<close>>
  ELSE <<open>> \o Separated(texts, ",") \o <<close>>
InBraces(texts, lay) ==
  <<"{">> \o (IF texts = << >> THEN << >> ELSE Break(lay) \o Separated(texts, NL) \o Break(lay)) \o <<"}">>
InParens(text, lay) == <<"(">> \o Break(lay) \o text \o Break(lay) \o <<")">>
Commas(texts) == Separated(texts, ",")
Words(texts) == [i \in DOMAIN texts |-> <<texts[i]>>]

Children(t, from) == SubSeq(t.c, from, Len(t.c))

\* How tightly the node at the top of t binds.
BinaryLevels == << {"||"}, {"&&"}, {"!=", "=="}, {"<", ">", "<=", ">="},
                   {"+", "-", "|", "^"}, {"*", "/", "%", "<<", ">>", "&", "&^"} >>
Binds(t) ==
  CASE t.k = "CallExpr" /\ t.n[1] > 0 -> 0
    [] t.k = "ForYield" -> 0
    [] t.k = "RangeExpr" -> 1
    [] t.k = "BinaryExpr" -> 1 + CHOOSE l \in DOMAIN BinaryLevels : t.v \in BinaryLevels[l]
    [] t.k = "UnaryExpr" -> 8
    [] OTHER -> 9

Statements == {"LetExpr", "LetTupleExpr", "ConstDecl", "AssignExpr", "IndexAssignExpr", "FieldAssignExpr",
               "DiscardExpr", "BreakExpr", "ContinueExpr", "ReturnExpr"}
\* Whether a chain of ifs is one that `switch` stands for.
RECURSIVE Switchable(_)
Switchable(t) ==
  /\ t.k = "IfExpr"
  /\ Len(t.c[2].c) = 1 /\ t.c[2].c[1].k \notin Statements
  /\ CASE t.c[3].k = "IfExpr" -> Switchable(t.c[3])
       [] t.c[3].k = "Block" -> Len(t.c[3].c) = 1 /\ t.c[3].c[1].k \notin Statements
       [] OTHER -> TRUE

RECURSIVE Type(_, _), Text(_, _, _), Sizes(_), Cases(_, _), IfText(_, _)

\* A list of named types: of parameters, of fields.
Named(params, lay) == [i \in DOMAIN params |-> <<params[i].v, ":">> \o Type(params[i].c[1], lay)]
Signature(params, ret, lay) == InBrackets("(", Named(params, lay), ")", lay) \o <<"->">> \o Type(ret, lay)

\* The sizes of an array of arrays, from the outside in, and the element.
Sizes(t) == IF t.k = "Array" THEN <<t.c[2]>> \o Sizes(t.c[1]) ELSE <<t>>
Type(t, lay) ==
  LET all == Sizes(t)
      sizes(s) == [i \in DOMAIN s |-> Text(s[i], FALSE, lay)]
      inner(ts) == [i \in DOMAIN ts |-> Type(ts[i], lay)]
  IN  CASE t.k = "NamedType" -> <<t.v>>
        [] t.k = "QualifiedType" -> <<t.s[1], ".", t.v>>
        [] t.k = "FuncType" ->
             <<"fn">> \o InBrackets("(", inner(Tail(t.c)), ")", lay) \o <<"->">> \o Type(t.c[1], lay)
        [] t.k = "Tuple" -> <<"Tuple" \o ToString(Len(t.c))>> \o InBrackets("[", inner(t.c), "]", lay)
        [] t.k = "Array" /\ lay = "lines" ->
             <<"Array", "[">> \o Type(Last(all), lay) \o <<";">> \o Commas(sizes(Front(all))) \o <<"]">>
        [] t.k = "Array" /\ lay # "lines" ->
             <<"Array", "[">> \o Type(t.c[1], lay) \o <<";">> \o Text(t.c[2], FALSE, lay) \o <<"]">>
        [] OTHER -> <<t.k, "[">> \o Commas(inner(t.c)) \o <<"]">>
Annotation(t, lay) == IF t = Nil THEN << >> ELSE <<":">> \o Type(t, lay)
Generic(t, lay) == IF t = Nil THEN << >> ELSE <<"[">> \o Type(t, lay) \o <<"]">>

-----------------------------------------------------------------------------
(* Expressions.  bare says that a brace here would open a block: section   *)
(* 7.1 asks for parentheses around the literal of a struct.                *)

Operand(t, level, bare, lay) ==
  IF Binds(t) < level THEN InParens(Text(t, FALSE, lay), lay) ELSE Text(t, bare, lay)
Texts(ts, lay) == [i \in DOMAIN ts |-> Text(ts[i], FALSE, lay)]
Values(fields, lay) ==
  [i \in DOMAIN fields |-> (IF fields[i].v = "" THEN << >> ELSE <<fields[i].v, ":">>)
                           \o Text(fields[i].c[1], FALSE, lay)]
BlockText(t, lay) == InBraces(Texts(t.c, lay), lay)
Header(t, lay) == Text(t, TRUE, lay)
Optional(t, lay) == IF t = Nil THEN << >> ELSE Text(t, FALSE, lay)

\* One stage of a pipe, after `|>`: what comes through is left out, or "_".
Stage(t, lay) ==
  LET at == t.n[2] + 1
      args == Children(t, 3)
      texts == [i \in DOMAIN args |-> IF i = at THEN <<"_">> ELSE Text(args[i], FALSE, lay)]
  IN  CASE t.c[2] # Nil -> Text(t.c[2], FALSE, lay)
        [] t.c[2] = Nil /\ lay = "lines" -> <<t.v>> \o Generic(t.c[1], lay) \o InBrackets("(", texts, ")", lay)
        [] t.c[2] = Nil /\ lay # "lines" ->
             <<t.v>> \o Generic(t.c[1], lay)
             \o (IF Len(args) = 1 THEN << >>
                 ELSE InBrackets("(", IF at = 1 THEN Tail(texts) ELSE texts, ")", lay))
Pipe(t, bare, lay) ==
  LET through == t.c[3 + t.n[2]]
  IN  (IF t.n[1] = 1 THEN Operand(through, 1, bare, lay) ELSE Text(through, bare, lay))
      \o Break(lay) \o <<"|>">> \o Stage(t, lay)

\* `cond { then } elif ... else ...`, or the clauses of a switch.
IfText(t, lay) ==
  Header(t.c[1], lay) \o BlockText(t.c[2], lay)
  \o (CASE t.c[3].k = "IfExpr" -> <<"elif">> \o IfText(t.c[3], lay)
        [] t.c[3].k = "Block" -> <<"else">> \o BlockText(t.c[3], lay)
        [] OTHER -> << >>)
Cases(t, lay) ==
  CASE t.k = "IfExpr" -> << <<"case">> \o Text(t.c[1], FALSE, lay) \o <<":">> \o Text(t.c[2].c[1], FALSE, lay) >>
                         \o Cases(t.c[3], lay)
    [] t.k = "Block" -> << <<"default", ":">> \o Text(t.c[1], FALSE, lay) >>
    [] OTHER -> << >>
Pattern(case, lay) ==
  <<"case", case.s[1], ".", case.s[2]>>
  \o (IF Len(case.s) = 2 THEN << >> ELSE InBrackets("(", Words(SubSeq(case.s, 3, Len(case.s))), ")", lay))
  \o <<":">> \o Text(case.c[1].c[1], FALSE, lay)
SwitchText(t, lay) ==
  LET subject == Header(t.c[1], lay)
      cases == [i \in DOMAIN Children(t, 3) |-> Pattern(Children(t, 3)[i], lay)]
      default == IF t.c[2] = Nil THEN << >> ELSE << <<"default", ":">> \o Text(t.c[2].c[1], FALSE, lay) >>
  IN  <<"switch">> \o (IF Head(subject) = "{" THEN InParens(subject, lay) ELSE subject)
      \o InBraces(cases \o default, lay)

Text(t, bare, lay) ==
  CASE t.k = "LetExpr" -> <<"let", t.v>> \o Annotation(t.c[1], lay) \o <<"=">> \o Text(t.c[2], FALSE, lay)
    [] t.k = "ConstDecl" -> <<"const", t.v>> \o Annotation(t.c[1], lay) \o <<"=">> \o Text(t.c[2], FALSE, lay)
    [] t.k = "LetTupleExpr" ->
         <<"let">> \o InBrackets("(", Words(t.s), ")", lay) \o <<"=">> \o Text(t.c[1], FALSE, lay)
    [] t.k = "AssignExpr" -> <<t.v, "=">> \o Text(t.c[1], FALSE, lay)
    [] t.k = "IndexAssignExpr" ->
         Text(IndexExpr(t.c[1], t.c[2]), FALSE, lay) \o <<"=">> \o Text(t.c[3], FALSE, lay)
    [] t.k = "FieldAssignExpr" ->
         Text(FieldExpr(t.c[1], t.v), FALSE, lay) \o <<"=">> \o Text(t.c[2], FALSE, lay)
    [] t.k = "DiscardExpr" -> <<"_", "=">> \o Text(t.c[1], FALSE, lay)
    [] t.k = "BreakExpr" -> <<"break">>
    [] t.k = "ContinueExpr" -> <<"continue">>
    [] t.k = "ReturnExpr" -> <<"return">> \o Optional(t.c[1], lay)
    [] t.k = "UnaryExpr" -> <<t.v>> \o Operand(t.c[1], 8, bare, lay)
    [] t.k = "BinaryExpr" ->
         Operand(t.c[1], Binds(t), bare, lay) \o <<t.v>> \o Operand(t.c[2], Binds(t) + 1, bare, lay)
    [] t.k = "RangeExpr" -> Operand(t.c[1], 2, bare, lay) \o <<t.v>> \o Operand(t.c[2], 2, bare, lay)
    [] t.k = "TupleLit" -> IF Len(t.c) = 1 THEN <<"(">> \o Text(t.c[1], FALSE, lay) \o <<",", ")">>
                           ELSE InBrackets("(", Texts(t.c, lay), ")", lay)
    [] t.k = "ListLit" -> InBrackets("[", Texts(t.c, lay), "]", lay)
    [] t.k = "SetOrMapLit" -> InBrackets("{", Texts(t.c, lay), "}", lay)
    [] t.k = "MapLitEntry" -> Text(t.c[1], FALSE, lay) \o <<":">> \o Text(t.c[2], FALSE, lay)
    [] t.k = "StructLit" /\ bare -> InParens(Text(t, FALSE, lay), lay)
    [] t.k = "StructLit" /\ ~bare -> (IF t.s = << >> THEN << >> ELSE <<t.s[1], ".">>)
         \o <<t.v>> \o InBrackets("{", Values(t.c, lay), "}", lay)
    [] t.k = "ClosureLit" -> <<"fn">> \o Signature(Children(t, 3), t.c[1], lay) \o BlockText(t.c[2], lay)
    [] t.k = "IndexExpr" ->
         Operand(t.c[1], 9, bare, lay) \o <<"[">> \o Break(lay) \o Text(t.c[2], FALSE, lay) \o Break(lay) \o <<"]">>
    [] t.k = "SliceExpr" ->
         Operand(t.c[1], 9, bare, lay) \o <<"[">> \o Break(lay) \o Optional(t.c[2], lay) \o <<":">>
         \o Optional(t.c[3], lay) \o Break(lay) \o <<"]">>
    [] t.k = "TryExpr" -> Operand(t.c[1], 9, bare, lay) \o <<"?">>
    [] t.k = "FieldExpr" -> Operand(t.c[1], 9, bare, lay) \o <<".", t.v>>
         \o (IF t.n = << >> THEN << >> ELSE InBrackets("(", Values(Tail(t.c), lay), ")", lay))
    [] t.k = "CallExpr" /\ t.n[1] > 0 -> Pipe(t, bare, lay)
    [] t.k = "CallExpr" /\ t.n[1] = 0 ->
         <<t.v>> \o Generic(t.c[1], lay) \o InBrackets("(", Texts(Children(t, 3), lay), ")", lay)
    [] t.k = "IfExpr" -> IF lay = "switch" /\ Switchable(t)
                         THEN <<"switch">> \o InBraces(Cases(t, lay), lay) ELSE <<"if">> \o IfText(t, lay)
    [] t.k = "WhileExpr" -> <<"while">> \o Header(t.c[1], lay) \o BlockText(t.c[2], lay)
    [] t.k = "ForExpr" ->
         <<"for">> \o Commas(Words(t.s)) \o <<"in">> \o Header(t.c[1], lay) \o BlockText(t.c[2], lay)
    [] t.k = "ForYield" ->
         <<"for", t.s[1], "in">> \o Header(t.c[1], lay) \o <<"yield">> \o Text(t.c[2], FALSE, lay)
    [] t.k = "SwitchExpr" -> SwitchText(t, lay)
    [] OTHER -> <<t.v>>   \* literals and names

-----------------------------------------------------------------------------
(* Declarations and files. *)

Declaration(t, lay) ==
  LET fields(v) == IF v.c = << >> THEN << >> ELSE InBrackets("(", Named(v.c, lay), ")", lay)
      entry(e) == IF e.k = "ExternTypeDecl" THEN <<"type", e.v>>
                  ELSE <<"bind", e.v>> \o Signature(Tail(e.c), e.c[1], lay)
                       \o (IF e.s = << >> THEN << >> ELSE <<"as">> \o Separated(Words(e.s), "."))
  IN  CASE t.k = "ImportDecl" -> <<"import", t.s[1], t.v>>
        [] t.k = "ExternDecl" ->
             <<"extern", t.v, "as", t.s[1]>> \o InBraces([i \in DOMAIN t.c |-> entry(t.c[i])], lay)
        [] t.k = "EnumDecl" ->
             <<"enum", t.v>> \o InBraces([i \in DOMAIN t.c |-> <<t.c[i].v>> \o fields(t.c[i])], lay)
        [] t.k = "StructDecl" -> <<"struct", t.v>> \o InBrackets("{", Named(t.c, lay), "}", lay)
        [] t.k = "FuncDecl" ->
             <<"fn", t.v>> \o Signature(Children(t, 3), t.c[1], lay) \o BlockText(t.c[2], lay)
        [] OTHER -> Text(t, FALSE, lay)

\* The text of a file.
Written(file, lay) ==
  Break(lay) \o Separated([i \in DOMAIN file.c |-> Declaration(file.c[i], lay)], NL) \o Break(lay)
===============================================================================
