-------------------------------- MODULE Parser --------------------------------
(***************************************************************************)
(* internal/parser: from the tokens of a file to its syntax tree.          *)
(*                                                                         *)
(* The state of the parser is a record: the token under consideration      *)
(* (cur), the tokens looked at in advance (buf), what the lexer has not    *)
(* been asked for (text from lx), and noCompositeLit (nc).  An error is a  *)
(* state whose cur is "error", which no rule accepts: every `return err`.  *)
(* A parse function maps a state to the state after it and a tree.         *)
(*                                                                         *)
(* A token is its text; Kind tells identifiers and literals from the rest. *)
(***************************************************************************)
EXTENDS Syntax, Notation

CONSTANTS
  Names,     \* the identifiers, "_" and the names of types among them
  Literals,  \* the literals of each kind: a function from kind to set
  Programs,  \* the files to consider, as the trees that are meant
  Drafts,    \* those in which the author may slip
  Typos,     \* tokens that may be typed by mistake
  MaxSlips   \* how many mistakes there may be

ASSUME ParserAssumption ==
  /\ "_" \in Names
  /\ \A k \in DOMAIN Literals : Literals[k] \cap Names = {}
  /\ Drafts \subseteq Programs
  /\ MaxSlips \in Nat

Kind(t) == IF t \in Names THEN "Ident"
           ELSE IF \E k \in DOMAIN Literals : t \in Literals[k]
           THEN CHOOSE k \in DOMAIN Literals : t \in Literals[k] ELSE t

R(p, t) == [p |-> p, t |-> t]
Fail(p) == [p EXCEPT !.cur = "error"]
Failed(p) == R(Fail(p), Nil)

\* What the lexer says next; at the end it goes on saying so.
Lex(p) == IF p.lx > Len(p.text) THEN "EOF" ELSE p.text[p.lx]
\* Mutation: what was looked at in advance is forgotten.
AdvanceFromLexer(p) ==
  IF p.cur = "error" THEN p ELSE [p EXCEPT !.cur = Lex(p), !.lx = @ + 1, !.buf = << >>]
Advance(p) ==
  CASE p.cur = "error" -> p
    [] p.cur # "error" /\ p.buf # << >> -> [p EXCEPT !.cur = Head(p.buf), !.buf = Tail(p.buf)]
    [] p.cur # "error" /\ p.buf = << >> -> [p EXCEPT !.cur = Lex(p), !.lx = @ + 1]

RECURSIVE PeekFrom(_, _), SkipNewlines(_), ExpectAll(_, _)

\* The first token after newlines, without consuming: buf grows as needed.
PeekFrom(p, i) ==
  IF i <= Len(p.buf) THEN IF p.buf[i] = NL THEN PeekFrom(p, i + 1) ELSE R(p, p.buf[i])
  ELSE PeekFrom([p EXCEPT !.buf = Append(@, Lex(p)), !.lx = @ + 1], i)
PeekPastNewlines(p) == IF p.cur # NL THEN R(p, p.cur) ELSE PeekFrom(p, 1)

Expect(p, k) == IF Kind(p.cur) = k THEN Advance(p) ELSE Fail(p)
ExpectAll(p, ks) == IF ks = << >> THEN p ELSE ExpectAll(Expect(p, Head(ks)), Tail(ks))
SkipNewlines(p) == IF p.cur = NL THEN SkipNewlines(Advance(p)) ELSE p
\* A rule for one token: its text.
Word(p, k) == R(Expect(p, k), p.cur)

\* All mutual recursion of the grammar goes through here: a rule by its name.
RECURSIVE Rule(_, _), CommaItems(_, _, _), LineItems(_, _), BinaryTail(_, _), BinaryLevel(_, _),
  PostfixTail(_), Stages(_), BraceTail(_, _), Elems(_), TopLevel(_)

-----------------------------------------------------------------------------
(* Lists: between brackets, and one entry a line between braces. *)

ParseField(p) ==
  LET type == Rule("type", ExpectAll(p, <<"Ident", ":">>))
  IN  R(type.p, Param(p.cur, type.t))

\* Mutation: the value may be anything that a block may hold.
ParseLitFieldOfExpr(p) ==
  LET v == Rule("expr", ExpectAll(p, <<"Ident", ":">>)) IN R(v.p, StructLitField(p.cur, v.t))
\* `name: value` of a struct literal.
ParseLitField(p) ==
  LET v == Rule("value", ExpectAll(p, <<"Ident", ":">>))
  IN  R(v.p, StructLitField(p.cur, v.t))

\* An argument after `.Field`: an expression, or a label if `:` follows a name.
ParseFieldArg(p) ==
  LET first == Rule("value", p)
      value == Rule("value", Advance(first.p))
  IN  IF first.t.k = "IdentExpr" /\ first.p.cur = ":"
      THEN R(value.p, StructLitField(first.t.v, value.t))
      ELSE R(first.p, StructLitField("", first.t))

\* An argument of a pipe: "_" stands for what comes through it.
Hole == Tree("Hole", "", << >>)
ParsePipeArg(p) == IF p.cur = "_" THEN R(Advance(p), Hole) ELSE Rule("value", p)

\* parseCommaList: the opening bracket is consumed, the closing one is not.
CommaItems(r, close, item) ==
  LET one == Rule(item, r.p)
      p == SkipNewlines(one.p)
      so == Append(r.t, one.t)
  IN  IF r.p.cur = close THEN r
      ELSE IF p.cur # "," THEN R(p, so)
      ELSE CommaItems(R(SkipNewlines(Advance(p)), so), close, item)
CommaList(p, close, item) == CommaItems(R(SkipNewlines(p), << >>), close, item)

\* The same with its brackets, inside which literals of structs are allowed.
Enclosed(p, open, close, item) ==
  LET r == CommaList([Expect(p, open) EXCEPT !.nc = FALSE], close, item)
  IN  R([Expect(r.p, close) EXCEPT !.nc = p.nc], r.t)

\* And without touching that flag, in types and in declarations.
Listed(p, open, close, item) ==
  LET r == CommaList(Expect(p, open), close, item) IN R(Expect(r.p, close), r.t)

-----------------------------------------------------------------------------
(* Types. *)

Bracketed(p) ==
  LET e == Rule("type", Expect(p, "[")) IN R(Expect(e.p, "]"), e.t)

ParseTupleType(p, arity) ==
  LET r == Listed(p, "[", "]", "type")
  IN  IF Len(r.t) = arity THEN R(r.p, TupleType(r.t)) ELSE Failed(r.p)

ParseMapType(p) ==
  LET key == Rule("type", Expect(p, "["))
      val == Rule("type", Expect(key.p, ","))
  IN  R(Expect(val.p, "]"), MapType(key.t, val.t))

\* Array[T; N1, N2] is Array[Array[T; N2]; N1].
ParseArrayType(p) ==
  LET elem == Rule("type", Expect(p, "["))
      sizes == CommaList(Expect(elem.p, ";"), "]", "value")
  IN  R(Expect(sizes.p, "]"), FoldRight(LAMBDA n, t : ArrayType(t, n), sizes.t, elem.t))

ParseFuncType(p) ==
  LET params == Listed(Expect(p, "fn"), "(", ")", "type")
      ret == Rule("type", Expect(params.p, "->"))
  IN  R(ret.p, FuncType(params.t, ret.t))

TupleNames == <<"Tuple1", "Tuple2", "Tuple3", "Tuple4", "Tuple5", "Tuple6", "Tuple7", "Tuple8">>
ParseTypeExpr(p) ==
  LET q == Expect(p, "Ident")
      one == Bracketed(q)
  IN  IF p.cur = "fn" THEN ParseFuncType(p)
      ELSE IF q.cur = "." THEN R(Expect(Advance(q), "Ident"), QualifiedType(p.cur, Advance(q).cur))
      ELSE CASE p.cur = "List" -> R(one.p, ListType(one.t))
             [] p.cur = "Set" -> R(one.p, SetType(one.t))
             [] p.cur = "Chan" -> R(one.p, ChanType(one.t))
             [] p.cur = "Stream" -> R(one.p, StreamType(one.t))
             [] p.cur = "Array" -> ParseArrayType(q)
             [] p.cur = "Map" -> ParseMapType(q)
             [] \E n \in 2 .. 8 : p.cur = TupleNames[n] ->
                  ParseTupleType(q, CHOOSE n \in 2 .. 8 : p.cur = TupleNames[n])
             [] OTHER -> R(q, NamedType(p.cur))

ParseOptionalTypeAnnotation(p) == IF p.cur = ":" THEN Rule("type", Advance(p)) ELSE R(p, Nil)

\* `(params) -> Ret` of a function, a closure or a bind.
ParseSignature(p) ==
  LET params == Listed(p, "(", ")", "field")
      ret == Rule("type", Expect(params.p, "->"))
  IN  [p |-> ret.p, params |-> params.t, ret |-> ret.t]

-----------------------------------------------------------------------------
(* Entries on lines of their own, up to a closing brace: the expressions   *)
(* of a block, the variants of an enum, the entries of an extern, the      *)
(* clauses of a switch.                                                    *)

ParseVariant(p) ==
  LET q == Expect(p, "Ident")
      fields == Listed(q, "(", ")", "field")
  IN  IF q.cur = "(" THEN R(fields.p, EnumVariant(p.cur, fields.t))
      ELSE R(q, EnumVariant(p.cur, << >>))

ParseExternBind(p) ==
  LET sig == ParseSignature(ExpectAll(p, <<"bind", "Ident">>))
      t1 == Advance(sig.p)
      q == Expect(t1, "Ident")
      bind(target) == ExternBindDecl(Advance(p).cur, target, sig.params, sig.ret)
  IN  IF sig.p.cur # "as" THEN R(sig.p, bind(<< >>))
      ELSE IF q.cur # "." THEN R(q, bind(<<t1.cur>>))
      ELSE R(Expect(Advance(q), "Ident"), bind(<<t1.cur, Advance(q).cur>>))

ParseExternEntry(p) ==
  CASE p.cur = "type" -> R(Expect(Advance(p), "Ident"), ExternTypeDecl(Advance(p).cur))
    [] p.cur = "bind" -> ParseExternBind(p)
    [] OTHER -> Failed(p)

\* A clause of a switch: `case cond: body`, `case Enum.Variant(names): body`
\* or `default: body`.  A default is a SwitchCase without a pattern.
Clause(p, pattern) ==
  LET body == Rule("value", Expect(p, ":"))
  IN  R(body.p, <<pattern, body.t>>)

ParseSwitchCasePattern(p) ==
  LET q == ExpectAll(p, <<"Ident", ".", "Ident">>)
      variant == Advance(Advance(p)).cur
      names == Listed(q, "(", ")", "name")
  IN  IF q.cur = "(" THEN R(names.p, SwitchCase(p.cur, variant, names.t, Nil))
      ELSE R(q, SwitchCase(p.cur, variant, << >>, Nil))

ParseClause(p, subject) ==
  LET head == IF subject THEN ParseSwitchCasePattern(Advance(p)) ELSE Rule("value", Advance(p))
  IN  CASE p.cur = "case" -> Clause(head.p, head.t)
        [] p.cur = "default" -> Clause(Advance(p), Nil)
        [] OTHER -> Failed(p)

LineItems(r, item) ==
  LET one == Rule(item, r.p)
      so == Append(r.t, one.t)
  IN  IF r.p.cur = "}" THEN r
      ELSE IF one.p.cur = "}" THEN R(one.p, so)
      ELSE IF one.p.cur = NL THEN LineItems(R(SkipNewlines(one.p), so), item)
      ELSE R(Fail(one.p), << >>)
Lines(p, item) ==
  LET r == LineItems(R(SkipNewlines(Expect(p, "{")), << >>), item)
  IN  R(Expect(r.p, "}"), r.t)

ParseBlock(p) == LET r == Lines(p, "expr") IN R(r.p, Block(r.t))

-----------------------------------------------------------------------------
(* Expressions in statement position. *)

\* `keyword name [: Type] = value`.
ParseNamed(p) ==
  LET type == ParseOptionalTypeAnnotation(ExpectAll(p, <<p.cur, "Ident">>))
      value == Rule("expr", Expect(type.p, "="))
  IN  [p |-> value.p, name |-> Advance(p).cur, type |-> type.t, value |-> value.t]
ParseConstDecl(p) == LET d == ParseNamed(p) IN R(d.p, ConstDecl(d.name, d.type, d.value))
ParseLetTupleExpr(p) ==
  LET names == Listed(p, "(", ")", "name")
      value == Rule("expr", Expect(names.p, "="))
  IN  R(value.p, LetTupleExpr(names.t, value.t))
ParseLetExpr(p) ==
  LET d == ParseNamed(p)
  IN  IF Advance(p).cur = "(" THEN ParseLetTupleExpr(Advance(p))
      ELSE R(d.p, LetExpr(d.name, d.type, d.value))

ParseDiscardExpr(p) ==
  LET value == Rule("expr", ExpectAll(p, <<"Ident", "=">>)) IN R(value.p, DiscardExpr(value.t))

ParseReturnExpr(p) ==
  LET q == Advance(p)
      value == Rule("value", q)
  IN  IF q.cur \in {NL, "}", "EOF"} THEN R(q, ReturnExpr(Nil)) ELSE R(value.p, ReturnExpr(value.t))

\* The target has been parsed as an expression, and `=` follows.
FinishAssignExpr(target) ==
  LET t == target.t
      value == Rule("expr", Advance(target.p))
  IN  CASE t.k = "IdentExpr" -> R(value.p, AssignExpr(t.v, value.t))
        [] t.k = "IndexExpr" -> R(value.p, IndexAssignExpr(t.c[1], t.c[2], value.t))
        [] t.k = "FieldExpr" /\ t.n = << >> -> R(value.p, FieldAssignExpr(t.c[1], t.v, value.t))
        [] OTHER -> Failed(value.p)

ParseExpr(p) ==
  LET e == Rule("value", p)
  IN  CASE p.cur = "let" -> ParseLetExpr(p)
        [] p.cur = "const" -> ParseConstDecl(p)
        [] p.cur = "break" -> R(Advance(p), BreakExpr)
        [] p.cur = "continue" -> R(Advance(p), ContinueExpr)
        [] p.cur = "return" -> ParseReturnExpr(p)
        [] p.cur = "_" -> ParseDiscardExpr(p)
        [] OTHER -> IF e.p.cur = "=" THEN FinishAssignExpr(e) ELSE e

-----------------------------------------------------------------------------
(* Operators, ranges and pipes. *)

BinaryOps == << {"||"}, {"&&"}, {"==", "!="}, {"<", "<=", ">", ">="},
                {"+", "-", "|", "^"}, {"*", "/", "%", "<<", ">>", "&", "&^"} >>
UnaryOps == {"!", "-", "~"}

\* Mutation: the right operand may hold operators of the same level.
BinaryTailRight(left, l) ==
  LET right == BinaryLevel(Advance(left.p), l)
  IN  IF left.p.cur \notin BinaryOps[l] THEN left
      ELSE BinaryTail(R(right.p, BinaryExpr(left.p.cur, left.t, right.t)), l)
\* Level l of the table, the operators to the left first.
BinaryTail(left, l) ==
  LET right == BinaryLevel(Advance(left.p), l + 1)
  IN  IF left.p.cur \notin BinaryOps[l] THEN left
      ELSE BinaryTail(R(right.p, BinaryExpr(left.p.cur, left.t, right.t)), l)
BinaryLevel(p, l) ==
  IF l > Len(BinaryOps) THEN Rule("unary", p) ELSE BinaryTail(BinaryLevel(p, l + 1), l)
ParseOrExpr(p) == BinaryLevel(p, 1)

ParseRangeExpr(p) ==
  LET from == ParseOrExpr(p)
      to == ParseOrExpr(Advance(from.p))
  IN  IF from.p.cur \in {"..", "..="} THEN R(to.p, RangeExpr(from.p.cur, from.t, to.t)) ELSE from

\* Whether a pipe goes on here, perhaps on the next line; if so, up to `|>`.
PipeContinues(p) ==
  LET next == PeekPastNewlines(p)
  IN  IF next.t = "|>" THEN R(SkipNewlines(next.p), TRUE) ELSE R(next.p, FALSE)

\* `[Type]` after the built-in functions that take one.
GenericBuiltins == {"cast", "parse", "unwrap", "okOr", "chan"}
ParseGenericTypeArgBracket(p, name) ==
  IF name \in GenericBuiltins /\ p.cur = "[" THEN Bracketed(p) ELSE R(p, Nil)

ParseClosureLit(p) ==
  LET sig == ParseSignature(Expect(p, "fn"))
      body == Rule("block", sig.p)
  IN  R(body.p, ClosureLit(sig.params, sig.ret, body.t))

\* One stage of a pipe, with a hole for what comes through it.
ParsePipeRHS(p) ==
  LET closure == ParseClosureLit(p)
      type == ParseGenericTypeArgBracket(Expect(p, "Ident"), p.cur)
      args == Enclosed(type.p, "(", ")", "pipearg")
      holes == {i \in DOMAIN args.t : args.t[i] = Hole}
  IN  CASE p.cur = "fn" ->
             R(closure.p, [CallExpr("<closure>", Nil, <<Hole>>) EXCEPT !.c[2] = closure.t])
        [] p.cur # "fn" /\ type.p.cur # "(" -> R(type.p, CallExpr(p.cur, type.t, <<Hole>>))
        [] p.cur # "fn" /\ type.p.cur = "(" ->
             IF Cardinality(holes) > 1 THEN Failed(args.p)
             ELSE R(args.p, CallExpr(p.cur, type.t, IF holes = {} THEN <<Hole>> \o args.t ELSE args.t))

Stages(r) ==
  LET next == Rule("stage", Advance(r.p))
      more == PipeContinues(next.p)
      so == Append(r.t, next.t)
  IN  IF more.t THEN Stages(R(more.p, so)) ELSE R(more.p, so)

\* The label of the value at the head of a pipe.
PipeChainLabel(e) == IF e.k \in {"IdentExpr", "CallExpr"} THEN e.v ELSE "<value>"

\* The chain as nested calls.  The code fills lhs in at once and the stage
\* and the labels at the end, through pointers to the calls.
PipeOf(lhs, stages) ==
  LET labels == <<PipeChainLabel(lhs)>> \o [i \in DOMAIN stages |-> stages[i].v]
      into(i, left) ==
        LET at == CHOOSE j \in 3 .. Len(stages[i].c) : stages[i].c[j] = Hole
        IN  [stages[i] EXCEPT !.c[at] = left, !.n = <<i, at - 3>>, !.s = labels]
  IN  FoldLeft(LAMBDA left, i : into(i, left), lhs, [i \in DOMAIN stages |-> i])

ParsePipeExpr(p) ==
  LET lhs == ParseRangeExpr(p)
      more == PipeContinues(lhs.p)
      rest == Stages(R(more.p, << >>))
  IN  IF more.t THEN R(rest.p, IF rest.p.cur = "error" THEN Nil ELSE PipeOf(lhs.t, rest.t))
      ELSE R(more.p, lhs.t)

ParseUnaryExpr(p) ==
  LET operand == Rule("unary", Advance(p))
  IN  IF p.cur \in UnaryOps THEN R(operand.p, UnaryExpr(p.cur, operand.t))
      ELSE PostfixTail(Rule("primary", p))

-----------------------------------------------------------------------------
(* What follows a value, and values. *)

ParseStructLit(p, q, name) ==
  LET r == Enclosed(p, "{", "}", "litfield") IN R(r.p, StructLit(q, name, r.t))

ParseFieldCallArgs(p) == Enclosed(p, "(", ")", "fieldarg")

\* `.field`, `.field(args)`, or `alias.Name{...}` right after a name.
AfterDot(r) ==
  LET name == Advance(r.p)
      p == Advance(name)
      lit == ParseStructLit(p, <<r.t.v>>, name.cur)
      args == ParseFieldCallArgs(p)
  IN  IF Kind(name.cur) \notin {"Int", "Ident"} THEN Failed(name)
      ELSE IF r.t.k = "IdentExpr" /\ p.cur = "{" /\ ~p.nc THEN lit
      ELSE IF p.cur = "(" THEN R(args.p, FieldCall(r.t, name.cur, args.t))
      ELSE R(p, FieldExpr(r.t, name.cur))

\* `[i]` or `[from:to]`, either bound of which may be missing.
ParseIndexOrSlice(r) ==
  LET p == SkipNewlines([Expect(r.p, "[") EXCEPT !.nc = FALSE])
      i == Rule("value", p)
      from == IF p.cur = ":" THEN R(p, Nil) ELSE R(SkipNewlines(i.p), i.t)
      q == SkipNewlines(Advance(from.p))
      to == IF q.cur = "]" THEN R(q, Nil) ELSE Rule("value", q)
      end(s) == [Expect(s, "]") EXCEPT !.nc = r.p.nc]
  IN  IF from.p.cur = ":" THEN R(end(SkipNewlines(to.p)), SliceExpr(r.t, from.t, to.t))
      ELSE R(end(from.p), IndexExpr(r.t, from.t))

PostfixTail(r) ==
  CASE r.p.cur = "." -> PostfixTail(AfterDot(r))
    [] r.p.cur = "[" -> PostfixTail(ParseIndexOrSlice(r))
    [] r.p.cur = "?" -> PostfixTail(R(Advance(r.p), TryExpr(r.t)))
    [] OTHER -> r

ParseListLit(p) == LET r == Enclosed(p, "[", "]", "value") IN R(r.p, ListLit(r.t))

\* The elements after the first one, up to `close`.
Elems(r) ==
  LET p == SkipNewlines(Advance(r.p))
      one == Rule("value", p)
  IN  IF r.p.cur # "," THEN r
      ELSE IF p.cur \in {")", "}"} THEN R(p, r.t)
      ELSE Elems(R(SkipNewlines(one.p), Append(r.t, one.t)))

\* The entries of a map after the first one.
MapValue(p, key) ==
  LET v == Rule("value", SkipNewlines(Expect(p, ":")))
  IN  R(SkipNewlines(v.p), MapLitEntry(key, v.t))
BraceTail(p, entries) ==
  LET q == SkipNewlines(Advance(p))
      key == Rule("value", q)
      entry == MapValue(key.p, key.t)
  IN  IF p.cur # "," THEN R(p, entries)
      ELSE IF q.cur = "}" THEN R(q, entries)
      ELSE BraceTail(entry.p, Append(entries, entry.t))

\* `{a, b}` is a set, `{k: v}` a map: the first entry decides.
ParseBraceLit(p) ==
  LET q == SkipNewlines([Advance(p) EXCEPT !.nc = FALSE])
      first == Rule("value", q)
      sep == SkipNewlines(first.p)
      entry == MapValue(sep, first.t)
      items == IF q.cur = "}" THEN R(q, << >>)
               ELSE IF sep.cur = ":" THEN BraceTail(entry.p, <<entry.t>>)
               ELSE Elems(R(sep, <<first.t>>))
  IN  R([Expect(items.p, "}") EXCEPT !.nc = p.nc], SetOrMapLit(items.t))

\* `(e)` is e, with a comma it is a tuple.
ParseParenOrTupleExpr(p) ==
  LET q == SkipNewlines([Advance(p) EXCEPT !.nc = FALSE])
      first == Rule("value", q)
      sep == SkipNewlines(first.p)
      all == Elems(R(sep, <<first.t>>))
  IN  R([Expect(all.p, ")") EXCEPT !.nc = p.nc], IF sep.cur = "," THEN TupleLit(all.t) ELSE first.t)

ParseCallArgs(p, name, typeArg) ==
  LET r == Enclosed(p, "(", ")", "value") IN R(r.p, CallExpr(name, typeArg, r.t))

ParseIdentOrCall(p) ==
  LET type == ParseGenericTypeArgBracket(Advance(p), p.cur)
      q == type.p
  IN  IF q.cur = "(" THEN ParseCallArgs(q, p.cur, type.t)
      ELSE IF type.t # Nil THEN Failed(q)
      ELSE IF q.cur = "{" /\ ~q.nc THEN ParseStructLit(q, << >>, p.cur)
      ELSE R(q, IdentExpr(p.cur))

-----------------------------------------------------------------------------
(* Control flow. *)

\* The expression before a block: no `Name {` in it is a literal.
ParseHeaderExpr(p) ==
  LET e == Rule("value", [p EXCEPT !.nc = TRUE]) IN R([e.p EXCEPT !.nc = p.nc], e.t)

\* Condition, block and what else there is: after `if` and after `elif`.
IfFrom(p) ==
  LET cond == ParseHeaderExpr(p)
      then == Rule("block", cond.p)
      else == Rule("else", then.p)
  IN  R(else.p, IfExpr(cond.t, then.t, else.t))
ParseIfExpr(p) == IfFrom(Advance(p))
ParseOptionalElse(p) ==
  CASE p.cur = "elif" -> IfFrom(Advance(p))
    [] p.cur = "else" -> Rule("block", Advance(p))
    [] OTHER -> R(p, Nil)

ParseWhileExpr(p) ==
  LET cond == ParseHeaderExpr(Advance(p))
      body == Rule("block", cond.p)
  IN  R(body.p, WhileExpr(cond.t, body.t))

ParseForExpr(p) ==
  LET q == ExpectAll(p, <<"for", "Ident">>)
      var == Advance(p).cur
      two == q.cur = ","
      vars == IF two THEN <<var, Advance(q).cur>> ELSE <<var>>
      items == ParseHeaderExpr(Expect(IF two THEN ExpectAll(q, <<",", "Ident">>) ELSE q, "in"))
      yield == Rule("value", Advance(items.p))
      body == Rule("block", items.p)
  IN  IF items.p.cur # "yield" THEN R(body.p, ForExpr(vars, items.t, body.t))
      ELSE IF two THEN Failed(items.p)
      ELSE R(yield.p, ForYield(var, items.t, yield.t))

Defaults(clauses) == {i \in DOMAIN clauses : clauses[i][1] = Nil}

\* A switch without a subject is a chain of ifs.
ParseBoolSwitchExpr(p) ==
  LET r == Lines(p, "condition")
      n == Len(r.t)
      last == Defaults(r.t) = {n}
      block(i) == Block(<<r.t[i][2]>>)
      chain == FoldRight(LAMBDA i, rest : IfExpr(r.t[i][1], block(i), rest),
                         [i \in 1 .. (IF last THEN n - 1 ELSE n) |-> i],
                         IF last THEN block(n) ELSE Nil)
  IN  IF r.p.cur = "error" \/ Defaults(r.t) \notin SUBSET {n} \/ n = 0 \/ (n = 1 /\ last)
      THEN Failed(r.p) ELSE R(r.p, chain)

\* A switch over an enum.
ParseEnumSwitchExpr(p, subject) ==
  LET r == Lines(p, "pattern")
      block(clause) == Block(<<clause[2]>>)
      cases == SelectSeq(r.t, LAMBDA clause : clause[1] # Nil)
      ds == Defaults(r.t)
  IN  IF r.p.cur = "error" \/ Cardinality(ds) > 1 \/ cases = << >> THEN Failed(r.p)
      ELSE R(r.p, SwitchExpr(subject,
                             [i \in DOMAIN cases |-> [cases[i][1] EXCEPT !.c[1] = block(cases[i])]],
                             IF ds = {} THEN Nil ELSE block(r.t[CHOOSE i \in ds : TRUE])))

ParseSwitchExpr(p) ==
  LET subject == ParseHeaderExpr(Advance(p))
  IN  IF Advance(p).cur = "{" THEN ParseBoolSwitchExpr(Advance(p))
      ELSE ParseEnumSwitchExpr(subject.p, subject.t)

ParsePrimaryExpr(p) ==
  LET k == Kind(p.cur)
      q == Advance(p)
  IN  CASE k = "Int" -> R(q, IntLit(p.cur))
        [] k = "Float" -> R(q, FloatLit(p.cur))
        [] k = "String" -> R(q, StringLit(p.cur))
        [] k \in {"true", "false"} -> R(q, BoolLit(p.cur))
        [] k = "Ident" -> ParseIdentOrCall(p)
        [] k = "(" -> ParseParenOrTupleExpr(p)
        [] k = "[" -> ParseListLit(p)
        [] k = "{" -> ParseBraceLit(p)
        [] k = "if" -> ParseIfExpr(p)
        [] k = "switch" -> ParseSwitchExpr(p)
        [] k = "while" -> ParseWhileExpr(p)
        [] k = "for" -> ParseForExpr(p)
        [] k = "fn" -> ParseClosureLit(p)
        [] OTHER -> Failed(p)

-----------------------------------------------------------------------------
(* Declarations and files. *)

ParseImportDecl(p) ==
  R(ExpectAll(p, <<"import", "Ident", "String">>), ImportDecl(Advance(p).cur, Advance(Advance(p)).cur))

ParseExternDecl(p) ==
  LET q == ExpectAll(p, <<"extern", "String", "as", "Ident">>)
      r == Lines(q, "extern")
      of(k) == SelectSeq(r.t, LAMBDA e : e.k = k)
  IN  R(r.p, ExternDecl(Advance(p).cur, Advance(Advance(Advance(p))).cur,
                        of("ExternTypeDecl"), of("ExternBindDecl")))

ParseEnumDecl(p) ==
  LET r == Lines(ExpectAll(p, <<"enum", "Ident">>), "variant")
  IN  IF r.t = << >> THEN Failed(r.p) ELSE R(r.p, EnumDecl(Advance(p).cur, r.t))

ParseStructDecl(p) ==
  LET r == Listed(ExpectAll(p, <<"struct", "Ident">>), "{", "}", "field")
  IN  R(r.p, StructDecl(Advance(p).cur, r.t))

ParseFuncDecl(p) ==
  LET sig == ParseSignature(ExpectAll(p, <<"fn", "Ident">>))
      body == Rule("block", sig.p)
  IN  R(body.p, FuncDecl(Advance(p).cur, sig.params, sig.ret, body.t))

ParseTopLevelDecl(p) ==
  CASE p.cur = "fn" -> ParseFuncDecl(p)
    [] p.cur = "const" -> ParseConstDecl(p)
    [] p.cur = "struct" -> ParseStructDecl(p)
    [] p.cur = "enum" -> ParseEnumDecl(p)
    [] p.cur = "extern" -> ParseExternDecl(p)
    [] p.cur = "import" -> ParseImportDecl(p)
    [] OTHER -> Failed(p)

Rule(rule, p) ==
  CASE rule = "decl" -> ParseTopLevelDecl(p)
    [] rule = "variant" -> ParseVariant(p)
    [] rule = "extern" -> ParseExternEntry(p)
    [] rule = "field" -> ParseField(p)
    [] rule = "type" -> ParseTypeExpr(p)
    [] rule = "block" -> ParseBlock(p)
    [] rule = "expr" -> ParseExpr(p)
    [] rule = "value" -> ParsePipeExpr(p)
    [] rule = "unary" -> ParseUnaryExpr(p)
    [] rule = "primary" -> ParsePrimaryExpr(p)
    [] rule = "stage" -> ParsePipeRHS(p)
    [] rule = "pipearg" -> ParsePipeArg(p)
    [] rule = "fieldarg" -> ParseFieldArg(p)
    [] rule = "litfield" -> ParseLitField(p)
    [] rule = "name" -> Word(p, "Ident")
    [] rule = "else" -> ParseOptionalElse(p)
    [] rule = "condition" -> ParseClause(p, FALSE)
    [] rule = "pattern" -> ParseClause(p, TRUE)

WithDecl(r, d) == R(SkipNewlines(d.p), Append(r.t, d.t))
TopLevel(r) ==
  IF r.p.cur \in {"EOF", "error"} THEN r ELSE TopLevel(WithDecl(r, Rule("decl", r.p)))

\* The tree of a file, or Nil if it is refused.
Start(text) == Advance([text |-> text, lx |-> 1, buf |-> << >>, cur |-> NL, nc |-> FALSE])
FileOf(r) == IF r.p.cur = "error" THEN Nil ELSE File(r.t)
Parse(text) == FileOf(TopLevel(R(SkipNewlines(Start(text)), << >>)))

-----------------------------------------------------------------------------
(* An author writes a file down, perhaps with slips.  The parser keeps     *)
(* nothing from one file to the next: what it makes of a file is Reading,  *)
(* a function of the text.                                                 *)

VARIABLES
  meant,  \* the tree in the author's mind
  text,   \* the tokens of the file
  slips,  \* how often the author has slipped
  draft   \* whether the file is one of Drafts

vars == <<meant, text, slips, draft>>

Init == \E file \in Programs, lay \in Layouts :
  /\ meant = file
  /\ text = Written(file, lay)
  /\ slips = 0
  /\ draft = (file \in Drafts)

\* The author leaves a token out, or types another in its place.
Slip(i, typed) ==
  /\ draft /\ slips < MaxSlips
  /\ text' = SubSeq(text, 1, i - 1) \o typed \o SubSeq(text, i + 1, Len(text))
  /\ slips' = slips + 1
  /\ UNCHANGED <<meant, draft>>

Next == \E i \in DOMAIN text, typed \in {<< >>} \cup {<<t>> : t \in Typos} : Slip(i, typed)
Spec == Init /\ [][Next]_vars

Reading == Parse(text)

-----------------------------------------------------------------------------
(* Properties. *)

RECURSIVE Nodes(_)
Nodes(t) == {t} \cup UNION {Nodes(t.c[i]) : i \in DOMAIN t.c}

\* What is written down by the table of precedences comes back as the tree
\* that was meant, in every layout; and whatever else is accepted comes back
\* from the text of its own tree.  (parser.go:840-1266: the levels of
\* operators, pipes that go on over line breaks, braces after a header.)
ReadsWhatWasMeant ==
  \A tree \in {Reading} :
    IF slips = 0 THEN tree = meant
    ELSE tree # Nil => \A lay \in {"flat", "lines"} : Parse(Written(tree, lay)) = tree

\* Nothing of an accepted file is passed over and nothing is read twice: its
\* names, literals, operators and keywords are those of the tree, in order.
\* (parser.go:50-96: tokens looked at in advance are kept for later.)
Silent == {"(", ")", "[", "]", "{", "}", ",", ";", ":", ".", NL, "_",
           "if", "elif", "else", "switch", "case", "default"}
Said(tokens) == SelectSeq(tokens, LAMBDA w : w \notin Silent)
EveryWordOnce ==
  \A tree \in {Reading} \ {Nil} : \E lay \in Layouts : Said(text) = Said(Written(tree, lay))

\* A declaration, an assignment or a jump is never part of a larger
\* expression: it stands in a block, or is the value of another one.
\* (parser.go:846-896; the generator could not produce a value for it.)
StatementsStandAlone ==
  \A tree \in {Reading} \ {Nil} : \A t \in Nodes(tree) :
    t.k \notin {"File", "Block"} =>
      \A i \in DOMAIN t.c : t.c[i].k \in Statements =>
        /\ t.k \in Statements \ {"ReturnExpr"}
        /\ i = Len(t.c)
===============================================================================
