-------------------------------- MODULE Syntax --------------------------------
(***************************************************************************)
(* The syntax tree of internal/ast as the parser builds it: one operator   *)
(* per node type, with the fields the parser fills in.  Lines, and the     *)
(* fields the checker adds later, are left out.  All nodes have one shape, *)
(* so that trees can be compared and walked: kind, text, numbers, names    *)
(* and children.                                                           *)
(***************************************************************************)
EXTENDS Integers, Sequences

Shape(k, v, n, s, c) == [k |-> k, v |-> v, n |-> n, s |-> s, c |-> c]
Tree(k, v, c) == Shape(k, v, << >>, << >>, c)

\* A nil pointer, and the list of names of a node that has them.
Nil == Tree("Nil", "", << >>)

\* Types.
NamedType(name)        == Tree("NamedType", name, << >>)
QualifiedType(q, name) == Shape("QualifiedType", name, << >>, <<q>>, << >>)
ListType(elem)         == Tree("List", "", <<elem>>)
SetType(elem)          == Tree("Set", "", <<elem>>)
ChanType(elem)         == Tree("Chan", "", <<elem>>)
StreamType(elem)       == Tree("Stream", "", <<elem>>)
ArrayType(elem, size)  == Tree("Array", "", <<elem, size>>)
MapType(key, value)    == Tree("Map", "", <<key, value>>)
TupleType(elems)       == Tree("Tuple", "", elems)
FuncType(params, ret)  == Tree("FuncType", "", <<ret>> \o params)

\* Declarations.
File(decls)            == Tree("File", "", decls)
Param(name, type)      == Tree("Param", name, <<type>>)
FuncDecl(name, params, ret, body) == Tree("FuncDecl", name, <<ret, body>> \o params)
StructDecl(name, fields)    == Tree("StructDecl", name, fields)
EnumDecl(name, variants)    == Tree("EnumDecl", name, variants)
EnumVariant(name, fields)   == Tree("EnumVariant", name, fields)
ExternDecl(path, alias, types, binds) ==
  Shape("ExternDecl", path, <<Len(types)>>, <<alias>>, types \o binds)
ExternTypeDecl(name)        == Tree("ExternTypeDecl", name, << >>)
ExternBindDecl(name, target, params, ret) ==
  Shape("ExternBindDecl", name, << >>, target, <<ret>> \o params)
ImportDecl(alias, path)     == Shape("ImportDecl", path, << >>, <<alias>>, << >>)
ConstDecl(name, type, value) == Tree("ConstDecl", name, <<type, value>>)

\* Expressions in statement position.
Block(exprs)                == Tree("Block", "", exprs)
LetExpr(name, type, value)  == Tree("LetExpr", name, <<type, value>>)
LetTupleExpr(names, value)  == Shape("LetTupleExpr", "", << >>, names, <<value>>)
AssignExpr(name, value)     == Tree("AssignExpr", name, <<value>>)
IndexAssignExpr(target, index, value) == Tree("IndexAssignExpr", "", <<target, index, value>>)
FieldAssignExpr(target, field, value) == Tree("FieldAssignExpr", field, <<target, value>>)
DiscardExpr(value)          == Tree("DiscardExpr", "", <<value>>)
BreakExpr                   == Tree("BreakExpr", "", << >>)
ContinueExpr                == Tree("ContinueExpr", "", << >>)
ReturnExpr(value)           == Tree("ReturnExpr", "", <<value>>)

\* Values.
IntLit(text)                == Tree("IntLit", text, << >>)
FloatLit(text)              == Tree("FloatLit", text, << >>)
StringLit(text)             == Tree("StringLit", text, << >>)
BoolLit(text)               == Tree("BoolLit", text, << >>)
IdentExpr(name)             == Tree("IdentExpr", name, << >>)
UnaryExpr(op, operand)      == Tree("UnaryExpr", op, <<operand>>)
BinaryExpr(op, left, right) == Tree("BinaryExpr", op, <<left, right>>)
RangeExpr(op, from, to)     == Tree("RangeExpr", op, <<from, to>>)
TupleLit(elems)             == Tree("TupleLit", "", elems)
ListLit(elems)              == Tree("ListLit", "", elems)
MapLitEntry(key, value)     == Tree("MapLitEntry", "", <<key, value>>)
SetOrMapLit(items)          == Tree("SetOrMapLit", "", items)
StructLitField(name, value) == Tree("StructLitField", name, <<value>>)
StructLit(q, name, fields)  == Shape("StructLit", name, << >>, q, fields)
ClosureLit(params, ret, body) == Tree("ClosureLit", "", <<ret, body>> \o params)
IndexExpr(target, index)    == Tree("IndexExpr", "", <<target, index>>)
SliceExpr(target, from, to) == Tree("SliceExpr", "", <<target, from, to>>)
TryExpr(value)              == Tree("TryExpr", "", <<value>>)

\* A field, or with a list of arguments (which may be empty) a variant or a
\* call into a package: n tells `x.f()` from `x.f`.
FieldExpr(target, field)       == Tree("FieldExpr", field, <<target>>)
FieldCall(target, field, args) == Shape("FieldExpr", field, <<1>>, << >>, <<target>> \o args)

\* A call.  n is the stage of a pipe and the index of the argument that came
\* through it, s the labels of that pipe; the first two children are the type
\* argument and the inline closure.
CallExpr(callee, typeArg, args) ==
  Shape("CallExpr", callee, <<0, 0>>, << >>, <<typeArg, Nil>> \o args)

\* Control flow.
IfExpr(cond, then, else)      == Tree("IfExpr", "", <<cond, then, else>>)
WhileExpr(cond, body)         == Tree("WhileExpr", "", <<cond, body>>)
ForExpr(vars, items, body)    == Shape("ForExpr", "", << >>, vars, <<items, body>>)
ForYield(var, items, value)   == Shape("ForYield", "", << >>, <<var>>, <<items, value>>)
SwitchCase(enum, variant, bindings, body) ==
  Shape("SwitchCase", "", << >>, <<enum, variant>> \o bindings, <<body>>)
SwitchExpr(subject, cases, default) ==
  Tree("SwitchExpr", "", <<subject, default>> \o cases)
===============================================================================
