------------------------------ MODULE Packages ------------------------------
(***************************************************************************)
(* How the packages of one program are checked and compiled together:     *)
(* compileToIR (cmd/amifl/build.go) calls sema.CheckPackage on every       *)
(* package in dependency order, hands each its imports' Exports, and then  *)
(* codegen.GenerateProgram compiles every package into one output in which *)
(* names are kept apart by a prefix per package.                           *)
(*                                                                         *)
(* The package order, prefixes and import tables are what ModLoader's      *)
(* Load returns.  The model keeps the declarations (names and the types    *)
(* they mention) and leaves bodies out: instead of the references a body   *)
(* happens to contain, the properties range over every reference and every *)
(* comparison of types a body of the package could contain.                *)
(*                                                                         *)
(* A type is [list, qualified, name]: the canonical string name,           *)
(* "Qualified(name)", or either inside "List(...)".  List stands for the   *)
(* compound shapes, whose functions all recurse in the same way.           *)
(***************************************************************************)
EXTENDS Naturals, Sequences, FiniteSets, SequencesExt, Functions

CONSTANTS
  Order,       \* the packages, dependencies first; the root is the last
  Prefix,      \* package |-> its rename prefix; "" for the root
  Imports,     \* package |-> (alias |-> package)
  Declarations, \* the declarations tried: functions from packages to sets
  Capitalised, \* the declared names that begin with an upper-case letter
  Scalars,     \* the built-in scalar types
  Reserved     \* reservedExternAliases

Packages == Range(Order)

\* A package has as many declarations as its files hold, written with types.
Types(ts) == \A te \in Range(ts) : te.list \in BOOLEAN

WellFormed(S) ==
  /\ IsFiniteSet(S)
  /\ \A d \in S : IF d.kind = "extern" THEN IsFiniteSet(d.types) /\ \A b \in d.binds : Types(b.types)
                  ELSE Types(d.types)

\* A package comes once in the order, after its imports: what Load returns.
ASSUME PackagesAssumption ==
  /\ Order \in Seq(Packages) \ {<<>>} /\ IsInjective(Order)
  /\ \A p \in Packages : Prefix[p] = "" <=> p = Last(Order)
  /\ \A i \in DOMAIN Order : Range(Imports[Order[i]]) \subseteq {Order[j] : j \in 1..(i - 1)}
  /\ IsFiniteSet(Scalars) /\ \A D \in Declarations, p \in Packages : WellFormed(D[p])
  /\ "main" \notin Capitalised

VARIABLES
  decls,       \* package |-> its top-level declarations
  stage,       \* "check", "generate", "done" or "failed"
  pos,         \* the package of Order the current loop is at
  exports,     \* exportsByKey of compileToIR: package |-> Exports
  externMap,   \* extern alias |-> what it is bound to
  externTypes, \* program.externTypes: extern type name |-> Go type
  listTypes,   \* program.listTypes: key |-> number of the Go type minted
  resolved     \* ghost: every [package, type, means, go] generated so far

compileVars == <<decls, stage, pos, exports, externMap, externTypes, listTypes, resolved>>

Empty == [x \in {} |-> 0]

(***************************************************************************)
(* Declarations                                                            *)
(***************************************************************************)

\* types holds the type expressions of a declaration in order: the field of
\* a struct, the variant field of an enum, the parameters and then the result
\* of a function, the annotation of a constant.  A struct, an enum and an
\* extern block have their place in the source of the package, at.
OfKind(p, k) == {d \in decls[p] : d.kind = k}
StructsIn(p) == {d.name : d \in OfKind(p, "struct")}
EnumsIn(p)   == {d.name : d \in OfKind(p, "enum")}
Externs(p)   == OfKind(p, "extern")
ExternTypesIn(p) == UNION {x.types : x \in Externs(p)}

\* An extern block's binds are declared in the namespace of the functions.
Binds(p) == UNION {x.binds : x \in Externs(p)}

\* What is written with type expressions.
Typed(p) == (decls[p] \ Externs(p)) \cup Binds(p)

OnceEach(S) == \A x, y \in S : x.name = y.name => x = y

(***************************************************************************)
(* sema.CheckPackage                                                       *)
(***************************************************************************)

\* canonicalType: a scalar, or a type this package declares.
KnownHere(p) == Scalars \cup StructsIn(p) \cup EnumsIn(p) \cup ExternTypesIn(p)

\* The name that declaration n of package p has in the output.
GoName(p, n) == Prefix[p] \o n
FuncToken(p, n) == "!" \o GoName(p, n)

\* The exported struct and enum names an annotation `alias.Name` may use.
TypesExported(q) == DOMAIN exports[q].structs \cup DOMAIN exports[q].enums

Resolvable(p, te) ==
  IF te.alias = "" THEN te.name \in KnownHere(p)
  ELSE /\ te.alias \in DOMAIN Imports[p]
       /\ te.name \in TypesExported(Imports[p][te.alias])

\* Where `alias.Name` leads: the Go name the exporting package gave it.
ExportedGoName(q, n) == IF n \in DOMAIN exports[q].structs
                        THEN exports[q].structs[n].goName
                        ELSE exports[q].enums[n].goName

\* resolveTypeExpr, for an expression that resolves.
Resolve(p, te) ==
  [list |-> te.list,
   qualified |-> te.alias # "",
   name |-> IF te.alias = "" THEN te.name ELSE ExportedGoName(Imports[p][te.alias], te.name)]

ResolveAll(p, d) == [i \in DOMAIN d.types |-> Resolve(p, d.types[i])]

\* Pass 0a: aliases and type names.  Structs, enums and extern types share
\* one namespace; an alias may be neither reserved nor used twice.
TypeNamesAreFree(p) ==
  /\ \A x \in Externs(p) : x.name \notin Reserved /\ x.path # ""
  /\ OnceEach(Externs(p)) /\ OnceEach(OfKind(p, "struct") \cup OfKind(p, "enum"))
  /\ \A x, y \in Externs(p) : x # y => x.types \cap y.types = {}
  /\ ExternTypesIn(p) \cap (StructsIn(p) \cup EnumsIn(p)) = {}
  /\ "amifl_main" \notin ExternTypesIn(p) \cup StructsIn(p) \cup EnumsIn(p)

\* Constants and pass 1: functions, binds and constants share the other one.
ValueNamesAreFree(p) ==
  LET values == OfKind(p, "fn") \cup OfKind(p, "const") \cup Binds(p)
  IN OnceEach(values) /\ \A d \in values : d.name # "amifl_main"

\* requireConstExpr: a constant is a scalar literal or a struct literal.
ConstsAreConstant(p) ==
  \A d \in OfKind(p, "const") :
    LET te == d.types[1]
    IN /\ ~te.list
       /\ IF te.alias = "" THEN te.name \in Scalars \cup StructsIn(p)
          ELSE te.name \in DOMAIN exports[Imports[p][te.alias]].structs

\* registerExternBind: a method's first parameter is its receiver.
MethodsHaveReceivers(p) ==
  \A b \in Binds(p) : b.receiver = "" \/ /\ Len(b.types) > 1
                                         /\ Resolve(p, b.types[1]) = [list |-> FALSE, qualified |-> FALSE, name |-> b.receiver]

\* findAndValidateMain
HasMain(p) == \E d \in OfKind(p, "fn") :
  /\ d.name = "main"
  /\ ResolveAll(p, d) \in {<<[list |-> FALSE, qualified |-> FALSE, name |-> "Int"]>>,
                           <<[list |-> TRUE, qualified |-> FALSE, name |-> "String"],
                             [list |-> FALSE, qualified |-> FALSE, name |-> "Int"]>>}

Accepted(p) ==
  /\ TypeNamesAreFree(p)
  /\ \A d \in Typed(p) : \A te \in Range(d.types) : Resolvable(p, te)
  /\ ConstsAreConstant(p)
  /\ ValueNamesAreFree(p)
  /\ MethodsHaveReceivers(p)
  /\ Prefix[p] = "" => HasMain(p)

(***************************************************************************)
(* buildExports                                                            *)
(***************************************************************************)

\* A type as an importer must see it: this package's own structs and enums
\* get the envelope; scalars, extern types and what is already enveloped pass
\* through.
ExportTypeStringStructsOnly(p, t) ==
  IF ~t.qualified /\ t.name \in StructsIn(p)
  THEN [list |-> t.list, qualified |-> TRUE, name |-> GoName(p, t.name)]
  ELSE t

ExportTypeString(p, t) ==
  IF ~t.qualified /\ t.name \in StructsIn(p) \cup EnumsIn(p)
  THEN [list |-> t.list, qualified |-> TRUE, name |-> GoName(p, t.name)]
  ELSE t

ExportTypes(p, d) == [i \in DOMAIN d.types |-> ExportTypeString(p, Resolve(p, d.types[i]))]

ExternCallee(x, b) == "?" \o x.name \o "." \o b.target

Visible(S) == {d \in S : d.name \in Capitalised}

\* A method bind is left out: a qualified call has no receiver to give it.
ExportedBinds(p) == {b \in Visible(Binds(p)) : b.receiver = ""}

NamesOf(S) == {d.name : d \in S}
Named(S, n) == CHOOSE d \in S : d.name = n

BuildExports(p) ==
  LET fns    == Visible(OfKind(p, "fn"))
      consts == Visible(OfKind(p, "const"))
      structs == Visible(OfKind(p, "struct"))
      enums  == Visible(OfKind(p, "enum"))
      block(b) == CHOOSE x \in Externs(p) : b \in x.binds
      fn(d)   == [types |-> ExportTypes(p, d), token |-> FuncToken(p, d.name)]
      bind(b) == [types |-> ExportTypes(p, b), token |-> ExternCallee(block(b), b)]
      type(d) == [types |-> ExportTypes(p, d), goName |-> GoName(p, d.name)]
  IN [funcs   |-> [n \in NamesOf(fns) \cup NamesOf(ExportedBinds(p)) |->
                     IF n \in NamesOf(fns) THEN fn(Named(fns, n)) ELSE bind(Named(ExportedBinds(p), n))],
      \* value: the type written in the literal that importers will inline
      consts  |-> [n \in NamesOf(consts) |->
                     [types |-> ExportTypes(p, Named(consts, n)), value |-> ResolveAll(p, Named(consts, n))[1]]],
      structs |-> [n \in NamesOf(structs) |-> type(Named(structs, n))],
      enums   |-> [n \in NamesOf(enums) |-> type(Named(enums, n))]]

(***************************************************************************)
(* compileToIR's loop over the packages                                    *)
(***************************************************************************)

\* What an alias is bound to: a Go import path, or for a local path the
\* directory it names from this package's own directory.
ExternTargetAsWritten(p, x) == <<x.path>>

ExternTarget(p, x) == IF x.local THEN <<p, x.path>> ELSE <<x.path>>

ExternsAgree(p) ==
  \A x \in Externs(p) : x.name \in DOMAIN externMap => externMap[x.name] = ExternTarget(p, x)

BindAliases(p) ==
  [a \in DOMAIN externMap \cup NamesOf(Externs(p)) |->
     IF a \in NamesOf(Externs(p)) THEN ExternTarget(p, Named(Externs(p), a)) ELSE externMap[a]]

NoExports == [funcs |-> Empty, consts |-> Empty, structs |-> Empty, enums |-> Empty]

CompileInit ==
  /\ decls \in Declarations
  /\ stage = "check" /\ pos = 1
  /\ exports = [p \in Packages |-> NoExports]
  /\ externMap = Empty /\ externTypes = Empty
  /\ listTypes = Empty /\ resolved = {}

CheckPackage ==
  LET p == Order[pos]
  IN /\ stage = "check"
     /\ Accepted(p) /\ ExternsAgree(p)
     /\ exports' = [exports EXCEPT ![p] = BuildExports(p)]
     /\ externMap' = BindAliases(p)
     /\ IF pos < Len(Order) THEN pos' = pos + 1 /\ stage' = stage
        ELSE pos' = 1 /\ stage' = "generate"
     /\ UNCHANGED <<decls, externTypes, listTypes, resolved>>

RefusePackage ==
  /\ stage = "check"
  /\ ~(Accepted(Order[pos]) /\ ExternsAgree(Order[pos]))
  /\ stage' = "failed"
  /\ UNCHANGED <<decls, pos, exports, externMap, externTypes, listTypes, resolved>>

(***************************************************************************)
(* What the source says, for comparison                                    *)
(***************************************************************************)

\* The Go package an extern block of package p names.
GoPackage(p, x) == IF x.local THEN <<p, x.path>> ELSE <<x.path>>

\* What a type expression of package p names: a declaration of a package, or
\* the type of a Go package, the same one whichever block names it.
Meaning(p, te) ==
  IF te.alias # "" THEN <<Imports[p][te.alias], te.name>>
  ELSE IF te.name \in Scalars THEN <<te.name>>
  ELSE IF te.name \in ExternTypesIn(p)
  THEN <<"extern", GoPackage(p, CHOOSE x \in Externs(p) : te.name \in x.types), te.name>>
  ELSE <<p, te.name>>

Means(p, te) == [list |-> te.list, declaration |-> Meaning(p, te)]

AnyExternType == UNION {UNION {{<<"extern", GoPackage(p, x), n>> : n \in x.types} : x \in Externs(p)} : p \in Packages}

\* Every type the checker holds while it checks package p, with what it means:
\* those of p's own declarations, and those of everything p can import.
OwnTypes(p) ==
  {[type |-> Resolve(p, te), means |-> Means(p, te)] :
     te \in UNION {Range(d.types) : d \in Typed(p)}}

Imported(q, table, S) ==
  UNION {{[type |-> exports[q][table][d.name].types[i], means |-> Means(q, d.types[i])] : i \in DOMAIN d.types} : d \in S}

ImportedTypes(p) ==
  UNION {Imported(q, "funcs", Visible(OfKind(q, "fn")) \cup ExportedBinds(q))
         \cup Imported(q, "consts", Visible(OfKind(q, "const")))
         \cup Imported(q, "structs", Visible(OfKind(q, "struct")))
         \cup Imported(q, "enums", Visible(OfKind(q, "enum"))) : q \in Range(Imports[p])}

HeldTypes(p) == OwnTypes(p) \cup ImportedTypes(p)

\* Inlined(p): the struct literals a constant reference `alias.NAME` copies
\* from the exporting package into the code of p.
Inlined(p) ==
  UNION {{[type |-> exports[q].consts[d.name].value, means |-> Means(q, d.types[1])] :
            d \in Visible(OfKind(q, "const"))} : q \in Range(Imports[p])}

(***************************************************************************)
(* codegen.GenerateProgram's loop over the units                           *)
(***************************************************************************)

ScalarGoType(n) == "go " \o n
ExternGoType(x, n) == x.name \o "." \o n

\* The extern types of p are entered before any body of p is generated.
ExternGoTypes(p) ==
  [n \in DOMAIN externTypes \cup ExternTypesIn(p) |->
     IF n \in ExternTypesIn(p) THEN ExternGoType(CHOOSE x \in Externs(p) : n \in x.types, n)
     ELSE externTypes[n]]

ExternTypesAgree(p) == \A n \in DOMAIN externTypes : ExternGoTypes(p)[n] = externTypes[n]

\* But structs, enums and extern blocks are gone through in their order: those
\* that are entered when the fields of struct or enum d get their Go types.
EnteredAt(p, d) ==
  [n \in DOMAIN externTypes \cup UNION {x.types : x \in {y \in Externs(p) : y.at < d.at}} |-> ExternGoTypes(p)[n]]

\* resolveGoType of a type that is not a shape, in the unit of p.
BaseGoType(p, entered, t) ==
  IF t.qualified THEN t.name
  ELSE IF t.name \in DOMAIN entered THEN entered[t.name]
  ELSE IF t.name \in Scalars THEN ScalarGoType(t.name)
  ELSE GoName(p, t.name)

\* listGoTypeName looks its cache up by the element's Go type.
ListKeyCanonical(p, entered, t) == <<t.qualified, t.name>>

ListKey(p, entered, t) == <<BaseGoType(p, entered, t)>>

\* A key met for the first time gets the next number.
MintLists(keys) ==
  LET minted == Cardinality(DOMAIN listTypes)
      new == SetToSeq(keys \ DOMAIN listTypes)
  IN [k \in DOMAIN listTypes \cup Range(new) |->
        IF k \in DOMAIN listTypes THEN listTypes[k] ELSE minted + CHOOSE i \in DOMAIN new : new[i] = k]

\* The types generated for, with the extern types entered by then: those of
\* the fields, and all that a body can hold.
Uses(entered, S) == {[entered |-> entered, type |-> u.type, means |-> u.means] : u \in S}

FieldTypes(p, d) == {[type |-> Resolve(p, te), means |-> Means(p, te)] : te \in Range(d.types)}

Generated(p) ==
  Uses(ExternGoTypes(p), HeldTypes(p))
  \cup UNION {Uses(EnteredAt(p, d), FieldTypes(p, d)) : d \in OfKind(p, "struct") \cup OfKind(p, "enum")}

GenerateUnit ==
  LET p == Order[pos]
      key(u) == ListKey(p, u.entered, u.type)
      lists == MintLists({key(u) : u \in {v \in Generated(p) : v.type.list}})
      go(u) == IF u.type.list THEN <<"AmiflList", lists[key(u)]>> ELSE <<BaseGoType(p, u.entered, u.type)>>
  IN /\ stage = "generate"
     /\ ExternTypesAgree(p)
     /\ externTypes' = ExternGoTypes(p)
     /\ listTypes' = lists
     /\ resolved' = resolved \cup {[package |-> p, type |-> u.type, means |-> u.means, go |-> go(u)] :
                                     u \in Generated(p) \cup Uses(ExternGoTypes(p), Inlined(p))}
     /\ IF pos < Len(Order) THEN pos' = pos + 1 /\ stage' = stage
        ELSE pos' = pos /\ stage' = "done"
     /\ UNCHANGED <<decls, exports, externMap>>

RefuseUnit ==
  /\ stage = "generate"
  /\ ~ExternTypesAgree(Order[pos])
  /\ stage' = "failed"
  /\ UNCHANGED <<decls, pos, exports, externMap, externTypes, listTypes, resolved>>

CompileNext == CheckPackage \/ RefusePackage \/ GenerateUnit \/ RefuseUnit

CompileSpec == CompileInit /\ [][CompileNext]_compileVars

\* genFuncDecl: the name a function of p has in the output.
FuncNameMain(p, d) == IF d.name = "main" THEN "!amifl_main" ELSE FuncToken(p, d.name)

FuncName(p, d) == IF Prefix[p] = "" /\ d.name = "main" THEN "!amifl_main"
                  ELSE FuncToken(p, d.name)

(***************************************************************************)
(* Names of the output that are apart.  A name is put together by          *)
(* concatenation, and nothing in the code keeps alias "a" and struct "B_C" *)
(* from giving the name of alias "a_B" and struct "C": these are           *)
(* conditions on the declarations of the program.                          *)
(***************************************************************************)

IsType(d) == d.kind \in {"struct", "enum"}

\* Two declared types never get one name, and none is named like a scalar.
TypeNamesApart ==
  \A D \in Declarations, p, q \in Packages : \A d \in D[p], e \in D[q] :
    IsType(d) /\ IsType(e) =>
      /\ d.name \notin Scalars
      /\ GoName(p, d.name) = GoName(q, e.name) => p = q /\ d.name = e.name

\* Two functions never get one name, and none that of the entry, which the
\* checker refuses in the root: with a prefix only the function main of a
\* package imported as amifl gets it.
FunctionNamesApart ==
  /\ \A D \in Declarations, p, q \in Packages : \A d \in D[p], e \in D[q] :
       d.kind = "fn" /\ e.kind = "fn" =>
         (FuncToken(p, d.name) = FuncToken(q, e.name) => p = q /\ d.name = e.name)
  /\ \A D \in Declarations, p \in Packages : \A d \in D[p] :
       d.kind = "fn" /\ FuncToken(p, d.name) = "!amifl_main" => Prefix[p] = "" /\ d.name = "amifl_main"

\* Scalars, declared types and the types of Go packages never get one Go type,
\* and "alias.Type" can be taken apart; no extern type is named like a scalar.
GoTypesApart ==
  /\ TypeNamesApart
  /\ \A m, n \in Scalars : ScalarGoType(m) = ScalarGoType(n) => m = n
  /\ \A D \in Declarations, p \in Packages : \A d \in D[p] :
       IsType(d) => \A s \in Scalars : GoName(p, d.name) # ScalarGoType(s)
  /\ \A D \in Declarations, p, q \in Packages : \A x \in {d \in D[p] : d.kind = "extern"} :
       \A n \in x.types :
         /\ n \notin Scalars
         /\ \A s \in Scalars : ExternGoType(x, n) # ScalarGoType(s)
         /\ \A d \in {e \in D[q] : IsType(e)} : ExternGoType(x, n) # GoName(q, d.name)
         /\ \A y \in {d \in D[q] : d.kind = "extern"} : \A m \in y.types :
              ExternGoType(x, n) = ExternGoType(y, m) => x.name = y.name /\ n = m

(***************************************************************************)
(* Properties                                                              *)
(***************************************************************************)

CheckedBefore(i) == IF stage = "check" THEN i < pos ELSE stage # "failed"

\* Two struct or enum types that meet in the checker of one package, wherever
\* each comes from (its own annotation, an import, an import's import), are
\* the same canonical string exactly when they are the same declaration
\* (makeQualifiedType, exportTypeString).
TypesMeanOneDeclaration ==
  \A i \in DOMAIN Order : CheckedBefore(i) =>
    \A x, y \in {u \in HeldTypes(Order[i]) : u.means.declaration \notin AnyExternType} :
      x.type = y.type <=> x.means = y.means

\* In a generated program every function has a name of its own, and the token
\* a qualified call carries is the name of the function it names
\* (ExportedFunc.Token, genFuncDecl); only the root's main is the entry.
CallsReachTheirFunction ==
  stage = "done" =>
    LET fns == UNION {{p} \X OfKind(p, "fn") : p \in Packages}
    IN /\ \A f, g \in fns : FuncName(f[1], f[2]) = FuncName(g[1], g[2]) => f = g
       /\ \A f \in fns : f[2].name \in Capitalised =>
            exports[f[1]].funcs[f[2].name].token = FuncName(f[1], f[2])
       /\ Cardinality({f \in fns : FuncName(f[1], f[2]) = "!amifl_main"}) = 1

\* The extern types of the whole program and its structs and enums have
\* different names.  The code does not see to this across packages.
ExternTypesApart ==
  \A p, q \in Packages : ExternTypesIn(p) \cap (StructsIn(q) \cup EnumsIn(q)) = {}

\* Every extern block precedes the fields that have its types.  Nothing in the
\* language asks for that.
ExternTypesFirst ==
  \A p \in Packages : \A d \in OfKind(p, "struct") \cup OfKind(p, "enum") :
    \A te \in Range(d.types) : \A x \in Externs(p) :
      te.alias = "" /\ te.name \in x.types => x.at < d.at

\* A list of structs that crosses a package boundary has one Go type on both
\* sides, and lists of different structs never share one, although both
\* packages may write them List[P] (the caches listTypes ... funcTypes) --
\* provided no extern type goes by the name of a struct of another package,
\* and none is the type of a field that precedes its block.
ListsShareOneGoType ==
  ExternTypesApart /\ ExternTypesFirst =>
    \A r, s \in {x \in resolved : x.means.list} : r.go = s.go <=> r.means = s.means

\* An extern alias is one name in the whole output: whatever package it is
\* declared in, it is bound to what that package's declaration says
\* (externMap of compileToIR).
ExternAliasesMeanOnePackage ==
  \A i \in DOMAIN Order : CheckedBefore(i) =>
    \A x \in Externs(Order[i]) : externMap[x.name] = GoPackage(Order[i], x)

\* "Generate populates this once, up front, from every ast.ExternDecl in the
\* file" (program.externTypes): an extern type gets its Go type everywhere.
ExternTypesAreKnown ==
  \A r \in resolved :
    ~r.means.list /\ r.means.declaration \in AnyExternType => r.go = <<externTypes[r.means.declaration[3]]>>

\* "a bare struct/enum type name ... can only ever refer to a declaration in
\* the *same* package" (program.pkgPrefix): the Go type generated for a struct
\* is the one generated for its declaration.
BareNamesMeanThisPackage ==
  \A r \in resolved :
    (~r.means.list /\ r.means.declaration[1] \in Packages /\ r.means.declaration \notin AnyExternType)
      => r.go = <<GoName(r.means.declaration[1], r.means.declaration[2])>>
=============================================================================
