----------------------------- MODULE MCPackages -----------------------------
(***************************************************************************)
(* Three packages: the root imports a and b, a imports b under an alias of *)
(* its own.  Every package draws at most two declarations from a menu in   *)
(* which the three use the same names; the root has its main as well.      *)
(***************************************************************************)
EXTENDS Packages

MCOrder == <<"b", "a", "root">>
MCPrefix == [root |-> "", a |-> "a_", b |-> "b_"]
MCImports == [root |-> [a |-> "a", b |-> "b"], a |-> [bee |-> "b"], b |-> [x \in {} |-> "b"]]
MCCapitalised == {"P", "F", "C", "G"}
MCScalars == {"Int", "String"}
MCReserved == {"os"}

Own(n) == [list |-> FALSE, alias |-> "", name |-> n]
ListOf(te) == [te EXCEPT !.list = TRUE]
From(al, n) == [list |-> FALSE, alias |-> al, name |-> n]

StructAt(k, n, te) == [kind |-> "struct", name |-> n, types |-> <<te>>, at |-> k]
Struct(n, te) == StructAt(3, n, te)
Enum(n, te) == [kind |-> "enum", name |-> n, types |-> <<te>>, at |-> 4]
Fn(n, te) == [kind |-> "fn", name |-> n, types |-> <<te, Own("Int")>>]
Const(n, te) == [kind |-> "const", name |-> n, types |-> <<te>>]
Extern(al, path, local, ts, bs) ==
  [kind |-> "extern", name |-> al, path |-> path, local |-> local, types |-> ts, binds |-> bs,
   at |-> 2]
Bind(n, te, recv) == [name |-> n, types |-> <<te, Own("Int")>>, target |-> n, receiver |-> recv]

Common == {Struct("P", Own("Int")), Enum("P", Own("Int")), Fn("F", ListOf(Own("P"))),
           Extern("x", "x", FALSE, {"T"}, {Bind("G", ListOf(Own("T")), "")}),
           Extern("x", "./x", TRUE, {"P"}, {Bind("G", Own("P"), "P")})}

Menu == [b    |-> Common \cup {Const("C", Own("P")), Fn("main", Own("P")),
                               Struct("S", ListOf(Own("T"))), StructAt(1, "S", Own("T"))},
         a    |-> Common \cup {Fn("F", From("bee", "P")), Struct("P", ListOf(From("bee", "P"))),
                               Const("C", From("bee", "P")), Fn("main", Own("Int"))},
         root |-> Common \cup {Fn("f", ListOf(From("a", "P"))), Fn("f", ListOf(From("b", "P"))),
                               Extern("os", "y", FALSE, {"P"}, {}), Extern("y", "y", FALSE, {"P"}, {})}]

Main == [kind |-> "fn", name |-> "main", types |-> <<Own("Int")>>]
Upto(n, S) == {T \in SUBSET S : Cardinality(T) <= n}

MCDeclarations ==
  {[b |-> B, a |-> A, root |-> R \cup {Main}] :
     B \in Upto(2, Menu.b), A \in Upto(2, Menu.a), R \in Upto(2, Menu.root)}

\* The theorems about Packages are about declarations like these.
ASSUME NamesApart == TypeNamesApart /\ FunctionNamesApart /\ GoTypesApart
=============================================================================
