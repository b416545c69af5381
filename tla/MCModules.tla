------------------------------ MODULE MCModules ------------------------------
(***************************************************************************)
(* Small instances of ModuleRuns: families of modules.                     *)
(***************************************************************************)
EXTENDS ModuleRuns, IRPrinter

Fn(x, ps, returns, stmts, nodes) ==
  [node |-> "fn", name |-> x, params |-> ps, returns |-> returns,
   stmts |-> stmts, nodes |-> nodes]
Global(x) == [node |-> "var", name |-> x]
Lit(text, kind, imm) == [text |-> text, kind |-> kind, imm |-> imm]
One  == Lit("1", "int", "int")
Yes  == Lit("true", "int", "bool")
Text == Lit("hello", "text", "string")
Half == Lit("0.5", "real", "float")

\* A family without operators, from which the ones below differ.
Plain == [module |-> <<>>, names |-> {"x"}, imports |-> {}, members |-> {},
          literals |-> {One}, binaries |-> {}, unaries |-> {}, assigns |-> {},
          callees |-> {}, lengths |-> {},
          forms |-> {"let", "expr", "return", "literal", "ident"}]

\* Every operator, once or twice in an expression.
Operators == [Plain EXCEPT !.module = <<Fn("f", <<"x">>, TRUE, 1, 4)>>,
  !.binaries = Binaries, !.unaries = {"-", "!", "~"}, !.assigns = Compounds \cup {"="},
  !.forms = {"return", "literal", "ident", "binary", "unary", "assign"}]

\* Order: calls, assignments and divisions among the operands of each other.
Order == [Plain EXCEPT !.module = <<Fn("g", <<"y", "x">>, TRUE, 1, 2), Fn("f", <<"x">>, TRUE, 2, 7)>>,
  !.binaries = {"/"}, !.assigns = {"=", "-"}, !.callees = {"g"},
  !.forms = {"expr", "return", "ident", "binary", "assign", "call"}]

\* Builtins, literals of every type, and the end of a function.
Acting == [Plain EXCEPT !.module = <<Fn("main", <<>>, TRUE, 3, 6)>>,
  !.literals = {One, Yes, Text, Half},
  !.callees = {"print", "println", "exit", "escape", "wait"},
  !.forms = @ \cup {"bare", "call"}]

\* Arrays and the placeholders.
Arrays == [Plain EXCEPT !.module = <<Fn("g", <<"x">>, TRUE, 1, 2), Fn("f", <<"x">>, TRUE, 2, 7)>>,
  !.unaries = {"*", "&"}, !.callees = {"g"}, !.lengths = {0, 1, 2}, !.members = {"m"},
  !.binaries = {"-"},
  !.forms = {"expr", "return", "ident", "binary", "unary", "call", "array", "index", "member", "cast"}]

\* Modules of several functions that call each other, or end at a global.
F == Fn("f", <<"g">>, TRUE, 2, 3)
G == Fn("g", <<>>, FALSE, 2, 4)
H == Fn("h", <<"x", "y">>, FALSE, 1, 4)
Calls(module) == [Plain EXCEPT !.module = module, !.imports = {"io"},
  !.callees = {"f", "g", "h", "print"},
  !.forms = {"let", "expr", "return", "ident", "literal", "symbol", "call"}]
Modules == {Operators, Order, Acting, Arrays}
             \cup {Calls(m) : m \in {<<F, G>>, <<G, H>>, <<G, Global("v")>>}}

\* The families above are ones that the theorems are about.
ASSUME Covered == Pools = Modules /\ Lang = {} => Supported

\* Families with which a property fails once Lang has the use that they are
\* about.
Small(x)    == Fn(x, <<>>, FALSE, 2, 5)
Gives(x)    == Fn(x, <<>>, TRUE, 1, 1)
Uses(module) == [Plain EXCEPT !.module = module, !.forms = @ \cup {"call", "symbol"},
                              !.imports = {"io"}, !.literals = {One, Text, Half},
                              !.callees = Builtins \cup {"f", "g", "printf", Indirect}]
Eager       == {[Uses(<<Gives("g"), Small("f")>>) EXCEPT !.binaries = {"&&"}, !.literals = {One},
                                                         !.forms = @ \cup {"binary"}]}
Pointers    == {[Uses(<<Small("f")>>) EXCEPT !.unaries = {"*", "&"},
                                             !.forms = @ \cup {"unary"}]}
Values      == {Uses(<<Small("f")>>)}
Forward     == {Uses(<<Small("f"), Gives("g")>>)}
CLibrary    == {Uses(<<Small("printf"), Small("f")>>)}
Imported    == {[Uses(<<Small("main")>>) EXCEPT !.members = {"m"}, !.literals = {One},
                                                !.forms = @ \cup {"member"}]}
Targets     == {[Uses(<<Small("f")>>) EXCEPT !.assigns = {"="}, !.forms = @ \cup {"assign"}]}
Casts       == {[Uses(<<Small("f")>>) EXCEPT !.callees = {"print"}, !.forms = @ \cup {"cast"}]}
Exits       == {[Uses(<<Small("f")>>) EXCEPT !.names = {"exit"}]}
Globals     == {Uses(<<Gives("f"), Global("v")>>)}
Empty       == {[p EXCEPT !.lengths = {0}, !.forms = @ \cup {"array"}] : p \in Pointers}
=============================================================================
