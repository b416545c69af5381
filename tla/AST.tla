-------------------------------- MODULE AST --------------------------------
(***************************************************************************)
(* The classes of the syntax tree (include/vcc/ast) and the children that  *)
(* a node of each owns, as the parser fills them in.  A slot holds from    *)
(* least to most nodes of a kind; MaxMany bounds the slots that are        *)
(* vectors.  Names, operators and literals are left out.                   *)
(***************************************************************************)
EXTENDS Integers, SequencesExt

CONSTANT MaxMany

ASSUME ASTBounds == MaxMany \in Nat \ {0}

One(k)  == [kind |-> k, least |-> 1, most |-> 1]
Opt(k)  == [kind |-> k, least |-> 0, most |-> 1]
Many(k) == [kind |-> k, least |-> 0, most |-> MaxMany]
None    == [slot \in {} |-> One("")]

(***************************************************************************)
(* Declarations.h.  A null type of a function is the unit, a null type of  *)
(* a variable is inferred.                                                 *)
(***************************************************************************)
Declarations ==
  [ModuleDecl      |-> [decls |-> Many("top")],
   ImportDecl      |-> None,
   FunctionDecl    |-> [params |-> Many("param"), returnType |-> Opt("type"),
                        body |-> One("block")],
   ParameterDecl   |-> [type |-> One("type")],
   VarDecl         |-> [type |-> Opt("type"), initializer |-> Opt("expr")],
   StructDecl      |-> [fields |-> Many("field")],
   FieldDecl       |-> [type |-> One("type")],
   EnumDecl        |-> [variants |-> Many("variant")],
   EnumVariantDecl |-> [fields |-> Many("type")],
   TypeAliasDecl   |-> [aliased |-> One("type")]]

\* Statements.h.
Statements ==
  [BlockStmt    |-> [stmts |-> Many("stmt")],
   ExprStmt     |-> [expr |-> One("expr")],
   ReturnStmt   |-> [value |-> Opt("expr")],
   IfStmt       |-> [condition |-> One("expr"), thenBranch |-> One("stmt"),
                     elseBranch |-> Opt("stmt")],
   WhileStmt    |-> [condition |-> One("expr"), body |-> One("block")],
   VloopStmt    |-> [condition |-> One("expr"), body |-> One("block")],
   ForStmt      |-> [iterable |-> One("expr"), body |-> One("block")],
   BreakStmt    |-> None,
   ContinueStmt |-> None,
   MatchStmt    |-> [subject |-> One("expr"), arms |-> Many("arm")]]

\* Expressions.h.
Expressions ==
  [BinaryExpr       |-> [lhs |-> One("expr"), rhs |-> One("expr")],
   UnaryExpr        |-> [operand |-> One("expr")],
   AssignExpr       |-> [target |-> One("expr"), value |-> One("expr")],
   CallExpr         |-> [callee |-> One("expr"), args |-> Many("expr")],
   IndexExpr        |-> [base |-> One("expr"), index |-> One("expr")],
   MemberExpr       |-> [object |-> One("expr")],
   CastExpr         |-> [expr |-> One("expr"), targetType |-> One("type")],
   IdentExpr        |-> None,
   LiteralExpr      |-> None,
   ArrayLiteralExpr |-> [elements |-> Many("expr")]]

\* Types.h.
Types ==
  [NamedTypeNode    |-> None,
   PointerTypeNode  |-> [inner |-> One("type")],
   SliceTypeNode    |-> [element |-> One("type")],
   ArrayTypeNode    |-> [element |-> One("type"), size |-> One("expr")],
   FunctionTypeNode |-> [params |-> Many("type"), returnType |-> Opt("type")]]

Classes == DOMAIN Declarations \cup DOMAIN Statements
             \cup DOMAIN Expressions \cup DOMAIN Types

SlotsOf(c) ==
  CASE c \in DOMAIN Declarations -> Declarations[c]
    [] c \in DOMAIN Statements   -> Statements[c]
    [] c \in DOMAIN Expressions  -> Expressions[c]
    [] c \in DOMAIN Types        -> Types[c]

\* The classes whose nodes a slot of a kind may hold.  A DeclStmt passes every
\* visitor on to the variable declaration that it wraps.
DeclStmt == {"VarDecl"}
ClassesOf(kind) ==
  CASE kind = "top"     -> {"ImportDecl", "FunctionDecl", "VarDecl", "StructDecl",
                            "EnumDecl", "TypeAliasDecl"}
    [] kind = "param"   -> {"ParameterDecl"}
    [] kind = "field"   -> {"FieldDecl"}
    [] kind = "variant" -> {"EnumVariantDecl"}
    [] kind = "block"   -> {"BlockStmt"}
    [] kind = "stmt"    -> DOMAIN Statements \cup DeclStmt
    [] kind = "expr"    -> DOMAIN Expressions
    [] kind = "type"    -> DOMAIN Types

\* An arm of a match is no node: it owns a pattern, null for the wildcard, and
\* a body.
MatchArm == {<<"expr", "stmt">>, <<"stmt">>}

\* The ways to fill a slot, and a node's slots: the kinds of the nodes in each.
Fill(slot) ==
  LET item == IF slot.kind = "arm" THEN MatchArm ELSE {<<slot.kind>>}
  IN  {FlattenSeq(items) : items \in UNION {[1..n -> item] : n \in slot.least..slot.most}}
Contents(c) ==
  LET slots == SlotsOf(c)
  IN  {f \in [DOMAIN slots -> UNION {Fill(slots[s]) : s \in DOMAIN slots}] :
         \A s \in DOMAIN slots : f[s] \in Fill(slots[s])}

\* The fewest nodes that a node of a kind is made of.
LeastNodes(kind) == IF kind \in {"param", "field"} THEN 2 ELSE 1
=============================================================================
