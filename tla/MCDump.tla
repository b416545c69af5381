------------------------------- MODULE MCDump -------------------------------
(***************************************************************************)
(* Instances of ASTDump: the declarations, the statements, the expressions *)
(* and the types, each with a leaf for every kind that they need.          *)
(***************************************************************************)
EXTENDS ASTDump

Leaves == {"ModuleDecl", "ImportDecl", "NamedTypeNode", "IdentExpr", "BreakStmt"}
Declared  == DOMAIN Declarations \cup DOMAIN Types \cup {"BlockStmt"}
Executed  == DOMAIN Statements \cup {"FunctionDecl", "VarDecl"}
Evaluated == DOMAIN Expressions \cup {"VarDecl"}

AllFamilies == {Leaves \cup Declared, Leaves \cup Executed, Leaves \cup Evaluated}
Shapes == {"FunctionTypeNode", "TypeAliasDecl"}
FunctionTypes == {Leaves \cup Shapes}
=============================================================================
