------------------------------ MODULE Grammar -------------------------------
(***************************************************************************)
(* The language's grammar as the documents give it (docs/grammar.md, with  *)
(* the precedence table of Parser.h and the statements of                  *)
(* docs/V_LANGUAGE_V01_PLAN.md), independently of the parser: the          *)
(* productions of each nonterminal.  A leftmost derivation with them       *)
(* yields a source and, where a production ends in a node, its tree.       *)
(*                                                                         *)
(* Every production that makes a derivation longer costs 1, so that a      *)
(* budget bounds it; words are the tokens that it may use.  Lang names the *)
(* freedoms that a configuration allows:                                   *)
(*   suffixed    a unary operator before an operand with a suffix          *)
(*   parencond   a condition that begins with a parenthesis                *)
(*   anytarget   an assignment to any logical_or_expr                      *)
(*   untyped     a parameter without a type                                *)
(*   anyexpr     any expression as a statement, on a line of its own       *)
(***************************************************************************)
EXTENDS Integers, Sequences

CONSTANT Lang

T(t)          == [is |-> "token", sym |-> t, level |-> 0, from |-> 0]
N(s)          == [is |-> "rule",  sym |-> s, level |-> 0, from |-> 0]
E(level)      == [is |-> "rule",  sym |-> "binary", level |-> level, from |-> 0]
B(kind, from) == [is |-> "node",  sym |-> kind, level |-> 0, from |-> from]

\* Parser.h's table, loosest operators first.
Table == << {"||"}, {"&&"}, {"|"}, {"^"}, {"&"}, {"=="}, {"<"}, {"<<"}, {"+", "-"},
            {"*", "/"} >>
Levels == DOMAIN Table

Free(items)  == [cost |-> 0, items |-> items]
Costs(items) == [cost |-> 1, items |-> items]
When(freedom, S) == IF freedom \in Lang THEN S ELSE {}

(***************************************************************************)
(* The productions of a rule whose first token is the one at position at.  *)
(***************************************************************************)
ExpressionRules(r, at) ==
  CASE r.sym = "expression" ->
         {Free(<<E(1)>>), Costs(<<N("postfix"), T("="), N("expression"), B("Assign", at)>>)}
         \cup When("anytarget",
                {Costs(<<E(1), T("="), N("expression"), B("Assign", at)>>)})
    [] r.sym = "binary" ->
         {Free(<<N("unary")>>)}
         \cup UNION {{Costs(<<E(l), T(op), E(l + 1), B("Binary", at)>>) : op \in Table[l]}
                      : l \in {k \in Levels : k >= r.level}}
    [] r.sym = "unary" ->
         {Free(<<N("postfix")>>)}
         \cup {Costs(<<T(op), N("operand"), B("Unary", at)>>) : op \in {"-", "!"}}
    [] r.sym = "operand" ->
         {Free(<<N("primary")>>)}
         \cup {Costs(<<T(op), N("operand"), B("Unary", at)>>) : op \in {"-", "!"}}
         \cup When("suffixed", {Free(<<N("postfix")>>)})
    [] r.sym = "postfix" ->
         {Free(<<N("primary")>>),
          Costs(<<N("postfix"), T("("), N("args"), T(")"), B("Call", at)>>),
          Costs(<<N("postfix"), T("["), N("expression"), T("]"), B("Index", at)>>),
          Costs(<<N("postfix"), T("."), T("id"), B("Member", at)>>),
          Costs(<<N("postfix"), T("as"), N("type"), B("Cast", at)>>)}
    [] r.sym = "primary" ->
         {Free(<<T("id")>>), Free(<<T("int")>>),
          Costs(<<T("("), N("expression"), T(")")>>),
          Costs(<<T("array"), T("["), N("args"), T("]"), B("Array", at)>>)}
    [] r.sym = "args" ->
         {Free(<<>>), Costs(<<N("expression")>>),
          Costs(<<N("expression"), T(","), N("expression")>>)}

TypeRules(r, at) ==
  CASE r.sym = "type" ->
         {Free(<<T("id")>>), Costs(<<T("id"), T("::"), T("id")>>),
          Costs(<<T("*"), N("type")>>), Costs(<<T("*"), T("mut"), N("type")>>),
          Costs(<<T("["), N("type"), T("]")>>),
          Costs(<<T("["), N("type"), T(";"), N("expression"), T("]")>>),
          Costs(<<T("fn"), T("("), N("types"), T(")"), N("result")>>)}
    [] r.sym = "types"  -> {Free(<<>>), Costs(<<N("type")>>),
                            Costs(<<N("type"), T(","), N("type")>>)}
    [] r.sym = "result" -> {Free(<<>>), Costs(<<T("->"), N("type")>>)}

VarDecl(at) ==
  {Free(<<T("let"), T("id"), T(":"), N("type"), B("Let", at)>>),
   Free(<<T("let"), T("id"), T("="), N("expression"), B("Let", at)>>),
   Costs(<<T("let"), T("id"), T(":"), N("type"), T("="), N("expression"), B("Let", at)>>)}

DeclRules(r, at) ==
  CASE r.sym = "program" -> {Costs(<<N("decl"), N("program")>>), Free(<<>>)}
    [] r.sym = "module"  -> {Free(<<T("module"), T("main"), N("program")>>)}
    [] r.sym = "decl" ->
         VarDecl(at)
         \cup {Free(<<T("fn"), N("function"), B("Fn", at + 1)>>),
               Costs(<<T("pub"), T("fn"), N("function"), B("Fn", at + 2)>>),
               Free(<<T("import"), T("id"), N("path"), N("alias"), B("Import", at + 1)>>),
               Free(<<T("struct"), T("id"), T("{"), N("fields"), T("}"),
                      B("Struct", at + 1)>>),
               Free(<<T("enum"), T("id"), T("{"), N("variants"), T("}"),
                      B("Enum", at + 1)>>),
               Free(<<T("type"), T("id"), T("="), N("type"), B("Type", at + 1)>>)}
    [] r.sym = "function" ->
         {Free(<<T(name), T("("), N("params"), T(")"), N("result"), N("block")>>)
            : name \in {"id", "main"}}
    [] r.sym = "params" ->
         {Free(<<>>), Costs(<<N("param")>>), Costs(<<N("param"), T(","), N("param")>>)}
    [] r.sym = "param" ->
         {Free(<<T("id"), T(":"), N("type"), B("Param", at)>>),
          Costs(<<T("mut"), T("id"), T(":"), N("type"), B("Param", at)>>)}
         \cup When("untyped", {Free(<<T("id"), B("Param", at)>>)})
    [] r.sym = "path"  -> {Free(<<>>), Costs(<<T("."), T("id"), N("path")>>)}
    [] r.sym = "alias" -> {Free(<<>>), Costs(<<T("as"), T("id")>>)}
    [] r.sym = "fields" ->
         {Free(<<>>), Costs(<<T("id"), T(":"), N("type"), T(","), N("fields")>>)}
    [] r.sym = "variants" ->
         {Free(<<>>), Costs(<<T("id"), T(","), N("variants")>>),
          Costs(<<T("id"), T("("), N("type"), T(")"), T(","), N("variants")>>)}

\* A statement is delimited by its own construct.  An expression statement
\* that the next line cannot continue begins with a name.
StatementRules(r, at) ==
  CASE r.sym = "block" -> {Free(<<T("{"), N("statements"), T("}"), B("Block", at)>>)}
    [] r.sym = "line" -> {Free(<<N("expression"), B("ExprStmt", at)>>)}
    [] r.sym = "statements" ->
         {Free(<<>>), Costs(<<N("statement"), N("statements")>>),
          Free(<<T("return"), B("Return", at + 1)>>)}
    [] r.sym = "statement" ->
         VarDecl(at)
         \cup {Free(<<N("block")>>),
               Free(<<T("if"), N("if"), B("If", at + 1)>>),
               Free(<<T("while"), E(1), N("block"), B("While", at + 1)>>),
               Free(<<T("vloop"), T("("), E(1), T(")"), N("body"), B("Vloop", at + 1)>>),
               Free(<<T("for"), T("id"), T("in"), E(1), N("block"), B("For", at + 1)>>),
               Free(<<T("match"), N("condition"), T("{"), N("arms"), T("}"),
                      B("Match", at + 1)>>),
               Free(<<T("return"), N("expression"), B("Return", at + 1)>>),
               Free(<<T("break"), B("Break", at)>>),
               Free(<<T("id"), T("("), N("args"), T(")"), B("Call", at),
                      B("ExprStmt", at)>>),
               Free(<<T("id"), T("="), N("expression"), B("Assign", at),
                      B("ExprStmt", at)>>)}
         \cup When("anyexpr", {Free(<<N("expression"), B("ExprStmt", at)>>)})
    [] r.sym = "body" -> {Free(<<N("block")>>), Costs(<<N("statement")>>)}
    [] r.sym = "if"   -> {Free(<<N("condition"), N("block"), N("else")>>)}
    [] r.sym = "else" ->
         {Free(<<>>), Costs(<<T("else"), N("block")>>), Costs(<<T("el"), N("block")>>),
          Costs(<<T("else"), T("if"), N("if"), B("If", at + 2)>>),
          Costs(<<T("ef"), N("if"), B("If", at + 1)>>)}
    [] r.sym = "condition" ->
         {Free(<<T("id")>>), Costs(<<T("id"), T("<"), E(8), B("Binary", at)>>),
          Costs(<<T("("), N("expression"), T(")")>>)}
         \cup When("parencond", {Free(<<E(1)>>)})
    [] r.sym = "arms" ->
         {Free(<<>>)} \cup {Costs(<<T(p), T("=>"), N("body"), B("Arm", at), N("arms")>>)
                            : p \in {"_", "int"}}

Rules(r, at) ==
  CASE r.sym \in {"expression", "binary", "unary", "operand", "postfix", "primary", "args"} ->
         ExpressionRules(r, at)
    [] r.sym \in {"type", "types", "result"} -> TypeRules(r, at)
    [] r.sym \in {"block", "statements", "statement", "line", "body", "if", "else",
                  "condition", "arms"} -> StatementRules(r, at)
    [] OTHER -> DeclRules(r, at)

Productions(r, at, words) ==
  {p \in Rules(r, at) :
     \A i \in DOMAIN p.items : p.items[i].is = "token" => p.items[i].sym \in words}
=============================================================================
