------------------------------- MODULE Parser -------------------------------
(***************************************************************************)
(* The recursive-descent and Pratt parser (src/parser/Parser.cpp).  What   *)
(* is left of the calls under way is a sequence of items, todo, innermost  *)
(* first: a call expands to the items of its function, which the operator  *)
(* of the same name gives for the current token.                           *)
(*                                                                         *)
(* A token is its kind.  Kinds that the parser treats alike are one (let,  *)
(* var and const; fn and fun; the operators of a precedence level; the     *)
(* literals), "main" and "_" are identifiers of that spelling, and "huge"  *)
(* is a literal out of range, for which std::stoll or std::stod throws.    *)
(* A node of the tree is <<kind, first, last>>: the tokens that it spans,  *)
(* from the one that is current when its function begins.                  *)
(***************************************************************************)
EXTENDS Integers, Sequences, FiniteSets

CONSTANTS
  Tokens,     \* the kinds that the source may use, without "eof"
  MaxTokens   \* bound on the length of the source

ASSUME ParserBounds == MaxTokens \in Nat /\ "eof" \notin Tokens

VARIABLES
  toks,          \* the tokens looked at so far; the lexer supplies the rest
  pos,           \* pos_: the current token
  todo,          \* what is left to do
  tree,          \* the nodes built
  failed,        \* an error diagnostic was recorded
  moduleName,    \* "anon", or the identifier of the module declaration
  functions,     \* the functions of the module, in order
  implicitMain   \* the functions called, and "" for a statement, in order

vars == <<toks, pos, todo, tree, failed, moduleName, functions, implicitMain>>

Ids == {"id", "main", "_"}
Is(t, k) == t = k \/ (k = "id" /\ t \in Ids)

Cur == toks[pos]                                    \* current()
Peek == IF pos < Len(toks) THEN toks[pos + 1] ELSE toks[pos]
AtEnd == Cur = "eof"
\* The parser looks one token ahead at most.
Ended  == toks # <<>> /\ toks[Len(toks)] = "eof"
Seen   == Ended \/ Len(toks) > pos

(***************************************************************************)
(* Items.  A call has the name of its function, the precedence that it is  *)
(* given, and the first token of the operand that it goes on with.         *)
(***************************************************************************)
Item(do, what, min, from) == [do |-> do, what |-> what, min |-> min, from |-> from]

Call(f)           == Item("call", f, 0, 0)
Expr(min)         == Item("call", "parseExpr", min, 0)
Postfix(from)     == Item("call", "parsePostfixExpr", 0, from)
Operators(min, from) == Item("call", "operators", min, from)
Infix(min, from)  == Item("call", "infix", min, from)
Until(f)          == Item("until", f, 0, 0)    \* while (!check(RBrace) && !isAtEnd()) f
More(f)           == Item("more", f, 0, 0)     \* while (match(Comma)) f
Expect(k)         == Item("expect", k, 0, 0)
Match(k)          == Item("match", k, 0, 0)
Take              == Item("take", "", 0, 0)    \* advance()
Error             == Item("error", "", 0, 0)   \* a diagnostic
Throw             == Item("throw", "", 0, 0)
Sync              == Item("sync", "", 0, 0)    \* synchronize()
Build(kind, from) == Item("build", kind, 0, from)
Declare(name, from) == Item("declare", name, 0, from)
Fold              == Item("fold", "", 0, 0)
Header            == Item("header", "", 0, 0)
Toplevel          == Item("toplevel", "", 0, 0)

(***************************************************************************)
(* Declarations.                                                           *)
(***************************************************************************)
DeclStart == {"fn", "pub", "struct", "enum", "type", "import", "module", "let"}
SyncAt == {"fn", "struct", "enum", "let", "return", "if", "ef", "match", "while",
           "vloop", "for"}

parseTopLevelDecl ==
  CASE Cur = "fn"     -> <<Take, Call("parseFunctionDecl")>>
    [] Cur = "struct" -> <<Take, Call("parseStructDecl")>>
    [] Cur = "enum"   -> <<Take, Call("parseEnumDecl")>>
    [] Cur = "type"   -> <<Take, Call("parseTypeAliasDecl")>>
    [] Cur = "import" -> <<Take, Call("parseImportDecl")>>
    [] Cur = "let"    -> <<Call("parseVarDecl")>>
    [] OTHER          -> <<Error, Sync>>

modulePath == IF Cur = "." THEN <<Take, Expect("id"), Call("modulePath")>> ELSE <<>>
importAlias == IF Cur = "as" THEN <<Take, Expect("id")>> ELSE <<>>
parseImportDecl ==
  <<Expect("id"), Call("modulePath"), Call("importAlias"), Match(";"),
    Build("Import", pos)>>

parseFunctionDecl ==
  <<Expect("id"), Expect("("), Call("parseParamList"), Expect(")"),
    Call("returnType"), Call("functionBody"), Build("Fn", pos), Declare(Cur, pos)>>
returnType == IF Cur = "->" THEN <<Take, Call("parseType")>> ELSE <<>>
functionBody == IF Cur = "{" THEN <<Call("parseBlock")>> ELSE <<Call("openBody")>>
\* A body without braces: statements up to the next declaration or the end.
openBody == IF AtEnd \/ Cur \in DeclStart \ {"let"} THEN <<>>
            ELSE <<Call("parseStmt"), Call("openBody")>>

parseParamList == IF Cur = ")" THEN <<>> ELSE <<Call("parseParam"), Call("moreParams")>>
moreParams ==
  CASE Cur = "," /\ Peek = ")" -> <<Take>>
    [] Cur = "," /\ Peek # ")" -> <<Take, Call("parseParam"), Call("moreParams")>>
    [] OTHER -> <<>>
\* Mutation of parseParam: no mut is expected.
parseParamPlain ==
  <<Expect("id"), Expect(":"), Call("parseType"), Build("Param", pos)>>
parseParam ==
  <<Match("mut"), Expect("id"), Expect(":"), Call("parseType"), Build("Param", pos)>>

parseStructDecl ==
  <<Expect("id"), Expect("{"), Until("field"), Expect("}"), Build("Struct", pos)>>
field == <<Match("pub"), Expect("id"), Expect(":"), Call("parseType"), Match(",")>>

parseEnumDecl ==
  <<Expect("id"), Expect("{"), Until("variant"), Expect("}"), Build("Enum", pos)>>
variant == <<Expect("id"), Call("variantFields"), Match(",")>>
variantFields ==
  IF Cur = "(" THEN <<Take, Call("parseType"), More("parseType"), Expect(")")>> ELSE <<>>

parseTypeAliasDecl ==
  <<Expect("id"), Expect("="), Call("parseType"), Match(";"), Build("Type", pos)>>

parseVarDecl ==
  <<Match("let"), Expect("id"), Call("varType"), Call("varInit"), Match(";"),
    Build("Let", pos)>>
varType == IF Cur = ":" THEN <<Take, Call("parseType")>> ELSE <<>>
varInit == IF Cur = "=" THEN <<Take, Expr(0)>> ELSE <<>>

(***************************************************************************)
(* Statements.                                                             *)
(***************************************************************************)
parseBlock ==
  <<Expect("{"), Until("parseStmt"), Expect("}"), Build("Block", pos)>>

\* A body in braces, or a single statement.
body == IF Cur = "{" THEN <<Call("parseBlock")>> ELSE <<Call("parseStmt")>>

parseStmt ==
  CASE Cur = "{"           -> <<Call("parseBlock")>>
    [] Cur \in {"if", "ef"} -> <<Take, Call("parseIfStmt")>>
    [] Cur = "match"       -> <<Take, Call("parseMatchStmt")>>
    [] Cur = "while"       -> <<Take, Call("parseWhileStmt")>>
    [] Cur = "vloop"       -> <<Take, Call("parseVloopStmt")>>
    [] Cur = "for"         -> <<Take, Call("parseForStmt")>>
    [] Cur = "return"      -> <<Take, Call("parseReturnStmt")>>
    [] Cur = "break"       -> <<Take, Match(";"), Build("Break", pos)>>
    [] Cur = "let"         -> <<Call("parseVarDecl")>>
    [] OTHER               -> <<Expr(0), Match(";"), Build("ExprStmt", pos)>>

parseIfStmt ==
  <<Match("("), Expr(0), Match(")"), Call("body"), Call("elseBranch"), Build("If", pos)>>
\* Mutation of elseBranch: an ef is left to the enclosing statement list.
elseBranchOnly ==
  CASE Cur = "else" /\ Peek = "if" -> <<Take, Take, Call("parseIfStmt")>>
    [] Cur = "el" \/ (Cur = "else" /\ Peek # "if") -> <<Take, Call("body")>>
    [] OTHER -> <<>>
elseBranch ==
  CASE Cur = "ef" \/ (Cur = "else" /\ Peek = "if") ->
         <<Take, Match("if"), Call("parseIfStmt")>>
    [] Cur = "el" \/ (Cur = "else" /\ Peek # "if") -> <<Take, Call("body")>>
    [] OTHER -> <<>>

parseWhileStmt == <<Expr(0), Call("parseBlock"), Build("While", pos)>>
parseVloopStmt == <<Expect("("), Expr(0), Expect(")"), Call("body"), Build("Vloop", pos)>>
parseForStmt ==
  <<Expect("id"), Expect("in"), Expr(0), Call("parseBlock"), Build("For", pos)>>

parseMatchStmt ==
  <<Match("("), Expr(0), Match(")"), Expect("{"), Until("matchArm"), Expect("}"),
    Build("Match", pos)>>
matchArm ==
  <<IF Cur = "_" THEN Take ELSE Expr(0), Expect("=>"), Call("body"), Match(","),
    Build("Arm", pos)>>

parseReturnStmt ==
  IF Cur \in {";", "}"} \/ AtEnd THEN <<Match(";"), Build("Return", pos)>>
                                ELSE <<Expr(0), Match(";"), Build("Return", pos)>>

(***************************************************************************)
(* Expressions.                                                            *)
(***************************************************************************)
infixPrecedence(t) ==
  CASE t = "||" -> 1 [] t = "&&" -> 2 [] t = "|" -> 3 [] t = "^" -> 4 [] t = "&" -> 5
    [] t = "==" -> 6 [] t = "<" -> 7 [] t = "<<" -> 8 [] t \in {"+", "-"} -> 9
    [] t \in {"*", "/"} -> 10 [] OTHER -> 0

parseExpr(min) == <<Call("parsePrimaryExpr"), Postfix(pos), Operators(min, pos)>>

operators(min, from) ==
  IF Cur = "=" THEN <<Take, Expr(0), Build("Assign", from)>> ELSE <<Infix(min, from)>>

infix(min, from) ==
  IF infixPrecedence(Cur) <= min THEN <<>>
  ELSE <<Take, Expr(infixPrecedence(Cur)), Build("Binary", from), Postfix(from),
         Infix(min, from)>>

\* Mutation of parsePrimaryExpr: the bad token is not skipped.
primaryStays ==
  CASE Cur \in {"-", "!", "*", "&"} ->
         <<Take, Call("parsePrimaryExpr"), Build("Unary", pos)>>
    [] Cur = "("     -> <<Take, Expr(0), Expect(")")>>
    [] Cur = "huge"  -> <<Throw>>
    [] Cur = "array" -> <<Take, Expect("["), Call("elements"), Expect("]"),
                          Build("Array", pos)>>
    [] Cur \in Ids \cup {"int"} -> <<Take>>
    [] OTHER         -> <<Error>>

parsePrimaryExpr ==
  CASE Cur \in {"-", "!", "*", "&"} ->
         <<Take, Call("parsePrimaryExpr"), Build("Unary", pos)>>
    [] Cur = "("     -> <<Take, Expr(0), Expect(")")>>
    [] Cur = "huge"  -> <<Throw>>
    [] Cur = "array" -> <<Take, Expect("["), Call("elements"), Expect("]"),
                          Build("Array", pos)>>
    [] Cur \in Ids \cup {"int"} -> <<Take>>
    [] OTHER         -> <<Error, Take>>

elements == IF Cur = "]" THEN <<>> ELSE <<Expr(0), More("parseExpr")>>

parsePostfixExpr(from) ==
  CASE Cur = "("  -> <<Take, Call("parseCallArgs"), Expect(")"), Build("Call", from),
                       Postfix(from)>>
    [] Cur = "["  -> <<Take, Expr(0), Expect("]"), Build("Index", from), Postfix(from)>>
    [] Cur = "."  -> <<Take, Expect("id"), Build("Member", from), Postfix(from)>>
    [] Cur = "as" -> <<Take, Call("parseType"), Build("Cast", from), Postfix(from)>>
    [] OTHER      -> <<>>

parseCallArgs == IF Cur = ")" THEN <<>> ELSE <<Expr(0), More("parseExpr")>>

(***************************************************************************)
(* Types.                                                                  *)
(***************************************************************************)
parseType ==
  CASE Cur = "*"  -> <<Take, Match("mut"), Call("parseType")>>
    [] Cur = "["  -> <<Take, Call("parseType"), Call("arraySize"), Expect("]")>>
    [] Cur = "fn" -> <<Take, Expect("("), Call("typeList"), Expect(")"),
                       Call("returnType")>>
    [] OTHER      -> <<Expect("id"), Call("typePath")>>
arraySize == IF Cur = ";" THEN <<Take, Expr(0)>> ELSE <<>>
typeList  == IF Cur = ")" THEN <<>> ELSE <<Call("parseType"), More("parseType")>>
typePath  == IF Cur = "::" THEN <<Take, Expect("id"), Call("typePath")>> ELSE <<>>

(***************************************************************************)
(* What a call is to do, given the current token.                          *)
(***************************************************************************)
Callee(i) ==
  CASE i.what = "parseTopLevelDecl"  -> parseTopLevelDecl
    [] i.what = "parseImportDecl"    -> parseImportDecl
    [] i.what = "modulePath"         -> modulePath
    [] i.what = "importAlias"        -> importAlias
    [] i.what = "parseFunctionDecl"  -> parseFunctionDecl
    [] i.what = "returnType"         -> returnType
    [] i.what = "functionBody"       -> functionBody
    [] i.what = "openBody"           -> openBody
    [] i.what = "parseParamList"     -> parseParamList
    [] i.what = "moreParams"         -> moreParams
    [] i.what = "parseParam"         -> parseParam
    [] i.what = "parseStructDecl"    -> parseStructDecl
    [] i.what = "field"              -> field
    [] i.what = "parseEnumDecl"      -> parseEnumDecl
    [] i.what = "variant"            -> variant
    [] i.what = "variantFields"      -> variantFields
    [] i.what = "parseTypeAliasDecl" -> parseTypeAliasDecl
    [] i.what = "parseVarDecl"       -> parseVarDecl
    [] i.what = "varType"            -> varType
    [] i.what = "varInit"            -> varInit
    [] i.what = "parseBlock"         -> parseBlock
    [] i.what = "body"               -> body
    [] i.what = "parseStmt"          -> parseStmt
    [] i.what = "parseIfStmt"        -> parseIfStmt
    [] i.what = "elseBranch"         -> elseBranch
    [] i.what = "parseWhileStmt"     -> parseWhileStmt
    [] i.what = "parseVloopStmt"     -> parseVloopStmt
    [] i.what = "parseForStmt"       -> parseForStmt
    [] i.what = "parseMatchStmt"     -> parseMatchStmt
    [] i.what = "matchArm"           -> matchArm
    [] i.what = "parseReturnStmt"    -> parseReturnStmt
    [] i.what = "parseExpr"          -> parseExpr(i.min)
    [] i.what = "operators"          -> operators(i.min, i.from)
    [] i.what = "infix"              -> infix(i.min, i.from)
    [] i.what = "parsePrimaryExpr"   -> parsePrimaryExpr
    [] i.what = "elements"           -> elements
    [] i.what = "parsePostfixExpr"   -> parsePostfixExpr(i.from)
    [] i.what = "parseCallArgs"      -> parseCallArgs
    [] i.what = "parseType"          -> parseType
    [] i.what = "arraySize"          -> arraySize
    [] i.what = "typeList"           -> typeList
    [] i.what = "typePath"           -> typePath

(***************************************************************************)
(* Steps: one per kind of item.                                            *)
(***************************************************************************)
Init ==
  /\ toks = <<>> /\ pos = 1 /\ todo = <<Header, Toplevel>> /\ tree = {} /\ failed = FALSE
  /\ moduleName = "anon" /\ functions = <<>> /\ implicitMain = <<>>

\* The lexer's next token, which the parser is about to look at.
Scan(t) ==
  /\ todo # <<>> /\ ~Seen
  /\ t = "eof" \/ Len(toks) < MaxTokens
  /\ toks' = Append(toks, t)
  /\ UNCHANGED <<pos, todo, tree, failed, moduleName, functions, implicitMain>>

progVars == <<moduleName, functions, implicitMain>>
Head1 == todo[1]
At(do) == todo # <<>> /\ Seen /\ Head1.do = do /\ toks' = toks
Go(items) == todo' = items \o Tail(todo)
Advance == pos' = IF AtEnd THEN pos ELSE pos + 1

DoCall ==
  /\ At("call") /\ Go(Callee(Head1))
  /\ UNCHANGED <<pos, tree, failed, progVars>>
DoUntil ==
  /\ At("until")
  /\ Go(IF Cur = "}" \/ AtEnd THEN <<>> ELSE <<Call(Head1.what), Head1>>)
  /\ UNCHANGED <<pos, tree, failed, progVars>>
DoMore ==
  /\ At("more")
  /\ IF Cur = "," THEN Go(<<Call(Head1.what), Head1>>) /\ Advance
                  ELSE Go(<<>>) /\ UNCHANGED pos
  /\ UNCHANGED <<tree, failed, progVars>>

\* Mutation of DoExpect: a missing token is no error.
ExpectQuietly ==
  /\ At("expect") /\ Go(<<>>)
  /\ IF Is(Cur, Head1.what) THEN Advance ELSE UNCHANGED pos
  /\ UNCHANGED <<tree, failed, progVars>>
DoExpect ==
  /\ At("expect") /\ Go(<<>>)
  /\ IF Is(Cur, Head1.what) THEN Advance /\ UNCHANGED failed
                            ELSE failed' = TRUE /\ UNCHANGED pos
  /\ UNCHANGED <<tree, progVars>>
DoMatch ==
  /\ At("match") /\ Go(<<>>)
  /\ IF Is(Cur, Head1.what) THEN Advance ELSE UNCHANGED pos
  /\ UNCHANGED <<tree, failed, progVars>>
DoTake ==
  /\ At("take") /\ Go(<<>>) /\ Advance
  /\ UNCHANGED <<tree, failed, progVars>>
DoError ==
  /\ At("error") /\ Go(<<>>) /\ failed' = TRUE
  /\ UNCHANGED <<pos, tree, progVars>>
DoBuild ==
  /\ At("build") /\ Go(<<>>)
  /\ tree' = tree \cup {<<Head1.what, Head1.from, pos - 1>>}
  /\ UNCHANGED <<pos, failed, progVars>>

\* Mutations of DoThrow: nothing is reported; the functions left go on.
ThrowQuietly ==
  /\ At("throw") /\ todo' = <<Sync, Toplevel>>
  /\ UNCHANGED <<pos, tree, failed, progVars>>
ThrowResumes ==
  /\ At("throw") /\ Go(<<Error, Sync, Toplevel>>)
  /\ UNCHANGED <<pos, tree, failed, progVars>>
\* An exception leaves every function but parse(), which catches it.
DoThrow ==
  /\ At("throw") /\ todo' = <<Error, Sync, Toplevel>>
  /\ UNCHANGED <<pos, tree, failed, progVars>>
DoSync ==
  /\ At("sync")
  /\ IF AtEnd \/ Cur \in SyncAt THEN Go(<<>>) /\ UNCHANGED pos
     ELSE Advance /\ IF Cur = ";" THEN Go(<<>>) ELSE UNCHANGED todo
  /\ UNCHANGED <<tree, failed, progVars>>

(***************************************************************************)
(* parse(): the module declaration, then declarations and, for the         *)
(* synthetic main, statements.                                             *)
(***************************************************************************)
DoHeader ==
  /\ At("header")
  /\ IF Cur = "module"
     THEN /\ Go(<<Take, Expect("id"), Match(";")>>)
          /\ moduleName' = IF Peek \in Ids THEN Peek ELSE moduleName
     ELSE Go(<<>>) /\ UNCHANGED moduleName
  /\ UNCHANGED <<pos, tree, failed, functions, implicitMain>>

\* The function joins the module; in scripting mode main calls it, with no
\* argument.
DoDeclare ==
  /\ At("declare") /\ Go(<<>>)
  /\ LET f == [name |-> Head1.what,
               params |-> Cardinality({n \in tree : n[1] = "Param" /\ n[2] > Head1.from})]
     IN  /\ functions' = Append(functions, f)
         /\ implicitMain' = IF f.name # "main"
                               /\ (moduleName = "main" \/ implicitMain # <<>>)
                            THEN Append(implicitMain, f) ELSE implicitMain
  /\ UNCHANGED <<pos, tree, failed, moduleName>>

Statement == [name |-> "", params |-> 0]
DoFold ==
  /\ At("fold") /\ Go(<<>>) /\ implicitMain' = Append(implicitMain, Statement)
  /\ UNCHANGED <<pos, tree, failed, moduleName, functions>>

DoToplevel ==
  /\ At("toplevel") /\ ~AtEnd
  /\ Go(IF Cur \in DeclStart
        THEN <<Match("pub"), Call("parseTopLevelDecl"), Head1>>
        ELSE <<Call("parseStmt"), Fold, Head1>>)
  /\ UNCHANGED <<pos, tree, failed, progVars>>

Finish ==
  /\ At("toplevel") /\ AtEnd /\ Go(<<>>)
  /\ functions' = IF implicitMain = <<>> THEN functions
                  ELSE Append(functions, [name |-> "main", params |-> 0])
  /\ UNCHANGED <<pos, tree, failed, moduleName, implicitMain>>

Done == todo = <<>>
Parsed == Done /\ UNCHANGED vars

Step == \/ DoCall \/ DoUntil \/ DoMore \/ DoExpect \/ DoMatch \/ DoTake \/ DoError
        \/ DoBuild \/ DoThrow \/ DoSync \/ DoHeader \/ DoDeclare \/ DoFold
        \/ DoToplevel \/ Finish
Next == (\E t \in Tokens \cup {"eof"} : Scan(t)) \/ Step \/ Parsed

\* parse() runs to its end unless it loops.
Spec == Init /\ [][Next]_vars /\ WF_vars(Next)

(***************************************************************************)
(* Properties.                                                             *)
(***************************************************************************)
Callees ==
  {"parseTopLevelDecl", "parseImportDecl", "modulePath", "importAlias",
   "parseFunctionDecl", "returnType", "functionBody", "openBody", "parseParamList",
   "moreParams", "parseParam", "parseStructDecl", "field", "parseEnumDecl", "variant",
   "variantFields", "parseTypeAliasDecl", "parseVarDecl", "varType", "varInit",
   "parseBlock", "body", "parseStmt", "parseIfStmt", "elseBranch", "parseWhileStmt",
   "parseVloopStmt", "parseForStmt", "parseMatchStmt", "matchArm", "parseReturnStmt",
   "parseExpr", "operators", "infix", "parsePrimaryExpr", "elements",
   "parsePostfixExpr", "parseCallArgs", "parseType", "arraySize", "typeList",
   "typePath"}
NodeKinds ==
  {"Import", "Fn", "Param", "Struct", "Enum", "Type", "Let", "Block", "If", "While",
   "Vloop", "For", "Match", "Arm", "Return", "Break", "ExprStmt", "Assign", "Binary",
   "Unary", "Array", "Call", "Index", "Member", "Cast"}
ExpectKinds == {"id", "(", ")", "{", "}", "[", "]", ":", "=", "in", "=>"}
MatchKinds  == {";", "mut", "pub", ",", "let", "if", "(", ")"}
Items == [do : {"call", "until", "more", "expect", "match", "take", "error", "throw", "sync",
                "build", "declare", "fold", "header", "toplevel"},
          what : Callees \cup NodeKinds \cup ExpectKinds \cup MatchKinds
                 \cup Tokens \cup {"eof", ""},
          min : 0 .. 10, from : Nat]
Function == [name : Tokens \cup {"eof", "main", ""}, params : Nat]

\* Types; the parser stays within its tokens, and while it runs parse() is
\* under every other call.
TypeOK ==
  /\ toks \in Seq(Tokens \cup {"eof"}) /\ pos \in 1 .. Len(toks) + 1
  /\ todo \in Seq(Items)
  /\ \A i \in DOMAIN todo : todo[i].do = "toplevel" <=> i = Len(todo)
  /\ \A n \in tree : n[2] \in 1 .. Len(toks) + 1 /\ n[3] \in 0 .. Len(toks)
  /\ failed \in BOOLEAN /\ moduleName \in Ids \cup {"anon"}
  /\ functions \in Seq(Function) /\ implicitMain \in Seq(Function)

Count(k, n) == Cardinality({i \in 1 .. n : toks[i] = k})
Matched(open, close) ==
  /\ \A n \in DOMAIN toks : Count(close, n) <= Count(open, n)
  /\ Count(close, Len(toks)) = Count(open, Len(toks))

\* A source that the parser accepts has its parentheses, brackets and
\* braces in pairs: the grammar has no production without (docs/grammar.md).
AcceptedBalanced ==
  Done /\ ~failed => Matched("(", ")") /\ Matched("[", "]") /\ Matched("{", "}")

\* An exception thrown inside a body leaves tokens of that body to parse()
\* and its synthetic main; no such module is passed on as correct.
RecoveryReported ==
  \A i \in DOMAIN toks : Done /\ toks[i] = "huge" => failed

\* A module has one function called main: that of the source, or the
\* synthetic one for its top-level statements.  Scripts that define main
\* break this (README, divergences).
OneMain ==
  Done /\ ~failed =>
    Cardinality({i \in DOMAIN functions : functions[i].name = "main"}) <= 1

\* The calls put into the synthetic main have an argument per parameter:
\* broken by any function with parameters (README, divergences).
AutoCallsFit == \A i \in DOMAIN implicitMain : implicitMain[i].params = 0

\* Every source is parsed to its end, whatever is wrong with it.
Terminates == <>Done
=============================================================================
