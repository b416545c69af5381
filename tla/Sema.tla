-------------------------------- MODULE Sema --------------------------------
(***************************************************************************)
(* Semantic analysis of one module: the three passes of                    *)
(* SemanticAnalyzer::analyze over one SymbolTable                          *)
(* (src/semantic/SemanticAnalyzer.cpp, TypeChecker.cpp, SymbolTable.cpp).  *)
(*                                                                         *)
(* The top-level declarations are chosen at the start; function bodies are *)
(* revealed to pass 2 one node at a time and kept in log, which pass 3     *)
(* goes through again.  A node of log is a declaration, a statement, or    *)
(* the end of a scope.  The conditions and subjects of if, while, vloop    *)
(* and match are visited like expression statements, their bodies like the *)
(* statements that follow, so they are nodes of those kinds.               *)
(*                                                                         *)
(* An expression is a literal, a read of a name, a call of a name on       *)
(* literals, a binary expression on two of those, or opaque: a literal of  *)
(* char, nil, or a cast or index expression, which neither pass visits.    *)
(***************************************************************************)
EXTENDS Integers, Sequences, FiniteSets

CONSTANTS
  Names,      \* identifiers
  Builtins,   \* those of them that analyze declares as built-in functions
  Types,      \* type names, as written and as given to literals
  IntTypes,   \* those that typesCompatible takes for integer types
  Pools,      \* what modules are made of: each is written from one pool
  MaxDepth    \* bound: nesting of scopes

Any  == "<any>"
Bare == ""               \* no annotation, or no return type
None == [op |-> "none"]  \* no initializer, or no return value

ASSUME TypesAssumption ==
  /\ IntTypes \subseteq Types /\ {Any, Bare} \cap Types = {}
  /\ Builtins \subseteq Names

Leaf == [op : {"lit"}, type : Types] \cup [op : {"read"}, name : Names]
        \cup [op : {"call"}, name : Names, args : Seq(Types)] \cup [op : {"opaque"}]
Expression == Leaf \cup [op : {"binary"}, lhs : Leaf, rhs : Leaf]
Parameter  == [name : Names, type : Types \cup {Bare}, mut : BOOLEAN]
VarDecl == [node : {"var"}, var : {"let", "var", "const"}, name : Names,
            type : Types \cup {Bare}, init : Expression \cup {None}]
Decl == VarDecl \cup [node : {"type", "import"}, name : Names]
        \cup [node : {"fn"}, name : Names, params : Seq(Parameter), ret : Types \cup {Bare}]

\* A pool: top-level declarations, variable declarations of bodies,
\* expressions, kinds of statement, names to assign to or loop with, and how
\* many declarations and statements a module has at most.
ASSUME PoolsAssumption ==
  /\ MaxDepth \in Nat
  /\ \A p \in Pools : /\ DOMAIN p = {"decls", "locals", "exprs", "kinds", "names", "maxDecls", "maxStmts"}
                      /\ p.decls \subseteq Decl /\ p.locals \subseteq VarDecl
                      /\ p.exprs \subseteq Expression /\ p.names \subseteq Names
                      /\ p.maxDecls \in Nat /\ p.maxStmts \in Nat

VARIABLES
  pool,      \* the pool of this module
  decls,     \* module.decls()
  log,       \* the nodes that pass 2 has visited
  pass,      \* "hoist", "resolve", "check" or "done"
  next,      \* the declaration (passes 1, 2) or the node (pass 3) to visit
  scopes,    \* symbols_: scopes, the global one first
  fn,        \* the function being visited: its place in log, or 0
  returned,  \* hasReturn_
  last,      \* lastExprType_
  stmts,     \* statements so far
  found,     \* <<p, i, x, ids>>: pass p resolved x at node i to ids
  errors     \* <<p, i, what>>: diagnostics of pass p at node i

vars == <<pool, decls, log, pass, next, scopes, fn, returned, last, stmts, found, errors>>

(***************************************************************************)
(* SymbolTable.  at is where a symbol was declared: a place in log, the    *)
(* negated place in decls of a hoisted one, 0 for a built-in.              *)
(***************************************************************************)
Sym(kind, mut, type, arity, at) ==
  [kind |-> kind, mut |-> mut, type |-> type, arity |-> arity, at |-> at]

lookup(sc, x) ==
  LET at == {i \in DOMAIN sc : x \in DOMAIN sc[i].syms}
  IN  IF at = {} THEN {} ELSE {sc[CHOOSE i \in at : \A j \in at : j <= i].syms[x]}

InCurrent(sc, x) == x \in DOMAIN sc[Len(sc)].syms

define(sc, x, sym) ==
  LET syms == sc[Len(sc)].syms
  IN  IF InCurrent(sc, x) THEN sc
      ELSE [sc EXCEPT ![Len(sc)].syms =
              [n \in DOMAIN syms \cup {x} |-> IF n = x THEN sym ELSE syms[n]]]

enterScope(sc, label) == Append(sc, [label |-> label, syms |-> <<>>])
leaveScope(sc) == SubSeq(sc, 1, Len(sc) - 1)

Label == scopes[Len(scopes)].label

\* The parameters, in the empty scope of their function; a duplicate is not
\* defined again.
DefineParams(sc, params, at) ==
  LET named(x) == {i \in DOMAIN params : params[i].name = x}
      first(x) == params[CHOOSE i \in named(x) : \A j \in named(x) : i <= j]
  IN  [sc EXCEPT ![Len(sc)].syms =
         [x \in {params[i].name : i \in DOMAIN params} |->
            Sym("parameter", first(x).mut, first(x).type, 0, at)]]
Duplicated(params) ==
  \E i, j \in DOMAIN params : i # j /\ params[i].name = params[j].name

VarSym(d, type, at) ==
  Sym(IF d.var = "const" THEN "constant" ELSE "variable", d.var = "var", type, 0, at)

(***************************************************************************)
(* Pass 1: built-ins, then functions and types of the module.              *)
(***************************************************************************)
BuiltinScope ==
  [label |-> "global", syms |-> [x \in Builtins |-> Sym("function", FALSE, Any, 0, 0)]]

Init ==
  /\ pool \in Pools
  /\ decls \in UNION {[1 .. n -> pool.decls] : n \in 1 .. pool.maxDecls}
  /\ log = <<>> /\ pass = "hoist" /\ next = 1 /\ scopes = <<BuiltinScope>>
  /\ fn = 0 /\ returned = FALSE /\ last = Bare /\ stmts = 0
  /\ found = {} /\ errors = {}

Fault(p, i, S) == errors' = errors \cup ({p} \X {i} \X S)
If(cond, what) == IF cond THEN {what} ELSE {}

Hoisted(d) == d.node \in {"fn", "type"}
Hoist ==
  /\ pass = "hoist" /\ next <= Len(decls)
  /\ LET d == decls[next]
         sym == IF d.node = "fn" THEN Sym("function", FALSE, d.ret, Len(d.params), -next)
                                 ELSE Sym("type", FALSE, Bare, 0, -next)
     IN  IF Hoisted(d)
         THEN /\ scopes' = define(scopes, d.name, sym)
              /\ Fault(1, next, If(InCurrent(scopes, d.name), "redefinition"))
         ELSE UNCHANGED <<scopes, errors>>
  /\ next' = next + 1
  /\ UNCHANGED <<decls, log, pass, fn, returned, last, stmts, found>>

StartResolve ==
  /\ pass = "hoist" /\ next > Len(decls)
  /\ pass' = "resolve" /\ next' = 1
  /\ UNCHANGED <<decls, log, scopes, fn, returned, last, stmts, found, errors>>

(***************************************************************************)
(* Expressions.                                                            *)
(***************************************************************************)
Leaves(e) == IF e.op = "binary" THEN {e.lhs, e.rhs} ELSE {e}
NamesIn(e) == {l.name : l \in {m \in Leaves(e) : m.op \in {"read", "call"}}}
Ids(syms) == {s.at : s \in syms}
Uses(p, sc, i, S) == {<<p, i, x, Ids(lookup(sc, x))>> : x \in S}

\* Pass 2's diagnostics for one leaf.  A function without parameters, like
\* a built-in, takes any number of arguments.
LeafFaults(sc, l) ==
  LET syms == IF l.op \in {"read", "call"} THEN lookup(sc, l.name) ELSE {}
  IN  CASE l.op = "read" -> If(syms = {}, "undeclared")
        [] l.op = "call" ->
             If(syms = {}, "undeclared")
             \cup If(\E s \in syms : s.kind # "function", "not a function")
             \cup If(\E s \in syms : /\ s.kind = "function" /\ s.type # Any
                                     /\ s.arity # 0 /\ s.arity # Len(l.args), "arguments")
        [] OTHER -> {}
ExprFaults(sc, e) == UNION {LeafFaults(sc, l) : l \in Leaves(e)}

(***************************************************************************)
(* Pass 2.  Every visit appends its node to log.                           *)
(***************************************************************************)
Here == Len(log) + 1
Node(n) == log' = Append(log, n)

Toplevel(d) ==
  /\ pass = "resolve" /\ fn = 0 /\ next <= Len(decls) /\ d = decls[next]
  /\ Node(d) /\ next' = next + 1
  /\ UNCHANGED <<decls, pass, returned, last, stmts>>

\* visit(FunctionDecl) and visit(ParameterDecl), up to the body.
VisitFunctionDecl(d) ==
  /\ d.node = "fn" /\ Toplevel(d)
  /\ fn' = Here
  /\ scopes' = DefineParams(enterScope(scopes, "fn"), d.params, Here)
  /\ Fault(2, Here, If(Duplicated(d.params), "redefinition"))
  /\ UNCHANGED found

\* visit(ImportDecl): a duplicate is only a warning.
VisitImportDecl(d) ==
  /\ d.node = "import" /\ Toplevel(d)
  /\ scopes' = define(scopes, d.name, Sym("module", FALSE, Bare, 0, Here))
  /\ UNCHANGED <<fn, found, errors>>

\* visit(StructDecl), visit(EnumDecl)
VisitTypeDecl(d) ==
  d.node = "type" /\ Toplevel(d) /\ UNCHANGED <<scopes, fn, found, errors>>

\* Mutation of Declare: the name is defined before the initializer is visited.
DeclareFirst(d) ==
  LET sc == define(scopes, d.name, VarSym(d, d.type, Here))
  IN  /\ scopes' = sc
      /\ found' = found \cup Uses(2, sc, Here, NamesIn(d.init))
      /\ Fault(2, Here, ExprFaults(sc, d.init)
                        \cup If(InCurrent(scopes, d.name), "redefinition"))

\* visit(VarDecl): the initializer is visited before the name is defined.
Declare(d) ==
  /\ scopes' = define(scopes, d.name, VarSym(d, d.type, Here))
  /\ found' = found \cup Uses(2, scopes, Here, NamesIn(d.init))
  /\ Fault(2, Here, ExprFaults(scopes, d.init)
                    \cup If(InCurrent(scopes, d.name), "redefinition"))
VisitGlobal(d) == d.node = "var" /\ Toplevel(d) /\ Declare(d) /\ UNCHANGED fn

Statement(kind, n) ==
  /\ pass = "resolve" /\ fn # 0 /\ Label = "block"
  /\ kind \in pool.kinds /\ stmts < pool.maxStmts
  /\ Node(n) /\ stmts' = stmts + 1
  /\ UNCHANGED <<decls, pass, next, fn, returned, last>>

VisitVarDecl(d) == Statement("var", d) /\ Declare(d)

\* visit(ExprStmt), or the condition of another statement.
VisitExpr(kind, e) ==
  /\ Statement(kind, [node |-> kind, expr |-> e])
  /\ found' = found \cup Uses(2, scopes, Here, NamesIn(e))
  /\ Fault(2, Here, ExprFaults(scopes, e))
  /\ UNCHANGED scopes

\* visit(AssignExpr): an unknown target is declared, before target and
\* value are visited.
VisitAssign(x, e) ==
  LET target == lookup(scopes, x)
      sc == IF target = {}
            THEN define(scopes, x, Sym("variable", TRUE, Any, 0, Here)) ELSE scopes
  IN  /\ target = {} => "implicit" \in pool.kinds
      /\ Statement("assign", [node |-> "assign", name |-> x, expr |-> e])
      /\ scopes' = sc
      /\ found' = found \cup Uses(2, sc, Here, {x} \cup NamesIn(e))
      /\ Fault(2, Here, ExprFaults(sc, e)
           \cup If(\E s \in target : \/ s.kind \in {"constant", "function"}
                                     \/ s.kind = "variable" /\ ~s.mut, "immutable"))

\* visit(ReturnStmt); a parsed return is always in a function.
VisitReturn(e) ==
  /\ Statement("return", [node |-> "return", expr |-> e])
  /\ found' = found \cup Uses(2, scopes, Here, NamesIn(e))
  /\ Fault(2, Here, ExprFaults(scopes, e))
  /\ UNCHANGED scopes

\* visit(BlockStmt): the body of a function or loop, or a nested block.
BodyPending == Label \in {"fn", "for"} /\ log[Len(log)].node # "end"
VisitBody ==
  /\ pass = "resolve" /\ fn # 0 /\ BodyPending
  /\ Node([node |-> "block"])
  /\ scopes' = enterScope(scopes, "block")
  /\ UNCHANGED <<decls, pass, next, fn, returned, last, stmts, found, errors>>
VisitBlock ==
  /\ Len(scopes) < MaxDepth
  /\ Statement("block", [node |-> "block"])
  /\ scopes' = enterScope(scopes, "block")
  /\ UNCHANGED <<found, errors>>

\* visit(ForStmt) up to the body: the variable is defined in a scope of its
\* own before the iterable is visited.
VisitFor(x, e) ==
  LET sc == define(enterScope(scopes, "for"), x, Sym("variable", FALSE, Bare, 0, Here))
  IN  /\ Len(scopes) < MaxDepth
      /\ Statement("for", [node |-> "for", name |-> x, expr |-> e])
      /\ scopes' = sc
      /\ found' = found \cup Uses(2, sc, Here, NamesIn(e))
      /\ Fault(2, Here, ExprFaults(sc, e))

\* Mutation of Leave: the scope of a function is not left.
LeaveBlocks ==
  /\ pass = "resolve" /\ fn # 0 /\ ~BodyPending
  /\ Node([node |-> "end"])
  /\ scopes' = IF Label = "fn" THEN scopes ELSE leaveScope(scopes)
  /\ fn' = IF Label = "fn" THEN 0 ELSE fn
  /\ UNCHANGED <<decls, pass, next, returned, last, stmts, found, errors>>

\* The end of visit(BlockStmt), visit(ForStmt) or visit(FunctionDecl).
Leave ==
  /\ pass = "resolve" /\ fn # 0 /\ ~BodyPending
  /\ Node([node |-> "end"])
  /\ scopes' = leaveScope(scopes)
  /\ fn' = IF Label = "fn" THEN 0 ELSE fn
  /\ UNCHANGED <<decls, pass, next, returned, last, stmts, found, errors>>

StartCheck ==
  /\ pass = "resolve" /\ fn = 0 /\ next > Len(decls)
  /\ pass' = "check" /\ next' = 1
  /\ UNCHANGED <<decls, log, scopes, fn, returned, last, stmts, found, errors>>

(***************************************************************************)
(* Pass 3, TypeChecker, on the same symbol table: the global scope is the  *)
(* one that pass 2 left behind, the others are built again.                *)
(***************************************************************************)
Compatible(a, b) ==
  \/ a = b
  \/ Any \in {a, b} \/ Bare \in {a, b}
  \/ a \in IntTypes /\ b \in IntTypes

OrAny(t) == IF t = Bare THEN Any ELSE t
TypeOfSym(syms) == IF syms = {} THEN Any ELSE OrAny((CHOOSE s \in syms : TRUE).type)

\* returnType is empty in every symbol that is not a function's.
ReturnTypeOf(syms) ==
  IF \E s \in syms : s.kind = "function" THEN TypeOfSym(syms) ELSE Any

\* What a visit leaves in lastExprType_ when it was prev before.
LeafType(sc, l, prev) ==
  CASE l.op = "lit"  -> l.type
    [] l.op = "read" -> TypeOfSym(lookup(sc, l.name))
    [] l.op = "call" -> ReturnTypeOf(lookup(sc, l.name))
    [] OTHER         -> prev
exprType(sc, e, prev) == LeafType(sc, IF e.op = "binary" THEN e.lhs ELSE e, prev)
RhsType(sc, e, prev) == LeafType(sc, e.rhs, exprType(sc, e, prev))
Mismatch(a, b) == If(~Compatible(a, b), "mismatch")
BinaryFaults(sc, e, prev) ==
  IF e.op = "binary" THEN Mismatch(exprType(sc, e, prev), RhsType(sc, e, prev)) ELSE {}

At == log[next]
Checking(kinds) ==
  /\ pass = "check" /\ next <= Len(log) /\ At.node \in kinds
  /\ next' = next + 1
  /\ UNCHANGED <<decls, log, pass, stmts>>

\* Mutation of CheckFunctionDecl: the parameters are not defined again.
CheckFunctionWithoutParams ==
  /\ Checking({"fn"})
  /\ fn' = next /\ returned' = FALSE
  /\ scopes' = enterScope(scopes, "fn")
  /\ UNCHANGED <<last, found, errors>>

CheckFunctionDecl ==
  /\ Checking({"fn"})
  /\ fn' = next /\ returned' = FALSE
  /\ scopes' = DefineParams(enterScope(scopes, "fn"), At.params, next)
  /\ UNCHANGED <<last, found, errors>>

\* visit(ImportDecl), visit(StructDecl), visit(EnumDecl) do nothing.
CheckOtherDecl ==
  Checking({"import", "type"}) /\ UNCHANGED <<scopes, fn, returned, last, found, errors>>

\* Mutation of CheckVarDecl: no type is inferred.
CheckVarDeclAsWritten ==
  /\ Checking({"var"})
  /\ LET t == exprType(scopes, At.init, last)
     IN  /\ scopes' = define(scopes, At.name, VarSym(At, At.type, next))
         /\ last' = t
         /\ Fault(3, next, BinaryFaults(scopes, At.init, last)
              \cup (IF At.init = None THEN {} ELSE Mismatch(At.type, t)))
  /\ found' = found \cup Uses(3, scopes, next, NamesIn(At.init))
  /\ UNCHANGED <<fn, returned>>

\* visit(VarDecl): the annotation, or the type of the initializer, becomes
\* the type of the symbol, unless the name is already defined.
CheckVarDecl ==
  /\ Checking({"var"})
  /\ LET t    == exprType(scopes, At.init, last)
         type == IF At.type = Bare /\ At.init # None THEN t ELSE At.type
     IN  /\ scopes' = define(scopes, At.name, VarSym(At, type, next))
         /\ last' = t
         /\ Fault(3, next, BinaryFaults(scopes, At.init, last)
              \cup (IF At.init = None THEN {} ELSE Mismatch(At.type, t)))
  /\ found' = found \cup Uses(3, scopes, next, NamesIn(At.init))
  /\ UNCHANGED <<fn, returned>>

CheckExpr ==
  /\ Checking({"expr", "cond"})
  /\ last' = exprType(scopes, At.expr, last)
  /\ Fault(3, next, BinaryFaults(scopes, At.expr, last))
  /\ found' = found \cup Uses(3, scopes, next, NamesIn(At.expr))
  /\ UNCHANGED <<scopes, fn, returned>>

CheckAssign ==
  /\ Checking({"assign"})
  /\ LET target == TypeOfSym(lookup(scopes, At.name))
     IN  /\ Fault(3, next, BinaryFaults(scopes, At.expr, target)
                           \cup Mismatch(target, exprType(scopes, At.expr, target)))
         /\ last' = target
  /\ found' = found \cup Uses(3, scopes, next, {At.name} \cup NamesIn(At.expr))
  /\ UNCHANGED <<scopes, fn, returned>>

CheckReturn ==
  /\ Checking({"return"})
  /\ returned' = TRUE
  /\ LET t   == exprType(scopes, At.expr, last)
         ret == log[fn].ret
     IN  /\ last' = t
         /\ Fault(3, next, BinaryFaults(scopes, At.expr, last) \cup
              (IF At.expr = None THEN If(ret # Bare, "missing value")
               ELSE Mismatch(t, ret)))
  /\ found' = found \cup Uses(3, scopes, next, NamesIn(At.expr))
  /\ UNCHANGED <<scopes, fn>>

CheckBlock ==
  /\ Checking({"block"})
  /\ scopes' = enterScope(scopes, "block")
  /\ UNCHANGED <<fn, returned, last, found, errors>>

CheckFor ==
  /\ Checking({"for"})
  /\ LET sc == define(enterScope(scopes, "for"), At.name, Sym("variable", FALSE, Any, 0, next))
     IN  /\ scopes' = sc
         /\ last' = exprType(sc, At.expr, last)
         /\ Fault(3, next, BinaryFaults(sc, At.expr, last))
         /\ found' = found \cup Uses(3, sc, next, NamesIn(At.expr))
  /\ UNCHANGED <<fn, returned>>

\* At the end of a function: one that declares a type must have a return.
CheckEnd ==
  /\ Checking({"end"})
  /\ scopes' = leaveScope(scopes)
  /\ IF Label = "fn"
     THEN fn' = 0 /\ Fault(3, next, If(log[fn].ret # Bare /\ ~returned, "no return"))
     ELSE UNCHANGED <<fn, errors>>
  /\ UNCHANGED <<returned, last, found>>

Finish ==
  /\ pass = "check" /\ next > Len(log)
  /\ pass' = "done"
  /\ UNCHANGED <<decls, log, next, scopes, fn, returned, last, stmts, found, errors>>

Done == pass = "done" /\ UNCHANGED vars

Step ==
  \/ Hoist \/ StartResolve
  \/ \E d \in pool.decls : \/ VisitFunctionDecl(d) \/ VisitImportDecl(d)
                           \/ VisitTypeDecl(d) \/ VisitGlobal(d)
  \/ \E d \in pool.locals : VisitVarDecl(d)
  \/ \E e \in pool.exprs, kind \in {"expr", "cond"} : VisitExpr(kind, e)
  \/ \E x \in pool.names, e \in pool.exprs : VisitAssign(x, e)
  \/ \E e \in pool.exprs \cup {None} : VisitReturn(e)
  \/ VisitBody \/ VisitBlock
  \/ \E x \in pool.names, e \in pool.exprs : VisitFor(x, e)
  \/ Leave
  \/ StartCheck
  \/ CheckFunctionDecl \/ CheckOtherDecl \/ CheckVarDecl \/ CheckExpr
  \/ CheckAssign \/ CheckReturn \/ CheckBlock \/ CheckFor \/ CheckEnd
  \/ Finish \/ Done

Next == Step /\ UNCHANGED pool

Spec == Init /\ [][Next]_vars

-----------------------------------------------------------------------------
Symbol == [kind : {"variable", "constant", "function", "parameter", "type", "module"},
           mut : BOOLEAN, type : Types \cup {Any, Bare}, arity : Nat, at : Int]
IsScope(sc) == /\ sc.label \in {"global", "fn", "block", "for"}
               /\ DOMAIN sc.syms \subseteq Names
               /\ \A x \in DOMAIN sc.syms : sc.syms[x] \in Symbol

(***************************************************************************)
(* The symbol table and the analyzer's registers.  The global scope is     *)
(* never popped ("Cannot pop the global scope", SymbolTable.cpp:45), and   *)
(* outside of functions, so too when pass 3 takes over the table, it is    *)
(* the only one.                                                           *)
(***************************************************************************)
TypeOK ==
  /\ pool \in Pools /\ decls \in Seq(pool.decls) /\ Len(decls) \in 1 .. pool.maxDecls
  /\ pass \in {"hoist", "resolve", "check", "done"} /\ next \in 1 .. Len(decls) + Len(log) + 1
  /\ Len(scopes) > 0
  /\ \A i \in DOMAIN scopes : IsScope(scopes[i]) /\ (scopes[i].label = "global" <=> i = 1)
  /\ fn \in 0 .. Len(log) /\ (fn = 0 <=> Len(scopes) = 1)
  /\ returned \in BOOLEAN /\ last \in Types \cup {Any, Bare} /\ stmts \in 0 .. pool.maxStmts
=============================================================================
