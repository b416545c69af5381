------------------------------- MODULE ExprGen -------------------------------
(***************************************************************************)
(* Lowering of a module's declarations and of the expressions in them: the *)
(* expression visitors of IRGen, visit(ModuleDecl), visit(FunctionDecl)    *)
(* and the IRBuilder they drive (src/ir/IRGen.cpp, src/ir/IRBuilder.cpp).  *)
(* Statements with bodies are in IRGen.tla; a function here is a list of   *)
(* declarations, expressions and at most one return, its last statement.   *)
(*                                                                         *)
(* The tree is revealed as it is visited.  A Visit action is the part of a *)
(* visitor up to its first accept, or all of a leaf's; the matching Lower  *)
(* action is the part after the accepts.  In between the visitor is a      *)
(* frame on the stack visits: kids are the trees of the operands visited   *)
(* so far, regs the values of lastReg_ that it has put aside.              *)
(*                                                                         *)
(* Only modules that SemanticAnalyzer accepts reach IRGen: scope holds the *)
(* names it has in scope.  kind is what the language takes the value of an *)
(* expression to be; where it may go is Fits, and Lang adds the uses that  *)
(* the code generator is known not to support.                             *)
(***************************************************************************)
EXTENDS Integers, Sequences, FiniteSets

CONSTANTS
  Pools,    \* families of modules, one of which is chosen at the start
  Lang      \* uses beyond those of the families: kinds, and the flags below

\* The kinds of values.
Kinds == {"int", "text", "real", "array", "address", "none", "symbol", "opaque"}

InSeq(s) == {s[i] : i \in DOMAIN s}
IsSeq(s) == s \in Seq(InSeq(s))

\* What a family fixes: the declarations of a module, with two bounds for each
\* function, on its statements and on its expression nodes; and the literals,
\* names, operators and forms of the expressions.  No declaration is nameless.
ASSUME PoolsAssumption ==
  \A p \in Pools :
    /\ IsSeq(p.module)
    /\ \A l \in p.literals : l.kind \in Kinds
    /\ \A d \in InSeq(p.module) :
         /\ d.name # ""
         /\ d.node = "fn" => IsSeq(d.params) /\ d.stmts \in Nat /\ d.nodes \in Nat \ {0}

VARIABLES
  pool,     \* the family
  decls,    \* the declarations of the module still to be visited
  done,     \* functions_ of module_
  fn,       \* fn_, or NoFunction while the builder has no active function
  slots,    \* varSlots_: a name's alloca register, for the names that have one
  last,     \* lastReg_
  visits,   \* suspended visitors, innermost last
  scope,    \* local name -> kind of its value, for the names in scope
  left,     \* expression nodes that the current function may still have
  stage     \* "module", "aborted" or "generated"

genVars == <<pool, decls, done, fn, slots, last, visits, scope, left, stage>>

NoReg == 0
NoFunction == [name |-> "", params |-> <<>>, returns |-> FALSE, code |-> <<>>,
               regs |-> 0, body |-> <<>>]

\* An instruction: result, register operands (of param, the index), and the
\* immediate, the name of a slot, a symbol or a callee.
Instr(op, dest, args, sym, imm) ==
  [op |-> op, dest |-> dest, args |-> args, sym |-> sym, imm |-> imm]

\* IRBuilder::append, and with a result in a fresh register
Emit(f, instr) == [f EXCEPT !.code = Append(@, instr)]
Value(f, op, args, sym, imm) ==
  [Emit(f, Instr(op, f.regs + 1, args, sym, imm)) EXCEPT !.regs = @ + 1]

(***************************************************************************)
(* binaryOpToOpcode, unaryOpToOpcode and the operators of compound         *)
(* assignments.                                                            *)
(***************************************************************************)
Arithmetic  == {"+", "-", "*", "/", "%"}
Comparison  == {"==", "!=", "<", ">", "<=", ">="}
Logical     == {"&&", "||"}
Bitwise     == {"&", "|", "^", "<<", ">>"}
Binaries    == Arithmetic \cup Comparison \cup Logical \cup Bitwise
Compounds   == Arithmetic \cup {"&", "|", "^"}

binaryOpToOpcode(o) ==
  CASE o = "+" -> "add" [] o = "-" -> "sub" [] o = "*" -> "mul"
    [] o = "/" -> "div" [] o = "%" -> "mod" [] o = "==" -> "ceq"
    [] o = "!=" -> "cne" [] o = "<" -> "clt" [] o = ">" -> "cgt"
    [] o = "<=" -> "cle" [] o = ">=" -> "cge" [] o = "&&" -> "land"
    [] o = "||" -> "lor" [] o = "&" -> "band" [] o = "|" -> "bor"
    [] o = "^" -> "bxor" [] o = "<<" -> "shl" [] o = ">>" -> "shr"

unaryOpToOpcode(o) ==
  CASE o = "-" -> "neg" [] o = "!" -> "lnot" [] o = "~" -> "bnot"

(***************************************************************************)
(* Trees and frames.  op is a node's operator, name the literal, name,     *)
(* member or callee it has; a frame is the node of a suspended visitor.    *)
(***************************************************************************)
Node(node, op, name, kids, kind) ==
  [node |-> node, op |-> op, name |-> name, kids |-> kids, kind |-> kind]
Frame(node, op, name, kind, need) ==
  [node |-> node, op |-> op, name |-> name, kind |-> kind, need |-> need,
   kids |-> <<>>, regs |-> <<>>]
Tree(f) == Node(f.node, f.op, f.name, f.kids, f.kind)

Builtins == {"print", "println", "eprint", "eprintln", "len", "sizeof",
             "exit", "escape", "wait"}
Bare     == {"exit", "escape", "wait"}
Indirect == ""     \* the name of a callee that is not an identifier

Top == visits[Len(visits)]
Pop == SubSeq(visits, 1, Len(visits) - 1)

\* A visitor goes on with its next operand, an array literal only when the
\* element before it is stored.
Expects == /\ stage = "module" /\ visits # <<>>
           /\ Len(Top.kids) < Top.need
           /\ Top.node = "array" => Len(Top.regs) = Len(Top.kids)
Complete == /\ stage = "module" /\ visits # <<>>
            /\ Len(Top.kids) = Top.need
            /\ Top.node = "array" => Len(Top.regs) = Top.need

\* Where a value may go: an integer anywhere but under *, any value to where
\* it is dropped, a string to print, an array literal under *.
Fits(kind) ==
  \/ kind = "int" /\ ~(Top.node = "unary" /\ Top.op = "*")
  \/ kind \in Lang
  \/ Top.node \in {"expr", "member"}
  \/ Top.node = "call" /\ Top.name \in {"print", "println"} /\ kind = "text"
  \/ Top.node = "unary" /\ Top.op = "*" /\ kind = "array"

\* Inside the right operand of && or ||, where nothing may have an effect.
InRight == \E i \in DOMAIN visits :
             visits[i].node = "binary" /\ visits[i].op \in Logical /\ visits[i].kids # <<>>
Effects == InRight => "eager" \in Lang

\* The visit of an expression node with n operands begins.
Visiting(node, kind, n) ==
  /\ Expects /\ node \in pool.forms /\ Fits(kind) /\ left >= n
  /\ left' = left - n
  /\ UNCHANGED <<pool, decls, done, slots, scope, stage>>
Suspend(f) == visits' = Append(visits, f) /\ UNCHANGED <<fn, last>>

\* The visit of a node ends with its value r in lastReg_; its parent puts
\* that aside before it visits anything else.
Taken(stack, tree, r) ==
  LET f == stack[Len(stack)]
  IN  [stack EXCEPT ![Len(stack)].kids = Append(@, tree),
                    ![Len(stack)].regs = IF f.node = "array" THEN @ ELSE Append(@, r)]
Leaf(f, r, tree) == fn' = f /\ last' = r /\ visits' = Taken(visits, tree, r)

\* The visitor of the top frame goes on after its last operand.
Lowering(node) ==
  /\ Complete /\ Top.node = node
  /\ UNCHANGED <<pool, decls, done, slots, scope, left, stage>>
Result(f, r) == fn' = f /\ last' = r /\ visits' = Taken(Pop, Tree(Top), r)

\* An instruction on the operands put aside, whose result is the value.
ResultOf(op, args, sym) == Result(Value(fn, op, args, sym, ""), fn.regs + 1)

(***************************************************************************)
(* visit(ModuleDecl) and visit(FunctionDecl).  A parameter is an alloca, a *)
(* param and a store; SemanticAnalyzer has every function of the module in *)
(* scope from the start.                                                   *)
(***************************************************************************)
Declared == {d.name : d \in InSeq(pool.module)}
Header(x) == CHOOSE i \in DOMAIN pool.module : pool.module[i].name = x

Init ==
  /\ pool \in Pools
  /\ decls = pool.module
  /\ done = <<>> /\ fn = NoFunction /\ slots = <<>> /\ last = NoReg
  /\ visits = <<>> /\ scope = <<>> /\ left = 0 /\ stage = "module"

ParamCode(params) ==
  [k \in 1 .. 3 * Len(params) |->
     LET i == (k + 2) \div 3
     IN  CASE k % 3 = 1 -> Instr("alloca", 2 * i - 1, <<>>, params[i], "")
           [] k % 3 = 2 -> Instr("param", 2 * i, <<i>>, "", "")
           [] OTHER     -> Instr("store", NoReg, <<2 * i, 2 * i - 1>>, "", "")]

Position(s, x) == CHOOSE i \in DOMAIN s : s[i] = x

\* Mutation of VisitFunctionDecl: varSlots_ is not cleared.
FunctionKeepsSlots ==
  /\ stage = "module" /\ fn.name = "" /\ decls # <<>> /\ decls[1].node = "fn"
  /\ LET d == decls[1]
         own == [x \in InSeq(d.params) |-> 2 * Position(d.params, x) - 1]
     IN  /\ fn' = [name |-> d.name, params |-> d.params, returns |-> d.returns,
                   code |-> ParamCode(d.params), regs |-> 2 * Len(d.params), body |-> <<>>]
         /\ slots' = [x \in DOMAIN slots \cup DOMAIN own |->
                        IF x \in DOMAIN own THEN own[x] ELSE slots[x]]
         /\ scope' = [x \in InSeq(d.params) |-> "int"]
  /\ left' = decls[1].nodes - 1
  /\ UNCHANGED <<pool, decls, done, last, visits, stage>>

VisitFunctionDecl ==
  /\ stage = "module" /\ fn.name = "" /\ decls # <<>> /\ decls[1].node = "fn"
  /\ LET d == decls[1]
     IN  /\ fn' = [name |-> d.name, params |-> d.params, returns |-> d.returns,
                   code |-> ParamCode(d.params), regs |-> 2 * Len(d.params), body |-> <<>>]
         /\ slots' = [x \in InSeq(d.params) |-> 2 * Position(d.params, x) - 1]
         /\ scope' = [x \in InSeq(d.params) |-> "int"]
  /\ left' = decls[1].nodes - 1
  /\ UNCHANGED <<pool, decls, done, last, visits, stage>>

\* visit(VarDecl) of a global: newReg asserts that a function is active.
VisitGlobal ==
  /\ stage = "module" /\ fn.name = "" /\ decls # <<>> /\ decls[1].node = "var"
  /\ stage' = "aborted"
  /\ UNCHANGED <<pool, decls, done, fn, slots, last, visits, scope, left>>

Returned == fn.body # <<>> /\ fn.body[Len(fn.body)].node = "return"

\* The end of visit(FunctionDecl): a bare ret unless the block, which is the
\* dead one behind a return, has a terminator.  TypeChecker requires a return
\* of a function with a return type.
EndFunction ==
  /\ stage = "module" /\ fn.name # "" /\ visits = <<>>
  /\ fn.returns = Returned
  /\ done' = Append(done, Emit(fn, Instr("ret", NoReg, <<>>, "", "")))
  /\ fn' = NoFunction
  /\ decls' = Tail(decls)
  /\ UNCHANGED <<pool, slots, last, visits, scope, left, stage>>

EndModule ==
  /\ stage = "module" /\ fn.name = "" /\ decls = <<>>
  /\ stage' = "generated"
  /\ UNCHANGED <<pool, decls, done, fn, slots, last, visits, scope, left>>

(***************************************************************************)
(* Statements.  A function that returns keeps the room for its return.     *)
(***************************************************************************)
Statement(node, f) ==
  /\ stage = "module" /\ fn.name # "" /\ visits = <<>>
  /\ node \in pool.forms /\ ~Returned
  /\ IF fn.returns /\ node = "return" THEN left' = left
     ELSE /\ left >= 1 /\ left' = left - 1
          /\ Len(fn.body) + (IF fn.returns THEN 1 ELSE 0) < decls[1].stmts
  /\ visits' = <<f>>
  /\ UNCHANGED <<pool, decls, done, last, scope, stage>>
EndStatement(node) ==
  /\ Complete /\ Len(visits) = 1 /\ Top.node = node
  /\ visits' = <<>>
  /\ UNCHANGED <<pool, decls, done, last, left, stage>>
Also(tree) == [fn EXCEPT !.body = Append(@, tree)]

\* visit(VarDecl): the slot is allocated and bound before the initialiser.
VisitVarDecl(x) ==
  /\ x \notin DOMAIN scope
  /\ Statement("let", [Frame("let", "", x, "", 1) EXCEPT !.regs = <<fn.regs + 1>>])
  /\ fn' = Value(fn, "alloca", <<>>, x, "")
  /\ slots' = [y \in DOMAIN slots \cup {x} |-> IF y = x THEN fn.regs + 1 ELSE slots[y]]
EndVarDecl ==
  /\ EndStatement("let")
  /\ fn' = Emit(Also(Tree(Top)), Instr("store", NoReg, <<last, Top.regs[1]>>, "", ""))
  /\ scope' = [y \in DOMAIN scope \cup {Top.name} |->
                 IF y = Top.name THEN Top.kids[1].kind ELSE scope[y]]
  /\ UNCHANGED slots

VisitExprStmt == Statement("expr", Frame("expr", "", "", "", 1)) /\ UNCHANGED <<fn, slots>>
EndExprStmt ==
  /\ EndStatement("expr") /\ fn' = Also(Tree(Top)) /\ UNCHANGED <<slots, scope>>

\* visit(ReturnStmt): buildRet takes NoReg for no value; what follows is in a
\* block of its own.
VisitReturn ==
  /\ fn.returns
  /\ Statement("return", Frame("return", "", "", "", 1)) /\ UNCHANGED <<fn, slots>>
EndReturn ==
  /\ EndStatement("return")
  /\ LET value == IF last = NoReg THEN <<>> ELSE <<last>>
     IN  fn' = Emit(Emit(Also(Tree(Top)), Instr("ret", NoReg, value, "", "")),
                    Instr("block", NoReg, <<>>, "after_ret", ""))
  /\ UNCHANGED <<slots, scope>>

(***************************************************************************)
(* Literals and identifiers.                                               *)
(***************************************************************************)
VisitLiteral(l) ==
  /\ Visiting("literal", l.kind, 0)
  /\ Leaf(Value(fn, "copy", <<>>, l.text, l.imm), fn.regs + 1,
          Node("literal", "", l.text, <<>>, l.kind))

\* visit(IdentExpr): exit, escape and wait, whatever they name, are a call;
\* for the rest, a load of the name's slot, or of the name.
LoadOf(x) == IF x \in Bare THEN Value(fn, "call", <<>>, x, "")
             ELSE IF x \in DOMAIN slots THEN Value(fn, "load", <<slots[x]>>, "", "")
             ELSE Value(fn, "load", <<>>, x, "")
VisitVariable(x) ==
  /\ x \in DOMAIN scope
  /\ Visiting("ident", scope[x], 0)
  /\ Leaf(LoadOf(x), fn.regs + 1, Node("ident", "", x, <<>>, scope[x]))

\* of the builtins exit, escape and wait
VisitBare(x) ==
  /\ x \in Bare /\ x \notin DOMAIN scope /\ Effects
  /\ Visiting("bare", "none", 0)
  /\ Leaf(LoadOf(x), fn.regs + 1, Node("call", "", x, <<>>, "none"))

\* of a function or an imported module
VisitSymbol(x) ==
  /\ x \in Declared \cup pool.imports /\ x \notin DOMAIN scope
  /\ Visiting("symbol", "symbol", 0)
  /\ Leaf(LoadOf(x), fn.regs + 1, Node("symbol", "", x, <<>>, "symbol"))

(***************************************************************************)
(* Operators.                                                              *)
(***************************************************************************)
VisitBinary(o) ==
  /\ o \in pool.binaries
  /\ o \in {"/", "%"} => Effects
  /\ Visiting("binary", "int", 2)
  /\ Suspend(Frame("binary", o, "", "int", 2))

\* Mutation of LowerBinary: the value of the left operand is not put aside.
LowerBinaryLate ==
  /\ Lowering("binary")
  /\ ResultOf(binaryOpToOpcode(Top.op), <<last, Top.regs[2]>>, "")

LowerBinary ==
  /\ Lowering("binary")
  /\ ResultOf(binaryOpToOpcode(Top.op), <<Top.regs[1], Top.regs[2]>>, "")

VisitUnary(o) ==
  /\ o \in pool.unaries
  /\ o = "*" => left >= 2
  /\ LET kind == IF o = "&" THEN "address" ELSE "int"
     IN  Visiting("unary", kind, 1) /\ Suspend(Frame("unary", o, "", kind, 1))
LowerUnary ==
  /\ Lowering("unary")
  /\ IF Top.op = "*" THEN ResultOf("load", <<Top.regs[1]>>, "")
     ELSE IF Top.op = "&" THEN Result(fn, Top.regs[1])
     ELSE ResultOf(unaryOpToOpcode(Top.op), <<Top.regs[1]>>, "")

\* visit(AssignExpr): a compound assignment loads its target first.  A target
\* that is not an identifier is not stored to.
NoName == ""
VisitAssign(o, x) ==
  /\ o \in pool.assigns /\ Effects
  /\ x \in DOMAIN scope \/ (x = NoName /\ "target" \in Lang)
  /\ LET f == Frame("assign", o, x, "int", IF o = "=" THEN 1 ELSE 2)
         r == fn.regs + 1
     IN  IF o = "=" \/ x = NoName
         THEN Visiting("assign", "int", f.need) /\ Suspend(f)
         ELSE /\ Visiting("assign", "int", 1)
              /\ fn' = LoadOf(x)
              /\ last' = r
              /\ visits' = Taken(Append(visits, f), Node("ident", "", x, <<>>, scope[x]), r)

LowerAssign ==
  /\ Lowering("assign")
  /\ LET plain == Top.op = "="
         f == IF plain THEN fn ELSE Value(fn, binaryOpToOpcode(Top.op), Top.regs, "", "")
         v == IF plain THEN Top.regs[1] ELSE fn.regs + 1
     IN  Result(IF Top.name \in DOMAIN slots
                THEN Emit(f, Instr("store", NoReg, <<v, slots[Top.name]>>, "", "")) ELSE f, v)

(***************************************************************************)
(* Members, indices and casts: placeholders that evaluate their operands.  *)
(***************************************************************************)
VisitMember(m) ==
  Visiting("member", "opaque", 1) /\ Suspend(Frame("member", "", m, "opaque", 1))
LowerMember == Lowering("member") /\ ResultOf("load", <<>>, Top.name)

VisitIndex == Visiting("index", "opaque", 2) /\ Suspend(Frame("index", "", "", "opaque", 2))
LowerIndex == Lowering("index") /\ ResultOf("add", Top.regs, "")

\* A cast to a narrower type, which is to truncate, or to another.
VisitCast(o) ==
  /\ o = "narrow" => "narrow" \in Lang
  /\ Visiting("cast", "int", 1) /\ Suspend(Frame("cast", o, "", "int", 1))
LowerCast == Lowering("cast") /\ ResultOf("cast", Top.regs, "?")

(***************************************************************************)
(* Array literals: each element is stored, when it is evaluated, to a slot *)
(* of its own; the value is the first slot.                                *)
(***************************************************************************)
VisitArray(n) ==
  /\ n \in pool.lengths
  /\ n = 0 /\ visits # <<>> => Top.node # "unary" \/ "empty" \in Lang
  /\ Visiting("array", "array", n) /\ Suspend(Frame("array", "", "", "array", n))

Element == <<"__arr_0", "__arr_1", "__arr_2">>
StoreElement ==
  /\ stage = "module" /\ visits # <<>> /\ Top.node = "array"
  /\ Len(Top.regs) < Len(Top.kids)
  /\ LET slot == fn.regs + 1
     IN  /\ fn' = Emit(Value(fn, "alloca", <<>>, Element[Len(Top.kids)], ""),
                       Instr("store", NoReg, <<last, slot>>, "", ""))
         /\ visits' = [visits EXCEPT ![Len(visits)].regs = Append(@, slot)]
  /\ UNCHANGED <<pool, decls, done, slots, last, scope, left, stage>>

LowerArray ==
  Lowering("array") /\ Result(fn, IF Top.need = 0 THEN NoReg ELSE Top.regs[1])

(***************************************************************************)
(* Calls.  SemanticAnalyzer counts the arguments of a function of the      *)
(* module that has parameters, and of no other.                            *)
(***************************************************************************)
\* What the documents let a program call: functions of the module (here, the
\* ones visited so far) and the builtins that are lowered.
Callable(x, n) ==
  \/ /\ x \in Declared
     /\ Header(x) > Len(done) + 1 => "forward" \in Lang
     /\ LET ps == pool.module[Header(x)].params
        IN  n = Len(ps) \/ (ps = <<>> /\ "overargs" \in Lang)
  \/ x \in {"print", "println"} /\ (n = 1 \/ "printargs" \in Lang)
  \/ x \in {"exit", "escape", "wait"} /\ n <= 1
  \/ x \in Builtins /\ "builtins" \in Lang
  \/ x = Indirect /\ n >= 1 /\ "indirect" \in Lang

ResultKind(x) ==
  IF x \in Declared THEN (IF pool.module[Header(x)].returns THEN "int" ELSE "none")
  ELSE "none"

\* The callee is visited when it is not an identifier: operand 1, then, whose
\* register gives the call a name (bound: those of one digit are told apart).
Percent == <<"%0", "%1", "%2", "%3", "%4", "%5", "%6", "%7", "%8", "%9">>
Through(r) == IF r + 1 \in DOMAIN Percent THEN Percent[r + 1] ELSE "%"

VisitCall(x, n) ==
  /\ x \in pool.callees /\ Callable(x, n) /\ Effects
  /\ Visiting("call", ResultKind(x), n)
  /\ Suspend(Frame("call", "", x, ResultKind(x), n))

LowerCall ==
  /\ Lowering("call")
  /\ IF Top.name = Indirect THEN ResultOf("call", Tail(Top.regs), Through(Top.regs[1]))
     ELSE ResultOf("call", Top.regs, Top.name)

-----------------------------------------------------------------------------
GenNext ==
  \/ VisitFunctionDecl \/ EndFunction \/ VisitGlobal \/ EndModule
  \/ \E x \in pool.names : VisitVarDecl(x)
  \/ EndVarDecl \/ VisitExprStmt \/ EndExprStmt \/ VisitReturn \/ EndReturn
  \/ \E l \in pool.literals : VisitLiteral(l)
  \/ \E x \in pool.names : VisitVariable(x)
  \/ \E x \in Bare : VisitBare(x)
  \/ \E x \in Declared \cup pool.imports : VisitSymbol(x)
  \/ \E o \in Binaries : VisitBinary(o)
  \/ \E o \in {"-", "!", "~", "*", "&"} : VisitUnary(o)
  \/ LowerBinary \/ LowerUnary
  \/ \E o \in Compounds \cup {"="}, x \in pool.names \cup {NoName} : VisitAssign(o, x)
  \/ LowerAssign
  \/ \E m \in pool.members : VisitMember(m)
  \/ LowerMember \/ VisitIndex \/ LowerIndex
  \/ \E o \in {"", "narrow"} : VisitCast(o)
  \/ LowerCast
  \/ \E n \in 0 .. Len(Element) : VisitArray(n)
  \/ StoreElement \/ LowerArray
  \/ \E x \in Declared \cup Builtins \cup {Indirect}, n \in 0 .. 2 : VisitCall(x, n)
  \/ LowerCall

GenSpec == Init /\ [][GenNext]_genVars

-----------------------------------------------------------------------------
Opcodes == {binaryOpToOpcode(o) : o \in Binaries} \cup {"neg", "lnot", "bnot"}
             \cup {"alloca", "param", "load", "store", "copy", "cast", "call", "ret", "block"}

\* The names in the IR: those of a program and those that IRGen makes up.
NamesOf(p) ==
  LET fns == {d \in InSeq(p.module) : d.node = "fn"}
  IN  p.names \cup p.imports \cup p.members \cup {l.text : l \in p.literals}
        \cup {d.name : d \in InSeq(p.module)} \cup UNION {InSeq(d.params) : d \in fns}
Names == {"", "?", "%", "after_ret"} \cup Builtins \cup InSeq(Element) \cup InSeq(Percent)
           \cup UNION {NamesOf(p) : p \in Pools}
Immediates == {""} \cup UNION {{l.imm : l \in p.literals} : p \in Pools}
InstrType == [op : Opcodes, dest : Nat, args : Seq(Nat), sym : Names, imm : Immediates]

TypeOK ==
  /\ pool \in Pools
  /\ stage \in {"module", "aborted", "generated"}
  /\ last \in Nat /\ left \in Nat
  /\ fn.regs \in Nat /\ fn.code \in Seq(InstrType)
  /\ fn.name = "" => visits = <<>>
  /\ \A k \in DOMAIN done : done[k].code \in Seq(InstrType)
  /\ \A x \in DOMAIN scope : scope[x] \in Kinds
  /\ fn.name # "" => \A x \in DOMAIN slots : slots[x] \in 1 .. fn.regs
  /\ \A k \in DOMAIN visits : /\ visits[k].regs \in Seq(Nat)
                              /\ Len(visits[k].kids) <= visits[k].need
                              /\ k > 1 => visits[k].kind \in Kinds

(***************************************************************************)
(* Every register that an instruction reads is the result of an            *)
(* instruction before it: no value is lost or taken from another function  *)
(* between the visitor that makes it and the one that uses it, through     *)
(* lastReg_, the locals of the visitors and varSlots_.                     *)
(***************************************************************************)
DefinedBefore(code) ==
  \A k \in DOMAIN code : code[k].op # "param" =>
    \A a \in DOMAIN code[k].args :
      \E j \in 1 .. k - 1 : code[j].dest = code[k].args[a] /\ code[j].dest # NoReg
OperandsDefined ==
  /\ DefinedBefore(fn.code)
  /\ \A k \in DOMAIN done : DefinedBefore(done[k].code)
=============================================================================
