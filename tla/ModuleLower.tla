----------------------------- MODULE ModuleLower -----------------------------
(***************************************************************************)
(* Lowering of a module of straight-line functions to an LLVM module:      *)
(* LLVMCodeGenerator::lower and FunctionLowering's emit                    *)
(* (src/codegen/LLVMCodeGenerator.cpp), composed with ExprGen.             *)
(*                                                                         *)
(* A value of LLVM has a type and is named by the IR register that it was  *)
(* made for; undef is an i64.  A symbol of the LLVM module has a           *)
(* signature, and a body when a function of the module was lowered to it.  *)
(***************************************************************************)
EXTENDS ExprGen

VARIABLES
  syms,     \* the symbols of the LLVM module: name -> signature
  bodies,   \* the lowered functions: symbol, LLVM code, value of each register
  verdict   \* "none", "accepted" or "rejected"

llVars  == <<syms, bodies, verdict>>
modVars == <<genVars, llVars>>

Val(type, id) == [type |-> type, id |-> id]
Undef == Val("i64", NoReg)
LL(op, id, args, sym) == [op |-> op, id |-> id, args |-> args, sym |-> sym]
Sym(params, ret, body) == [params |-> params, ret |-> ret, body |-> body]

\* resolve: a register without a value is undef.
Resolve(e, r) == IF r \in DOMAIN e.regs THEN e.regs[r] ELSE Undef
Bind(e, r, v) ==
  [e EXCEPT !.regs = [q \in DOMAIN @ \cup {r} |-> IF q = r THEN v ELSE e.regs[q]]]
Do(e, instr) == [e EXCEPT !.code = Append(@, instr)]
Make(e, r, type, op, args, sym) == Bind(Do(e, LL(op, r, args, sym)), r, Val(type, r))

\* getOrInsertFunction
Insert(e, name, sym) ==
  IF name \in DOMAIN e.syms THEN e
  ELSE [e EXCEPT !.syms = [x \in DOMAIN @ \cup {name} |-> IF x = name THEN sym ELSE e.syms[x]]]

LLTerminators == {"ret", "unreachable"}
Terminated(code) == code # <<>> /\ code[Len(code)].op \in LLTerminators

LLVMOp(op) ==
  CASE op = "div" -> "sdiv" [] op = "mod" -> "srem" [] op = "band" -> "and"
    [] op = "bor" -> "or" [] op = "bxor" -> "xor" [] op = "shr" -> "ashr"
    [] op = "ceq" -> "eq" [] op = "cne" -> "ne" [] op = "clt" -> "slt"
    [] op = "cgt" -> "sgt" [] op = "cle" -> "sle" [] op = "cge" -> "sge"
    [] op = "bnot" -> "not"
    [] OTHER -> op
IntOps == {"add", "sub", "mul", "sdiv", "srem", "and", "or", "xor", "shl", "ashr", "neg", "not"}
Compares == {"eq", "ne", "slt", "sgt", "sle", "sge"}
Truths == {"land", "lor", "lnot"}

\* The type of the constant that an immediate is resolved to.
ImmType(imm) == CASE imm = "string" -> "ptr" [] imm = "float" -> "double" [] OTHER -> "i64"

\* Mutation of Printing: println is not among the builtins.
PrintingOnlyPrint(i) == i.sym = "print" /\ Len(i.args) = 1
Printing(i) == i.sym \in {"print", "println"} /\ Len(i.args) = 1

\* case Opcode::Call.  exit, escape and wait have a default for their operand,
\* here told by the symbol's operands being empty; a printf is told by the
\* type of its operand; any other callee is a function that the LLVM module
\* has, or is declared.
EmitCall(e, i, args) ==
  IF i.sym \in {"exit", "escape"} THEN
    Do(Do(Insert(e, "exit", Sym(1, "void", FALSE)), LL("exit", NoReg, args, i.sym)),
       LL("unreachable", NoReg, <<>>, ""))
  ELSE IF i.sym = "wait" THEN
    Do(Insert(e, "usleep", Sym(1, "i32", FALSE)), LL("usleep", NoReg, args, ""))
  ELSE IF Printing(i) THEN
    Do(Insert(e, "printf", Sym(1, "i32", FALSE)),
       LL("printf", NoReg, args, IF args[1].type = "ptr" THEN "%s" ELSE "%lld"))
  ELSE
    LET f == Insert(e, i.sym, Sym(Len(args), "i64", FALSE))
    IN  IF f.syms[i.sym].ret = "void" THEN Do(f, LL("call", NoReg, args, i.sym))
        ELSE Make(f, i.dest, "i64", "call", args, i.sym)

\* emit: one IR instruction; the loop of lower() leaves out those behind a
\* terminator, and a block of the IR begins a block.
emit(e, i) ==
  LET args == [a \in DOMAIN i.args |-> Resolve(e, i.args[a])]
  IN  CASE i.op = "block" -> Do(e, LL("block", NoReg, <<>>, ""))
        [] i.op # "block" /\ Terminated(e.code) -> e
        [] OTHER ->
           CASE i.op = "alloca" -> Make(e, i.dest, "ptr", "alloca", <<>>, i.sym)
             [] i.op = "param" -> Make(e, i.dest, "i64", "arg", i.args, "")
             [] i.op = "load" -> IF args = <<>> THEN Bind(e, i.dest, Undef)
                                 ELSE Make(e, i.dest, "i64", "load", args, "")
             [] i.op = "store" -> Do(e, LL("store", NoReg, args, ""))
             [] i.op = "copy" -> Make(e, i.dest, ImmType(i.imm), "const", <<>>, i.sym)
             [] i.op = "cast" -> Bind(e, i.dest, args[1])
             [] i.op = "call" -> EmitCall(e, i, args)
             [] i.op = "ret" ->
                  Do(e, IF e.ret = "void" THEN LL("ret", NoReg, <<>>, "")
                        ELSE IF args = <<>> THEN LL("unreachable", NoReg, <<>>, "")
                        ELSE LL("ret", NoReg, args, ""))
             [] LLVMOp(i.op) \in IntOps ->
                  Make(e, i.dest, args[1].type, LLVMOp(i.op), args, "")
             [] OTHER -> Make(e, i.dest, "i64", LLVMOp(i.op), args, "")

\* The loop over the instructions of a function.
EmitAll(e, code) ==
  LET emitted[k \in 0 .. Len(code)] == IF k = 0 THEN e ELSE emit(emitted[k - 1], code[k])
  IN  emitted[Len(code)]

\* Mutation of countParams: the slots are counted.
countSlots(f)     == Cardinality({k \in DOMAIN f.code : f.code[k].op = "alloca"})
countParams(f)    == Cardinality({k \in DOMAIN f.code : f.code[k].op = "param"})
hasReturnValue(f) == \E k \in DOMAIN f.code : f.code[k].op = "ret" /\ f.code[k].args # <<>>

-----------------------------------------------------------------------------
ModInit == Init /\ syms = <<>> /\ bodies = <<>> /\ verdict = "none"

\* One round of the loop of LLVMCodeGenerator::lower: createFunction, which
\* gives the function another name when the module has a symbol of its own,
\* and the emission of its code.
LowerFunction ==
  /\ stage = "generated" /\ verdict = "none" /\ Len(bodies) < Len(done)
  /\ LET f    == done[Len(bodies) + 1]
         ret  == IF hasReturnValue(f) THEN "i64" ELSE "void"
         name == IF f.name \in DOMAIN syms THEN f.name \o ".1" ELSE f.name
         made == Insert([syms |-> syms, code |-> <<>>, regs |-> <<>>, ret |-> ret],
                        name, Sym(countParams(f), ret, TRUE))
         e    == EmitAll(made, f.code)
     IN  /\ syms' = e.syms
         /\ bodies' = Append(bodies, [name |-> name, code |-> e.code])
  /\ UNCHANGED <<genVars, verdict>>

(***************************************************************************)
(* llvm::verifyModule, external: operands have the types that their        *)
(* instruction takes, and calls the signature of their callee.             *)
(***************************************************************************)
Types(args) == {args[a].type : a \in DOMAIN args}
Valid(instr) ==
  CASE instr.op \in IntOps \cup Truths \cup {"exit", "usleep", "ret"} ->
         Types(instr.args) \subseteq {"i64"}
    [] instr.op \in Compares -> Types(instr.args) \in {{"i64"}, {"ptr"}}
    [] instr.op = "load"   -> instr.args[1].type = "ptr"
    [] instr.op = "store"  -> instr.args[2].type = "ptr"
    [] instr.op = "printf" -> Types(instr.args) \subseteq {"i64", "ptr"}
    [] instr.op = "call"   -> /\ Len(instr.args) = syms[instr.sym].params
                              /\ Types(instr.args) \subseteq {"i64"}
    [] OTHER -> TRUE

VerifyModule ==
  /\ stage = "generated" /\ verdict = "none" /\ Len(bodies) = Len(done)
  /\ verdict' = IF \A b \in DOMAIN bodies : \A k \in DOMAIN bodies[b].code :
                     Valid(bodies[b].code[k])
                THEN "accepted" ELSE "rejected"
  /\ UNCHANGED <<genVars, syms, bodies>>

ModNext ==
  \/ GenNext /\ UNCHANGED llVars
  \/ LowerFunction
  \/ VerifyModule
  \/ (stage = "aborted" \/ verdict # "none") /\ UNCHANGED modVars

ModSpec == ModInit /\ [][ModNext]_modVars

-----------------------------------------------------------------------------
(***************************************************************************)
(* The modules whose constructs the code generator supports: no use that   *)
(* Lang could add but for effects under &&, targets that are no names and  *)
(* casts to narrower types; functions that have names of their own, none   *)
(* of the builtins' nor of the C library's; no variable or import called   *)
(* exit, escape or wait; literals of the type that their form gives them.  *)
(***************************************************************************)
CSymbols == {"exit", "usleep", "printf"}
Printers == {"print", "println"}
Supported ==
  /\ Lang \subseteq {"eager", "target", "narrow"}
  /\ \A p \in Pools :
       /\ \A h, k \in DOMAIN p.module : p.module[h].name = p.module[k].name => h = k
       /\ \A d \in InSeq(p.module) : d.name \notin Builtins \cup CSymbols
       /\ (p.names \cup p.imports) \cap Bare = {}
       /\ \A l \in p.literals : /\ l.kind \in {"int", "text", "real"}
                                /\ l.kind = "int" => ImmType(l.imm) = "i64"
                                /\ l.kind = "text" => ImmType(l.imm) = "ptr"

(***************************************************************************)
(* A module that SemanticAnalyzer accepted is accepted by LLVM's verifier: *)
(* every value has, where it is used, the type that the use needs.         *)
(***************************************************************************)
TypesKept == verdict # "rejected"

(***************************************************************************)
(* "Functions are pre-declared at module scope" (docs/grammar.md:314): a   *)
(* call of a function of the module is one of the symbol with its body,    *)
(* and a symbol without a body is one of the C library's that the code     *)
(* generator declares itself.                                              *)
(***************************************************************************)
CallsReachDefinitions ==
  verdict = "accepted" =>
    \A b \in DOMAIN bodies : \A k \in DOMAIN bodies[b].code :
      LET i == bodies[b].code[k]
      IN  /\ i.op = "call" => syms[i.sym].body
          /\ i.op \in {"exit", "printf", "usleep"} => ~syms[i.op].body
=============================================================================
