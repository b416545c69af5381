----------------------------- MODULE LLVMLower -----------------------------
(***************************************************************************)
(* Lowering of a finished IR function to LLVM basic blocks: the class      *)
(* FunctionLowering and LLVMCodeGenerator::lower                           *)
(* (src/codegen/LLVMCodeGenerator.cpp), composed with IRGen.               *)
(*                                                                         *)
(* LLVM gives a second block of a name a fresh name and keeps both; the    *)
(* map from labels to blocks keeps the later one.  A branch of an LLVM     *)
(* block names the block itself, here by its position.                     *)
(***************************************************************************)
EXTENDS IRFlow

VARIABLES
  ll,        \* the function's LLVM blocks, each a sequence of instructions
  blockMap,  \* blocks: label -> position in ll
  regs,      \* regs: the registers that stand for an LLVM value
  next,      \* position of the IR block that lower() comes to next
  stage      \* "wait", "lowering", "verify", "accepted" or "rejected"

llVars    == <<ll, blockMap, regs, next, stage>>
lowerVars == <<allVars, llVars>>

\* hasReturnValue: some ret has an operand, so the function returns i64.
hasReturnValue ==
  \E instr \in Instructions : instr.op = "ret" /\ instr.args # <<>>

LowerInit ==
  /\ FlowInit
  /\ ll = <<>> /\ blockMap = <<>> /\ regs = {} /\ next = 1 /\ stage = "wait"

\* createFunction and createBlocks
CreateBlocks ==
  /\ stage = "wait" /\ phase = "done"
  /\ ll' = [k \in DOMAIN ir.blocks |-> <<>>]
  /\ blockMap' = [l \in BlockLabels |->
       CHOOSE k \in DOMAIN ir.blocks :
         /\ ir.blocks[k].label = l
         /\ \A j \in DOMAIN ir.blocks : ir.blocks[j].label = l => j <= k]
  /\ stage' = "lowering"
  /\ UNCHANGED <<allVars, regs, next>>

LLTerminators == {"ret", "br", "condbr", "unreachable"}
HasTerminator(code) == code # <<>> /\ code[Len(code)].op \in LLTerminators

LLInstr(op, dest, args, to) == [op |-> op, dest |-> dest, args |-> args, to |-> to]
\* Mutation of Implicit: no function returns when it falls off its end.
ImplicitUnreachable == LLInstr("unreachable", NoReg, <<>>, <<>>)

Implicit == IF hasReturnValue THEN LLInstr("unreachable", NoReg, <<>>, <<>>)
                              ELSE LLInstr("ret", NoReg, <<>>, <<>>)

\* resolve: a register that stands for no value becomes undef.
Resolve(known, args) == [a \in DOMAIN args |->
                           IF args[a] \in known THEN args[a] ELSE NoReg]

\* emit: the LLVM instructions of one IR instruction.  A named load is undef
\* and leaves no instruction; a bare ret in a function that returns a value
\* and the place after a call of exit are unreachable.
Emitted(instr, known) ==
  LET args == Resolve(known, instr.args)
      to   == [t \in DOMAIN instr.to |-> blockMap[instr.to[t]]]
  IN  CASE instr.op = "named" -> <<>>
        [] instr.op = "exit"  ->
             <<LLInstr("exit", instr.dest, args, <<>>),
               LLInstr("unreachable", NoReg, <<>>, <<>>)>>
        [] instr.op = "ret" /\ args = <<>> -> <<Implicit>>
        [] OTHER -> <<LLInstr(instr.op, instr.dest, args, to)>>

\* Mutation of EmitAll: a terminator does not end the block.
EmitOn(code, instrs, known) ==
  LET emitted[i \in 0 .. Len(instrs)] ==
        IF i = 0 THEN [code |-> code, known |-> known]
        ELSE LET before == emitted[i - 1]
             IN  [code  |-> before.code \o Emitted(instrs[i], before.known),
                  known |-> before.known \cup ({instrs[i].dest} \ {NoReg})]
  IN  emitted[Len(instrs)]

\* The loop over a block's instructions, up to its first terminator.
EmitAll(code, instrs, known) ==
  LET emitted[i \in 0 .. Len(instrs)] ==
        IF i = 0 THEN [code |-> code, known |-> known]
        ELSE LET before == emitted[i - 1]
             IN  IF HasTerminator(before.code) THEN before
                 ELSE [code  |-> before.code \o Emitted(instrs[i], before.known),
                       known |-> before.known \cup ({instrs[i].dest} \ {NoReg})]
  IN  emitted[Len(instrs)]

\* Mutation of LowerBlock: the registers are forgotten between blocks.
LowerBlockAlone ==
  /\ stage = "lowering" /\ next <= Len(ir.blocks)
  /\ LET block == ir.blocks[next]
         at    == blockMap[block.label]
         done  == EmitAll(ll[at], block.instrs, {})
     IN  /\ ll' = [ll EXCEPT ![at] = IF HasTerminator(done.code) THEN done.code
                                     ELSE Append(done.code, Implicit)]
         /\ regs' = done.known
  /\ next' = next + 1
  /\ stage' = IF next = Len(ir.blocks) THEN "verify" ELSE stage
  /\ UNCHANGED <<allVars, blockMap>>

\* One round of the loop of lower(): the block that the label stands for.
LowerBlock ==
  /\ stage = "lowering" /\ next <= Len(ir.blocks)
  /\ LET block == ir.blocks[next]
         at    == blockMap[block.label]
         done  == EmitAll(ll[at], block.instrs, regs)
     IN  /\ ll' = [ll EXCEPT ![at] = IF HasTerminator(done.code) THEN done.code
                                     ELSE Append(done.code, Implicit)]
         /\ regs' = done.known
  /\ next' = next + 1
  /\ stage' = IF next = Len(ir.blocks) THEN "verify" ELSE stage
  /\ UNCHANGED <<allVars, blockMap>>

(***************************************************************************)
(* llvm::verifyModule, external: every block ends in its one terminator,   *)
(* what memory is accessed through is a pointer (undef is an i64), and     *)
(* definitions dominate their uses.                                        *)
(***************************************************************************)
Pointer(instr) ==
  CASE instr.op \in {"load", "poll", "bump"} -> {instr.args[1]}
    [] instr.op = "store" -> {instr.args[2]}
    [] OTHER -> {}
LLBlocks == [k \in DOMAIN ll |-> [label |-> k, instrs |-> ll[k]]]
Verifies ==
  /\ \A k \in DOMAIN ll :
       /\ HasTerminator(ll[k])
       /\ \A i \in 1 .. Len(ll[k]) - 1 : ll[k][i].op \notin LLTerminators
       /\ \A i \in DOMAIN ll[k] : NoReg \notin Pointer(ll[k][i])
  /\ UsesDominated(LLBlocks)

VerifyModule ==
  /\ stage = "verify"
  /\ stage' = IF Verifies THEN "accepted" ELSE "rejected"
  /\ UNCHANGED <<allVars, ll, blockMap, regs, next>>

LowerNext ==
  \/ stage = "wait" /\ FlowNext /\ UNCHANGED llVars
  \/ CreateBlocks
  \/ LowerBlock
  \/ VerifyModule
  \/ stage \in {"accepted", "rejected"} /\ UNCHANGED lowerVars

LowerSpec == LowerInit /\ [][LowerNext]_lowerVars

-----------------------------------------------------------------------------
(***************************************************************************)
(* A function that SemanticAnalyzer accepted is accepted by LLVM's         *)
(* verifier: what emitIR returns false for, without a diagnostic, does not *)
(* happen.                                                                 *)
(***************************************************************************)
ModuleVerifies == stage # "rejected"

(***************************************************************************)
(* The LLVM blocks have the control flow that the body means, where        *)
(* falling off the end of a function that returns a value elsewhere is     *)
(* undefined (unreachable) instead of a return.                            *)
(***************************************************************************)
ToStop(edges) == {e \in edges : e[2] = F!Stop}
LoweredFlow ==
  stage = "accepted" =>
    LET lowered == Reached(BlockEdges(LLBlocks))
        meant   == Reached(flow.edges)
    IN  /\ lowered \ ToStop(lowered) = meant \ ToStop(meant)
        /\ ToStop(lowered) \subseteq meant
        /\ ~hasReturnValue => lowered = meant

(***************************************************************************)
(* "Every VCC RegID maps to one of" an alloca or a value                   *)
(* (LLVMCodeGenerator.cpp:37-40): resolve never falls back to undef.       *)
(* Lowering goes through the blocks in text order and drops what follows   *)
(* a terminator, so this needs every definition to be emitted, and before  *)
(* its uses in the text.                                                   *)
(***************************************************************************)
OperandsResolved ==
  \A k \in DOMAIN ll : \A i \in DOMAIN ll[k] : NoReg \notin Args(ll[k][i])
=============================================================================
