------------------------------- MODULE IRUses -------------------------------
(***************************************************************************)
(* What the registers of a finished function stand for: where control      *)
(* goes between its blocks, whether a register is defined wherever it is   *)
(* used, and which slot every use of a name reads or writes.               *)
(***************************************************************************)
EXTENDS IRGen

\* Control falls through a block up to its first terminator or call of exit.
Stops == Terminators \cup {"exit", "unreachable"}
Live(block) ==
  LET at == {i \in DOMAIN block.instrs : block.instrs[i].op \in Stops}
  IN  IF at = {} THEN block.instrs
      ELSE SubSeq(block.instrs, 1, CHOOSE i \in at : \A j \in at : i <= j)
EndsWith(block, ops) == Live(block) # <<>> /\ Live(block)[Len(Live(block))].op \in ops
Targets(block) ==
  IF EndsWith(block, Terminators)
  THEN LET t == Live(block)[Len(Live(block))].to IN {t[i] : i \in DOMAIN t} ELSE {}

(***************************************************************************)
(* Registers and names.  Dominance is decided on the graph of the blocks.  *)
(***************************************************************************)
Branches(blocks) ==
  UNION {{<<j, k>> : k \in {b \in DOMAIN blocks : blocks[b].label \in Targets(blocks[j])}} :
         j \in DOMAIN blocks}
\* The blocks that control gets to from the entry, in at most n branches for
\* each n up to their number, on paths that do not enter cut.
BlocksReached(branches, count, cut) ==
  LET within[n \in 0 .. count] ==
        IF n = 0 THEN {1}
        ELSE LET S == within[n - 1]
             IN  S \cup {b[2] : b \in {c \in branches : c[1] \in S \ cut /\ c[2] \notin cut}}
  IN  within[count]

Args(instr) == {instr.args[a] : a \in DOMAIN instr.args}
Defines(block) == {block.instrs[i].dest : i \in DOMAIN block.instrs}

UsesDominated(blocks) ==
  LET branches == Branches(blocks)
      reached  == BlocksReached(branches, Len(blocks), {})
      above    == UNION {{d} \X (reached \ (BlocksReached(branches, Len(blocks), {d}) \cup {d})) :
                         d \in reached}
  IN  \A k \in reached :
        LET live    == Live(blocks[k])
            defined == UNION {Defines(blocks[d]) : d \in {c \in reached : <<c, k>> \in above}}
        IN  \A i \in DOMAIN live :
              Args(live[i]) \subseteq defined \cup {live[j].dest : j \in 1 .. i - 1} \cup {NoReg}

(***************************************************************************)
(* A register is used only where it has been defined on every path from    *)
(* the entry, so LLVM's verifier finds that definitions dominate uses:     *)
(* the slots of parameters and locals, although varSlots_ outlives the     *)
(* scopes it was filled in; the subject of a match in every arm; the       *)
(* counter and iterator slots of loops across their bodies.                *)
(***************************************************************************)
DefinitionsDominate == phase = "done" => UsesDominated(ir.blocks)

Instructions == UNION {{ir.blocks[k].instrs[i] : i \in DOMAIN ir.blocks[k].instrs} :
                       k \in DOMAIN ir.blocks}

(***************************************************************************)
(* Every read of a name loads the slot of the declaration that             *)
(* SemanticAnalyzer resolved the name to (docs/grammar.md:312-313, scopes  *)
(* and shadowing), although IRGen keeps one flat map of names per function.*)
(***************************************************************************)
ReadsResolved ==
  phase = "done" => \A read \in reads :
    \E instr \in Instructions :
      instr.op = "load" /\ instr.dest = read[1] /\ instr.args = <<read[2]>>

(***************************************************************************)
(* Every assignment stores its value to the slot of the variable that      *)
(* SemanticAnalyzer resolved, or declared, the target to.                  *)
(***************************************************************************)
WritesResolved ==
  phase = "done" => \A w \in writes :
    \E instr \in Instructions : instr.op = "store" /\ instr.args = w

\* Names go to the slots of their declarations, for reading and for writing.
NamesResolved == ReadsResolved /\ WritesResolved

=============================================================================
