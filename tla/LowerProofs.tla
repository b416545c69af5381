---------------------------- MODULE LowerProofs ----------------------------
(***************************************************************************)
(* Proofs about LLVMLower: what IRGen emits is lowered without an          *)
(* unresolved operand, and LLVM's verifier accepts the result.             *)
(***************************************************************************)
EXTENDS LLVMLower, IRGenProofs, SequenceTheorems

-----------------------------------------------------------------------------
(***************************************************************************)
(* What lowering needs of the IR, beyond what IRGenProofs says of its      *)
(* uses: an instruction has its operands, none of them missing, and what   *)
(* follows a call of exit in a block has no result.                        *)
(***************************************************************************)
Proper(instr) ==
  /\ instr.op # "named" /\ NoReg \notin Args(instr)
  /\ instr.op \in {"load", "poll", "bump"} => Len(instr.args) = 1
  /\ instr.op = "store" => Len(instr.args) = 2
  /\ instr.op \in Terminators => instr.dest = NoReg
  /\ instr.op = "ret" => instr.to = <<>>
Exits(block) == {i \in 1 .. Len(block.instrs) : block.instrs[i].op = "exit"}
Trailing(block, i) == \A j \in i + 1 .. Len(block.instrs) : block.instrs[j].dest = NoReg
TidyBlock(block) ==
  /\ \A i \in 1 .. Len(block.instrs) : Proper(block.instrs[i])
  /\ \A i \in Exits(block) : Trailing(block, i)
Tidy(b) == \A k \in 1 .. Len(b.blocks) : TidyBlock(b.blocks[k])
Calm(b) == Exits(b.blocks[Len(b.blocks)]) = {}
ExitLast(b) ==
  \A i \in Exits(b.blocks[Len(b.blocks)]) : i = Len(b.blocks[Len(b.blocks)].instrs)

\* A builder that may take any instruction, and one whose block is closed.
Going(b) == Ready(b) /\ Tidy(b) /\ Calm(b)
Gone(b)  == Shut(b) /\ Tidy(b)

LEMMA EmitTidy ==
  ASSUME NEW b, Wellformed(b), Tidy(b), NEW instr \in Instr, Proper(instr),
         Calm(b) \/ instr.dest = NoReg
  PROVE  /\ Tidy(Emit(b, instr))
         /\ Calm(b) /\ instr.op # "exit" => Calm(Emit(b, instr))
         /\ Calm(b) => ExitLast(Emit(b, instr))
<1> DEFINE c == Emit(b, instr)
           n == Len(b.blocks)
           code == b.blocks[n].instrs
           new == c.blocks[n].instrs
<1>1. /\ Len(c.blocks) = n /\ n \in Nat \ {0} /\ code \in Seq(Instr)
      /\ \A k \in 1 .. n - 1 : c.blocks[k] = b.blocks[k]
      /\ new = Append(code, instr)
  BY EmitShape, LastBlock
<1>2. /\ Len(new) = Len(code) + 1 /\ Len(code) \in Nat /\ new[Len(code) + 1] = instr
      /\ \A i \in 1 .. Len(code) : new[i] = code[i]
  BY <1>1
<1>3. TidyBlock(b.blocks[n])
  BY <1>1 DEF Tidy
<1> HIDE DEF c, code, new
<1>4. Exits(c.blocks[n]) = Exits(b.blocks[n]) \cup (IF instr.op = "exit" THEN {Len(code) + 1} ELSE {})
  <2> SUFFICES Exits(c.blocks[n]) = {i \in 1 .. Len(new) : new[i].op = "exit"}
               /\ Exits(b.blocks[n]) = {i \in 1 .. Len(code) : code[i].op = "exit"}
    BY <1>2
  <2> QED BY DEF Exits, new, code
<1>5. TidyBlock(c.blocks[n])
  <2>1. ASSUME NEW i \in 1 .. Len(new) PROVE Proper(new[i])
    BY <1>2, <1>3 DEF TidyBlock, code
  <2>2. ASSUME NEW i \in Exits(c.blocks[n]), NEW j \in i + 1 .. Len(new) PROVE new[j].dest = NoReg
    <3>1. i \in 1 .. Len(new) /\ i \in Nat
      BY <1>2, <2>2 DEF Exits, new
    <3>2. i \in Exits(b.blocks[n])
      BY <1>2, <1>4, <3>1
    <3>3. CASE j = Len(code) + 1
      BY <1>2, <3>2, <3>3 DEF Calm
    <3>4. CASE j \in i + 1 .. Len(code)
      <4>1. code[j].dest = NoReg
        BY <1>3, <3>2, <3>4 DEF TidyBlock, Trailing, code
      <4>2. j \in 1 .. Len(code)
        BY <1>2, <3>1, <3>4
      <4> QED BY <1>2, <4>1, <4>2
    <3> QED BY <1>2, <3>1, <3>3, <3>4
  <2> QED BY <2>1, <2>2 DEF TidyBlock, Trailing, new
<1>6. Tidy(c)
  <2> SUFFICES ASSUME NEW k \in 1 .. n PROVE TidyBlock(c.blocks[k])
    BY <1>1 DEF Tidy
  <2>1. CASE k = n
    BY <1>5, <2>1
  <2>2. CASE k # n
    BY <1>1, <2>2 DEF Tidy
  <2> QED BY <2>1, <2>2
<1>7. Calm(b) /\ instr.op # "exit" => Calm(c)
  BY <1>1, <1>4 DEF Calm
<1>8. Calm(b) => ExitLast(c)
  <2> SUFFICES ASSUME Calm(b), NEW i \in Exits(c.blocks[n]) PROVE i = Len(new)
    BY <1>1 DEF ExitLast, new
  <2>1. i \in (IF instr.op = "exit" THEN {Len(code) + 1} ELSE {})
    BY <1>4 DEF Calm
  <2> QED BY <1>2, <2>1
<1> QED BY <1>6, <1>7, <1>8 DEF c

\* Only the blocks matter.
LEMMA TidyBlocks ==
  ASSUME NEW b, NEW c, c.blocks = b.blocks
  PROVE  Tidy(b) = Tidy(c) /\ Calm(b) = Calm(c) /\ ExitLast(b) = ExitLast(c)
BY DEF Tidy, Calm, ExitLast

LEMMA ValueTidy ==
  ASSUME NEW b, Going(b), NEW op \in Ops, op \notin Terminators, op # "named", op # "store",
         NEW args \in Seq(Nat), NoReg \notin Elements(args),
         op \in {"load", "poll", "bump"} => Len(args) = 1
  PROVE  /\ op # "exit" => Going(Value(b, op, args))
         /\ Ready(Value(b, op, args)) /\ Tidy(Value(b, op, args)) /\ ExitLast(Value(b, op, args))
         /\ Value(b, op, args).val \in Nat \ {NoReg}
<1> DEFINE r == b.regs + 1
           instr == [op |-> op, dest |-> r, args |-> args, to |-> <<>>]
           e == Emit(b, instr)
           c == Value(b, op, args)
<1>1. b.regs \in Nat /\ Wellformed(b)
  BY DEF Going, Ready, Wellformed, Builder
<1>2. instr \in Instr
  BY <1>1 DEF Instr
<1>3. Ready(c) /\ c.val = r
  BY ValueReady DEF Going
<1>4. Proper(instr)
  <2>1. /\ instr.op = op /\ instr.args = args /\ instr.to = <<>>
    OBVIOUS
  <2> HIDE DEF instr
  <2> QED BY <2>1 DEF Proper, Args, Elements
<1>5. c.blocks = e.blocks
  <2>1. c = [e EXCEPT !.regs = r, !.val = r]
    BY DEF Value
  <2>2. e \in Builder
    BY <1>1, <1>2, EmitShape
  <2> HIDE DEF e, c
  <2> QED BY <2>1, <2>2 DEF Builder
<1>6. Tidy(e) /\ (op # "exit" => Calm(e)) /\ ExitLast(e)
  <2>1. instr.op = op
    OBVIOUS
  <2> HIDE DEF instr
  <2> QED BY <1>1, <1>2, <1>4, <2>1, EmitTidy DEF Going
<1>7. Tidy(c) /\ (op # "exit" => Calm(c)) /\ ExitLast(c)
  <2> HIDE DEF e, c
  <2> QED BY <1>5, <1>6, TidyBlocks
<1>8. c.val \in Nat \ {NoReg}
  <2> HIDE DEF c
  <2> QED BY <1>1, <1>3 DEF NoReg
<1> QED BY <1>3, <1>7, <1>8 DEF Going

LEMMA EffectTidy ==
  ASSUME NEW b, Wellformed(b), Tidy(b), NEW op \in Ops, NEW args \in Seq(Nat), NEW to \in Seq(Label),
         op # "named", NoReg \notin Elements(args),
         op \in {"load", "poll", "bump"} => Len(args) = 1, op = "store" => Len(args) = 2,
         op = "ret" => to = <<>>
  PROVE  /\ Tidy(Effect(b, op, args, to))
         /\ Calm(b) /\ op # "exit" => Calm(Effect(b, op, args, to))
<1> DEFINE instr == [op |-> op, dest |-> NoReg, args |-> args, to |-> to]
<1>1. instr \in Instr /\ Effect(b, op, args, to) = Emit(b, instr)
  BY EffectInstr DEF Effect
<1>2. instr.op = op /\ instr.args = args /\ instr.dest = NoReg /\ instr.to = to
  OBVIOUS
<1> HIDE DEF instr
<1>3. Proper(instr)
  BY <1>2 DEF Proper, Args, Elements
<1> QED BY <1>1, <1>2, <1>3, EmitTidy

LEMMA StoreTidy ==
  ASSUME NEW b, Going(b), NEW v \in Nat \ {NoReg}, NEW slot \in Nat \ {NoReg}
  PROVE  Going(buildStore(b, v, slot)) /\ buildStore(b, v, slot).val = b.val
<1>1. /\ "store" \in Ops /\ <<>> \in Seq(Label) /\ <<v, slot>> \in Seq(Nat) /\ Len(<<v, slot>>) = 2
      /\ NoReg \notin Elements(<<v, slot>>)
  BY DEF Ops, Elements
<1>2. Wellformed(b) /\ Tidy(b) /\ Calm(b) /\ Ready(b)
  BY DEF Going, Ready
<1>3. Tidy(buildStore(b, v, slot)) /\ Calm(buildStore(b, v, slot))
  <2> DEFINE args == <<v, slot>>
  <2>1. args \in Seq(Nat) /\ Len(args) = 2 /\ NoReg \notin Elements(args)
    BY <1>1
  <2>2. buildStore(b, v, slot) = Effect(b, "store", args, <<>>)
    BY DEF buildStore
  <2> HIDE DEF args
  <2> QED BY <1>1, <1>2, <2>1, <2>2, EffectTidy
<1> QED BY <1>2, <1>3, BuildStore DEF Going

LEMMA RetTidy ==
  ASSUME NEW b, Ready(b), Tidy(b), NEW args \in Seq(Nat), NoReg \notin Elements(args)
  PROVE  Gone(buildRet(b, args))
<1>1. "ret" \in Ops /\ <<>> \in Seq(Label)
  BY DEF Ops, Terminators
<1>2. Tidy(buildRet(b, args))
  BY <1>1, EffectTidy DEF buildRet, Ready
<1> QED BY <1>2, BuildRet DEF Gone

LEMMA BranchTidy ==
  ASSUME NEW b, Ready(b), Tidy(b), NEW l \in Label
  PROVE  Gone(buildBranch(b, l)) /\ Gone(BranchIfOpen(b, l))
<1>1. /\ "br" \in Ops /\ <<>> \in Seq(Nat) /\ <<l>> \in Seq(Label) /\ Elements(<<>>) = {}
  BY DEF Ops, Terminators, Elements
<1>2. Tidy(buildBranch(b, l))
  BY <1>1, EffectTidy DEF buildBranch, Ready
<1>3. Gone(buildBranch(b, l))
  BY <1>2, BuildBranch DEF Gone
<1> QED BY <1>3, ReadyNotTerminated DEF BranchIfOpen

LEMMA CondBranchTidy ==
  ASSUME NEW b, Ready(b), Tidy(b), NEW cond \in Nat \ {NoReg}, NEW yes \in Label, NEW no \in Label
  PROVE  Gone(buildCondBranch(b, cond, yes, no))
<1> DEFINE args == <<cond>>
           to == <<yes, no>>
<1>1. /\ "condbr" \in Ops /\ args \in Seq(Nat) /\ to \in Seq(Label) /\ NoReg \notin Elements(args)
  BY DEF Ops, Terminators, Elements
<1>2. buildCondBranch(b, cond, yes, no) = Effect(b, "condbr", args, to)
  BY DEF buildCondBranch
<1>3. Tidy(buildCondBranch(b, cond, yes, no))
  <2> HIDE DEF args, to
  <2> QED BY <1>1, <1>2, EffectTidy DEF Ready
<1> QED BY <1>3, BuildCondBranch DEF Gone

LEMMA OpenTidy ==
  ASSUME NEW b, Gone(b), NEW l \in Label
  PROVE  Going(OpenBlock(b, l)) /\ OpenBlock(b, l).val = b.val
<1> DEFINE n == Len(b.blocks)
           new == [label |-> l, instrs |-> <<>>]
           c == OpenBlock(b, l)
<1>1. b \in Builder /\ b.blocks \in Seq(Block) /\ n \in Nat /\ new \in Block
  <2>1. new \in Block
    BY DEF Block
  <2> QED BY <2>1, LastBlock DEF Gone, Shut
<1>2. c.blocks = Append(b.blocks, new)
  BY <1>1 DEF OpenBlock, Builder
<1>3. /\ Len(c.blocks) = n + 1 /\ c.blocks[n + 1].instrs = <<>>
      /\ \A k \in 1 .. n : c.blocks[k] = b.blocks[k]
  BY <1>1, <1>2
<1> HIDE DEF c
<1>4. TidyBlock(c.blocks[n + 1]) /\ Exits(c.blocks[n + 1]) = {}
  <2>1. 1 .. Len(c.blocks[n + 1].instrs) = {}
    BY <1>3
  <2> QED BY <2>1 DEF TidyBlock, Exits
<1>5. Tidy(c) /\ Calm(c)
  <2>1. ASSUME NEW k \in 1 .. n + 1 PROVE TidyBlock(c.blocks[k])
    BY <1>1, <1>3, <1>4 DEF Gone, Tidy
  <2> QED BY <1>3, <1>4, <2>1 DEF Tidy, Calm
<1> QED BY <1>5, OpenBlockReady DEF Gone, Going, c

LEMMA IssuedTidy ==
  ASSUME NEW b, NEW n \in Nat
  PROVE  /\ Going(b) => Going(Issued(b, n)) /\ Issued(b, n).val = b.val
<1> SUFFICES ASSUME Going(b) PROVE Going(Issued(b, n)) /\ Issued(b, n).val = b.val
  OBVIOUS
<1>1. b \in Builder
  BY DEF Going, Ready, Wellformed
<1>2. Issued(b, n).blocks = b.blocks
  BY <1>1 DEF Issued, Builder
<1> QED BY <1>2, TidyBlocks, IssuedReady DEF Going

LEMMA NextTidy ==
  ASSUME NEW b, Gone(b), NEW l \in Label, NEW n \in Nat
  PROVE  Going(Issued(OpenBlock(b, l), n)) /\ Going(OpenBlock(b, l))
BY OpenTidy, IssuedTidy

LEMMA AllocaTidy ==
  ASSUME NEW b, Going(b)
  PROVE  Going(buildAlloca(b)) /\ buildAlloca(b).val \in Nat \ {NoReg}
<1>1. "alloca" \in Ops \ Terminators /\ <<>> \in Seq(Nat) /\ NoReg \notin Elements(<<>>)
  BY DEF Ops, Terminators, Elements
<1> QED BY <1>1, ValueTidy DEF buildAlloca

LEMMA EvalTidy ==
  ASSUME NEW b, Going(b), NEW slots \in [Names -> Nat], NEW e \in Exprs, e \in Names => slots[e] # NoReg
  PROVE  Going(Eval(b, slots, e)) /\ Eval(b, slots, e).val \in Nat \ {NoReg}
<1>1. {"eval", "load"} \subseteq Ops \ Terminators /\ <<>> \in Seq(Nat) /\ NoReg \notin Elements(<<>>)
  BY DEF Ops, Terminators, Elements
<1>2. CASE e = Lit
  BY <1>1, <1>2, ValueTidy DEF Eval
<1>3. CASE e # Lit
  <2>1. e \in Names /\ slots[e] \in Nat \ {NoReg}
    BY <1>3 DEF Exprs
  <2> DEFINE args == <<slots[e]>>
  <2>2. args \in Seq(Nat) /\ Len(args) = 1 /\ NoReg \notin Elements(args)
    BY <2>1 DEF Elements
  <2>3. Eval(b, slots, e) = Value(b, "load", args)
    BY <1>3, <2>1 DEF Eval
  <2> HIDE DEF args
  <2> QED BY <1>1, <2>2, <2>3, ValueTidy
<1> QED BY <1>2, <1>3

-----------------------------------------------------------------------------
(***************************************************************************)
(* Every visitor keeps the code tidy.  What follows a call of exit in its  *)
(* block is only what the visitors around it append when they resume.      *)
(***************************************************************************)
Steady(b) == Tidy(b) /\ ExitLast(b)
TInv == Tidy(ir) /\ (phase = "body" => ExitLast(ir))
Settled == Sure /\ TInv /\ "afterexit" \notin Lang

LEMMA GoingSteady == \A b : Going(b) => Steady(b)
BY DEF Going, Steady, Calm, ExitLast

LEMMA SteadyTInv == Steady(ir') => TInv'
BY DEF Steady, TInv

LEMMA Labelled ==
  ASSUME NEW b, Ready(b) \/ Shut(b)
  PROVE  \A p \in Prefixes, k \in Nat : newLabel(b, p, k) \in Label
BY NewLabelType DEF Ready, Shut

LEMMA AtStart ==
  ASSUME Settled, NEW kind, Visiting(kind)
  PROVE  Going(ir) /\ varSlots \in [Names -> Nat]
<1>1. IInv /\ varSlots \in [Names -> Nat] /\ Ready(ir)
  BY AtSure, AtVisit DEF Settled
<1>2. ~AfterExit /\ phase = "body"
  BY DEF Settled, Visiting
<1>3. Tidy(ir) /\ ExitLast(ir)
  BY <1>2 DEF Settled, TInv
<1>4. Calm(ir)
  <2> DEFINE code == ir.blocks[Len(ir.blocks)].instrs
  <2>1. ir.cur = Len(ir.blocks) /\ code \in Seq(Instr)
    BY <1>1, LastBlock DEF Ready, Wellformed
  <2>2. code = <<>> \/ code[Len(code)].op # "exit"
    BY <1>2, <2>1 DEF AfterExit
  <2> SUFFICES ASSUME NEW i \in Exits(ir.blocks[Len(ir.blocks)]) PROVE FALSE
    BY DEF Calm
  <2>3. i \in 1 .. Len(code) /\ code[i].op = "exit" /\ i = Len(code)
    BY <1>3 DEF Exits, ExitLast
  <2> QED BY <2>1, <2>2, <2>3
<1> QED BY <1>1, <1>3, <1>4 DEF Going

\* The slot of a name that the analyser lets an expression use.
LEMMA SlotOf ==
  ASSUME Settled, NEW e, Bound(e)
  PROVE  e \in Names => varSlots[e] # NoReg
BY AtName DEF Settled, Bound

LEMMA EvalGoes ==
  ASSUME Settled, NEW b, Going(b), NEW e, Usable(e)
  PROVE  /\ Going(Eval(b, varSlots, e)) /\ Eval(b, varSlots, e).val \in Nat \ {NoReg}
         /\ e \in Exprs
<1>1. e \in Exprs /\ (e \in Names => varSlots[e] # NoReg) /\ varSlots \in [Names -> Nat]
  BY SlotOf, AtSure DEF Usable, Settled
<1> QED BY <1>1, EvalTidy

LEMMA VarDeclTidy ==
  ASSUME Settled, NEW x \in Names, NEW e \in Exprs \cup {None}, VisitVarDecl(x, e)
  PROVE  Going(ir')
<1> DEFINE b1 == buildAlloca(ir)
           slots == [varSlots EXCEPT ![x] = b1.val]
           b2 == Eval(b1, slots, e)
           b3 == buildStore(b2, b2.val, b1.val)
<1>1. Going(ir) /\ varSlots \in [Names -> Nat]
  BY AtStart DEF VisitVarDecl
<1>2. Going(b1) /\ b1.val \in Nat \ {NoReg}
  BY <1>1, AllocaTidy
<1>3. slots \in [Names -> Nat]
  BY <1>1, <1>2
<1>4. ir' = (IF e = None THEN b1 ELSE b3) /\ (e # None => Usable(e))
  BY DEF VisitVarDecl
<1> HIDE DEF b1
<1>5. e # None => /\ Going(b2) /\ b2.val \in Nat \ {NoReg}
  <2> SUFFICES ASSUME e # None PROVE Going(b2) /\ b2.val \in Nat \ {NoReg}
    OBVIOUS
  <2>1. e \in Exprs /\ (e \in Names => varSlots[e] # NoReg)
    BY <1>4, SlotOf DEF Usable
  <2>2. e \in Names => slots[e] # NoReg
    BY <1>1, <1>2, <2>1
  <2> HIDE DEF slots
  <2> QED BY <1>2, <1>3, <2>1, <2>2, EvalTidy
<1> HIDE DEF b2
<1> QED BY <1>2, <1>4, <1>5, StoreTidy

LEMMA ExprStmtTidy ==
  ASSUME Settled, NEW e \in Exprs, VisitExprStmt(e)
  PROVE  Going(ir')
BY AtStart, EvalGoes DEF VisitExprStmt

LEMMA ExitTidy ==
  ASSUME Settled, VisitExit
  PROVE  Steady(ir')
<1>1. "exit" \in Ops \ Terminators /\ <<>> \in Seq(Nat) /\ NoReg \notin Elements(<<>>)
  BY DEF Ops, Terminators, Elements
<1>2. Going(ir) /\ ir' = Value(ir, "exit", <<>>)
  BY AtStart DEF VisitExit
<1> QED BY <1>1, <1>2, ValueTidy DEF Steady

LEMMA AssignTidy ==
  ASSUME Settled, NEW x \in Names, NEW e \in Exprs, NEW compound \in BOOLEAN, VisitAssign(x, e, compound)
  PROVE  Going(ir')
<1> DEFINE b1 == IF compound THEN Eval(ir, varSlots, x) ELSE ir
           b2 == Eval(b1, varSlots, e)
           v3 == Value(b2, "eval", <<b1.val, b2.val>>)
           b3 == IF compound THEN v3 ELSE b2
           b4 == buildStore(b3, b3.val, varSlots[x])
<1>1. Going(ir) /\ varSlots \in [Names -> Nat] /\ Usable(e) /\ env[x] # Unbound
  BY AtStart DEF VisitAssign, Settled, Sure, Plain
<1>2. Usable(x) /\ varSlots[x] \in Nat \ {NoReg}
  BY <1>1, SlotOf DEF Usable, Bound, Exprs
<1>3. Going(b1) /\ (compound => b1.val \in Nat \ {NoReg})
  BY <1>1, <1>2, EvalGoes
<1>4. ir' = IF varSlots[x] = NoReg THEN b3 ELSE b4
  BY DEF VisitAssign
<1> HIDE DEF b1
<1>5. Going(b2) /\ b2.val \in Nat \ {NoReg}
  BY <1>1, <1>3, EvalGoes
<1> HIDE DEF b2
<1>6. compound => Going(v3) /\ v3.val \in Nat \ {NoReg}
  <2> SUFFICES ASSUME compound PROVE Going(v3) /\ v3.val \in Nat \ {NoReg}
    OBVIOUS
  <2> DEFINE args == <<b1.val, b2.val>>
  <2>1. "eval" \in Ops \ Terminators /\ args \in Seq(Nat) /\ NoReg \notin Elements(args)
    BY <1>3, <1>5 DEF Ops, Terminators, Elements
  <2> HIDE DEF args
  <2> QED BY <1>5, <2>1, ValueTidy DEF args
<1> HIDE DEF v3
<1>7. Going(b3) /\ b3.val \in Nat \ {NoReg}
  BY <1>5, <1>6
<1> HIDE DEF b3
<1> QED BY <1>2, <1>4, <1>7, StoreTidy

LEMMA ReturnTidy ==
  ASSUME Settled, NEW e \in Exprs \cup {None}, VisitReturn(e)
  PROVE  Going(ir')
<1> DEFINE v == Eval(ir, varSlots, e)
           b1 == IF e = None THEN buildRet(ir, <<>>) ELSE buildRet(v, <<v.val>>)
           l == newLabel(b1, "after_ret", 0)
<1>1. Going(ir) /\ Ready(ir) /\ Tidy(ir) /\ (e # None => Usable(e))
  BY AtStart DEF VisitReturn, Going
<1>2. e # None => Ready(v) /\ Tidy(v) /\ v.val \in Nat \ {NoReg}
  BY <1>1, EvalGoes DEF Going
<1>3. ir' = Issued(OpenBlock(b1, l), 1)
  BY DEF VisitReturn
<1> HIDE DEF v
<1>4. Gone(b1)
  <2>1. <<>> \in Seq(Nat) /\ NoReg \notin Elements(<<>>)
    BY DEF Elements
  <2>2. e # None => <<v.val>> \in Seq(Nat) /\ NoReg \notin Elements(<<v.val>>)
    BY <1>2 DEF Elements
  <2> QED BY <1>1, <1>2, <2>1, <2>2, RetTidy
<1> HIDE DEF b1
<1>5. l \in Label
  BY <1>4, Labelled DEF Gone, Prefixes
<1> HIDE DEF l
<1> QED BY <1>3, <1>4, <1>5, NextTidy

LEMMA EmptyMatchTidy ==
  ASSUME Settled, NEW e \in Exprs, VisitEmptyMatch(e)
  PROVE  Going(ir')
<1> DEFINE b1 == Eval(ir, varSlots, e)
           exit == newLabel(b1, "match_exit", 0)
<1>1. Going(b1) /\ Ready(b1) /\ Tidy(b1)
  BY AtStart, EvalGoes DEF VisitEmptyMatch, Going
<1>2. ir' = Issued(OpenBlock(buildBranch(b1, exit), exit), 1)
  BY DEF VisitEmptyMatch
<1> HIDE DEF b1
<1>3. exit \in Label
  BY <1>1, Labelled DEF Prefixes
<1> HIDE DEF exit
<1> QED BY <1>1, <1>2, <1>3, BranchTidy, NextTidy

LEMMA IfTidy ==
  ASSUME Settled, NEW e \in Exprs, NEW hasElse \in BOOLEAN, NEW scoped \in BOOLEAN,
         VisitIf(e, hasElse, scoped)
  PROVE  Going(ir')
<1> DEFINE b1    == Eval(ir, varSlots, e)
           then  == newLabel(b1, "then", 0)
           else  == newLabel(b1, "else", 1)
           merge == newLabel(b1, "merge", IF hasElse THEN 2 ELSE 1)
           to    == IF hasElse THEN else ELSE merge
           b2    == buildCondBranch(b1, b1.val, then, to)
           n     == IF hasElse THEN 3 ELSE 2
<1>1. Going(ir) /\ Usable(e)
  BY AtStart DEF VisitIf, Nesting
<1>2. Going(b1) /\ Ready(b1) /\ Tidy(b1) /\ b1.val \in Nat \ {NoReg}
  BY <1>1, EvalGoes DEF Going
<1>3. ir' = Issued(OpenBlock(b2, then), n) /\ n \in Nat
  BY DEF VisitIf
<1> HIDE DEF b1, n
<1>4. then \in Label /\ to \in Label
  <2>1. {"then", "else", "merge"} \subseteq Prefixes
    BY DEF Prefixes
  <2> QED BY <1>2, <2>1, Labelled
<1> HIDE DEF then, to
<1>5. Gone(b2)
  BY <1>2, <1>4, CondBranchTidy
<1> HIDE DEF b2
<1> QED BY <1>3, <1>4, <1>5, NextTidy

LEMMA LoopTidy ==
  ASSUME Settled, NEW e \in Exprs, NEW kind \in {"while", "vloop"}, VisitLoop(e, kind)
  PROVE  Going(ir')
<1> DEFINE cond == newLabel(ir, kind, 0)
           body == newLabel(ir, kind, 1)
           exit == newLabel(ir, kind, 2)
           b1   == OpenBlock(buildBranch(ir, cond), cond)
           b2   == Eval(b1, varSlots, e)
           b3   == buildCondBranch(b2, b2.val, body, exit)
<1>1. Going(ir) /\ Ready(ir) /\ Tidy(ir) /\ Usable(e)
  BY AtStart DEF VisitLoop, Nesting, Going
<1>2. cond \in Label /\ body \in Label /\ exit \in Label
  BY <1>1, Labelled DEF Prefixes
<1>3. ir' = Issued(OpenBlock(b3, body), 3)
  BY DEF VisitLoop
<1> HIDE DEF cond, body, exit
<1>4. Going(b1)
  BY <1>1, <1>2, BranchTidy, NextTidy
<1> HIDE DEF b1
<1>5. Ready(b2) /\ Tidy(b2) /\ b2.val \in Nat \ {NoReg}
  BY <1>1, <1>4, EvalGoes DEF Going
<1> HIDE DEF b2
<1>6. Gone(b3)
  BY <1>2, <1>5, CondBranchTidy
<1> HIDE DEF b3
<1> QED BY <1>2, <1>3, <1>6, NextTidy

\* The condition of a loop that polls a slot.
LEMMA PollTidy ==
  ASSUME NEW b, Going(b), NEW slot \in Nat \ {NoReg}
  PROVE  /\ Ready(Value(b, "poll", <<slot>>)) /\ Tidy(Value(b, "poll", <<slot>>))
         /\ Value(b, "poll", <<slot>>).val \in Nat \ {NoReg}
<1> DEFINE args == <<slot>>
<1>1. "poll" \in Ops \ Terminators /\ args \in Seq(Nat) /\ Len(args) = 1 /\ NoReg \notin Elements(args)
  BY DEF Ops, Terminators, Elements
<1> HIDE DEF args
<1>2. Going(Value(b, "poll", args)) /\ Value(b, "poll", args).val \in Nat \ {NoReg}
  BY <1>1, ValueTidy
<1> QED BY <1>2 DEF args, Going

LEMMA CountTidy ==
  ASSUME Settled, VisitCountedVloop
  PROVE  Going(ir')
<1> DEFINE cond == newLabel(ir, "vloop_cond", 1)
           body == newLabel(ir, "vloop_body", 2)
           exit == newLabel(ir, "vloop_exit", 3)
           b1   == buildAlloca(ir)
           b2   == Value(b1, "int", <<>>)
           s    == buildStore(b2, b2.val, b1.val)
           b3   == buildBranch(s, cond)
           o    == OpenBlock(b3, cond)
           b4   == Value(o, "poll", <<b1.val>>)
           b5   == buildCondBranch(b4, b4.val, body, exit)
<1>1. Going(ir) /\ Ready(ir)
  BY AtStart DEF VisitCountedVloop, Nesting, Going
<1>2. cond \in Label /\ body \in Label /\ exit \in Label
  BY <1>1, Labelled DEF Prefixes
<1>3. ir' = Issued(OpenBlock(b5, body), 4)
  BY DEF VisitCountedVloop
<1> HIDE DEF cond, body, exit
<1>4. Going(b1) /\ b1.val \in Nat \ {NoReg}
  BY <1>1, AllocaTidy
<1> HIDE DEF b1
<1>5. Going(b2) /\ b2.val \in Nat \ {NoReg}
  <2>1. "int" \in Ops \ Terminators /\ <<>> \in Seq(Nat) /\ NoReg \notin Elements(<<>>)
    BY DEF Ops, Terminators, Elements
  <2> QED BY <1>4, <2>1, ValueTidy
<1> HIDE DEF b2
<1>6. Ready(s) /\ Tidy(s)
  BY <1>4, <1>5, StoreTidy DEF Going
<1> HIDE DEF s
<1>7. Gone(b3)
  BY <1>2, <1>6, BranchTidy
<1> HIDE DEF b3
<1>8. Going(o)
  BY <1>2, <1>7, NextTidy
<1> HIDE DEF o
<1>9. Ready(b4) /\ Tidy(b4) /\ b4.val \in Nat \ {NoReg}
  BY <1>4, <1>8, PollTidy
<1> HIDE DEF b4
<1>10. Gone(b5)
  BY <1>2, <1>9, CondBranchTidy
<1> HIDE DEF b5
<1> QED BY <1>2, <1>3, <1>10, NextTidy

LEMMA ForTidy ==
  ASSUME Settled, NEW x \in Names, NEW e \in Exprs, VisitFor(x, e)
  PROVE  Going(ir')
<1> DEFINE b1    == buildAlloca(ir)
           slots == [varSlots EXCEPT ![x] = b1.val]
           inner == [env EXCEPT ![x] = [slot |-> b1.val, mut |-> FALSE]]
           b2    == Eval(b1, slots, e)
           b3    == buildAlloca(b2)
           b4    == buildStore(b3, b2.val, b3.val)
           cond  == newLabel(ir, "for_cond", 0)
           body  == newLabel(ir, "for_body", 1)
           exit  == newLabel(ir, "for_exit", 2)
           b5    == OpenBlock(buildBranch(b4, cond), cond)
           b6    == Value(b5, "poll", <<b3.val>>)
           b7    == buildCondBranch(b6, b6.val, body, exit)
<1>1. Going(ir) /\ Ready(ir) /\ varSlots \in [Names -> Nat] /\ env \in [Names -> Binding]
  BY AtStart, AtSure DEF VisitFor, Nesting, Going, Settled
<1>2. cond \in Label /\ body \in Label /\ exit \in Label
  BY <1>1, Labelled DEF Prefixes
<1>3. /\ ir' = Issued(OpenBlock(b7, body), 3)
      /\ e \in Names => inner[e] # Unbound
  BY DEF VisitFor
<1> HIDE DEF cond, body, exit
<1>4. Going(b1) /\ b1.val \in Nat \ {NoReg}
  BY <1>1, AllocaTidy
<1> HIDE DEF b1
<1>5. Going(b2) /\ b2.val \in Nat \ {NoReg}
  <2>1. slots \in [Names -> Nat]
    BY <1>1, <1>4
  <2>2. e \in Names => slots[e] # NoReg
    <3>1. CASE e = x
      BY <1>1, <1>4, <3>1
    <3>2. CASE e # x
      <4>1. e \in Names => env[e] # Unbound
        BY <1>1, <1>3, <3>2
      <4>2. e \in Names => varSlots[e] # NoReg
        BY <4>1, SlotOf DEF Bound
      <4> QED BY <1>1, <3>2, <4>2
    <3> QED BY <3>1, <3>2
  <2> HIDE DEF slots
  <2> QED BY <1>4, <2>1, <2>2, EvalTidy
<1> HIDE DEF b2
<1>6. Going(b3) /\ b3.val \in Nat \ {NoReg}
  BY <1>5, AllocaTidy
<1> HIDE DEF b3
<1>7. Ready(b4) /\ Tidy(b4)
  BY <1>5, <1>6, StoreTidy DEF Going
<1> HIDE DEF b4
<1>8. Going(b5)
  BY <1>2, <1>7, BranchTidy, NextTidy
<1> HIDE DEF b5
<1>9. Ready(b6) /\ Tidy(b6) /\ b6.val \in Nat \ {NoReg}
  BY <1>6, <1>8, PollTidy
<1> HIDE DEF b6
<1>10. Gone(b7)
  BY <1>2, <1>9, CondBranchTidy
<1> HIDE DEF b7
<1> QED BY <1>2, <1>3, <1>10, NextTidy

LEMMA ArmTidy ==
  ASSUME NEW b, Going(b), NEW subj \in Nat \ {NoReg}, NEW exit \in Label,
         NEW wild \in BOOLEAN, NEW last \in BOOLEAN
  PROVE  Going(Arm(b, subj, exit, wild, last).ir)
<1> DEFINE body == newLabel(b, "match_arm", 0)
           to   == IF last THEN exit ELSE newLabel(b, "match_next", 1)
           b1   == Value(b, "test", <<subj>>)
           w    == buildBranch(b, body)
           t    == buildCondBranch(b1, b1.val, body, to)
           b2   == IF wild THEN w ELSE t
           n    == IF last THEN 1 ELSE 2
<1>1. Arm(b, subj, exit, wild, last).ir = Issued(OpenBlock(b2, body), n) /\ n \in Nat
  BY DEF Arm
<1>2. Ready(b) /\ Tidy(b)
  BY DEF Going
<1>3. body \in Label /\ to \in Label
  BY <1>2, Labelled DEF Prefixes
<1> HIDE DEF body, to, n
<1>4. Ready(b1) /\ Tidy(b1) /\ b1.val \in Nat \ {NoReg}
  <2> DEFINE args == <<subj>>
  <2>1. "test" \in Ops \ Terminators /\ args \in Seq(Nat) /\ NoReg \notin Elements(args)
    BY DEF Ops, Terminators, Elements
  <2> HIDE DEF args
  <2> QED BY <2>1, ValueTidy DEF args
<1> HIDE DEF b1
<1>5. Gone(w) /\ Gone(t)
  BY <1>2, <1>3, <1>4, BranchTidy, CondBranchTidy
<1> HIDE DEF w, t
<1>6. Gone(b2)
  BY <1>5
<1> HIDE DEF b2
<1> QED BY <1>1, <1>3, <1>6, NextTidy

LEMMA MatchTidy ==
  ASSUME Settled, NEW e \in Exprs, NEW wild \in BOOLEAN, NEW last \in BOOLEAN, NEW scoped \in BOOLEAN,
         VisitMatch(e, wild, last, scoped)
  PROVE  Going(ir')
<1> DEFINE b1   == Eval(ir, varSlots, e)
           exit == newLabel(b1, "match_exit", 0)
<1>1. Going(b1) /\ Ready(b1) /\ b1.val \in Nat \ {NoReg}
  BY AtStart, EvalGoes DEF VisitMatch, Nesting, Going
<1>2. ir' = Arm(Issued(b1, 1), b1.val, exit, wild, last).ir
  BY DEF VisitMatch
<1> HIDE DEF b1
<1>3. exit \in Label
  BY <1>1, Labelled DEF Prefixes
<1> HIDE DEF exit
<1> QED BY <1>1, <1>2, <1>3, IssuedTidy, ArmTidy

LEMMA BlockTidy ==
  ASSUME Settled, VisitBlock
  PROVE  Going(ir')
BY AtStart DEF VisitBlock, Nesting

-----------------------------------------------------------------------------
LEMMA AtResume ==
  ASSUME Settled, NEW kinds, Ending(kinds)
  PROVE  /\ Ready(ir) /\ Tidy(ir) /\ Steady(ir) /\ Top.join \in Label /\ Top.next \in Label
         /\ Top.kind \in Keepers => Top.reg \in Nat \ {NoReg}
BY EndFacts DEF Settled, TInv, Steady, Ending, Avail

LEMMA EndThenTidy ==
  ASSUME Settled, NEW scoped \in BOOLEAN, EndThen(scoped)
  PROVE  Going(ir')
BY AtResume, BranchTidy, NextTidy DEF EndThen

LEMMA EndIfTidy ==
  ASSUME Settled, EndIf
  PROVE  Going(ir')
BY AtResume, BranchTidy, NextTidy DEF EndIf

LEMMA EndLoopTidy ==
  ASSUME Settled, EndLoop
  PROVE  Going(ir')
<1> DEFINE c  == Effect(ir, "bump", <<Top.reg>>, <<>>)
           b1 == IF Top.kind = "count" /\ ~isTerminated(ir) THEN c ELSE ir
<1>1. /\ Ready(ir) /\ Tidy(ir) /\ Top.join \in Label /\ Top.next \in Label
      /\ Top.kind = "count" => Top.reg \in Nat \ {NoReg}
      /\ ir' = OpenBlock(BranchIfOpen(b1, Top.join), Top.next)
  BY AtResume DEF EndLoop, Keepers
<1>2. Ready(b1) /\ Tidy(b1)
  <2> SUFFICES ASSUME Top.kind = "count" PROVE Ready(c) /\ Tidy(c)
    BY <1>1
  <2> DEFINE args == <<Top.reg>>
  <2>1. /\ "bump" \in Ops \ Terminators /\ args \in Seq(Nat) /\ Len(args) = 1 /\ NoReg \notin Elements(args)
        /\ <<>> \in Seq(Label)
    BY <1>1 DEF Ops, Terminators, Elements
  <2> HIDE DEF args
  <2>2. Ready(Effect(ir, "bump", args, <<>>)) /\ Tidy(Effect(ir, "bump", args, <<>>))
    BY <1>1, <2>1, EffectReady, EffectTidy DEF Ready
  <2> QED BY <2>2 DEF args
<1> HIDE DEF b1
<1> QED BY <1>1, <1>2, BranchTidy, NextTidy

LEMMA EndArmTidy ==
  ASSUME Settled, NEW wild \in BOOLEAN, NEW last \in BOOLEAN, NEW scoped \in BOOLEAN,
         EndArm(wild, last, scoped)
  PROVE  Going(ir')
<1> DEFINE b1 == OpenBlock(BranchIfOpen(ir, Top.join), Top.next)
<1>1. /\ Ready(ir) /\ Tidy(ir) /\ Top.join \in Label /\ Top.next \in Label
      /\ Top.reg \in Nat \ {NoReg}
      /\ ir' = Arm(b1, Top.reg, Top.join, wild, last).ir
  BY AtResume DEF EndArm, Keepers, Ending
<1>2. Going(b1)
  BY <1>1, BranchTidy, NextTidy
<1> HIDE DEF b1
<1> QED BY <1>1, <1>2, ArmTidy

LEMMA EndMatchTidy ==
  ASSUME Settled, EndMatch
  PROVE  Going(ir')
<1> DEFINE b1 == BranchIfOpen(ir, Top.join)
           o  == OpenBlock(b1, Top.next)
           b2 == IF Top.kind = "wild" THEN b1 ELSE o
           b3 == BranchIfOpen(b2, Top.join)
<1>1. /\ Ready(ir) /\ Tidy(ir) /\ Top.join \in Label /\ Top.next \in Label
      /\ ir' = OpenBlock(b3, Top.join)
  BY AtResume DEF EndMatch
<1>2. Gone(b1)
  BY <1>1, BranchTidy
<1> HIDE DEF b1
<1>3. Going(o)
  BY <1>1, <1>2, NextTidy
<1> HIDE DEF o
<1>4. Gone(b3)
  <2>1. CASE Top.kind = "wild"
    BY <1>2, <2>1, ShutTerminated DEF Gone, BranchIfOpen
  <2>2. CASE Top.kind # "wild"
    BY <1>1, <1>3, <2>2, BranchTidy DEF Going
  <2> QED BY <2>1, <2>2
<1> HIDE DEF b3
<1> QED BY <1>1, <1>4, NextTidy

LEMMA EndFunctionTidy ==
  ASSUME Settled, EndFunction
  PROVE  TInv'
<1>1. Ready(ir) /\ Tidy(ir)
  BY AtSure DEF Settled, TInv, EndFunction, IInv, Discipline
<1>2. <<>> \in Seq(Nat) /\ NoReg \notin Elements(<<>>)
  BY DEF Elements
<1>3. ir' = buildRet(ir, <<>>) /\ phase' # "body"
  BY <1>1, ReadyNotTerminated DEF EndFunction
<1> QED BY <1>1, <1>2, <1>3, RetTidy DEF Gone, TInv

-----------------------------------------------------------------------------
LEMMA InitTInv ==
  ASSUME Init
  PROVE  TInv
<1> DEFINE E  == EmptyBuilder
           b1 == buildAlloca(E)
           b2 == Value(b1, "param", <<>>)
<1>1. Going(E)
  <2>1. Ready(E) /\ Len(E.blocks) = 1 /\ E.blocks[1].instrs = <<>>
    BY EmptyUses DEF EmptyBuilder
  <2>2. 1 .. Len(E.blocks[1].instrs) = {}
    BY <2>1
  <2> HIDE DEF E
  <2>3. TidyBlock(E.blocks[1]) /\ Exits(E.blocks[1]) = {}
    BY <2>2 DEF TidyBlock, Exits
  <2>4. \A k \in 1 .. Len(E.blocks) : k = 1
    BY <2>1
  <2> QED BY <2>1, <2>3, <2>4 DEF Going, Tidy, Calm
<1>2. Param(E) = buildStore(b2, b2.val, b1.val)
  BY DEF Param
<1> HIDE DEF E
<1>3. Going(b1) /\ b1.val \in Nat \ {NoReg}
  BY <1>1, AllocaTidy
<1> HIDE DEF b1
<1>4. Going(b2) /\ b2.val \in Nat \ {NoReg}
  <2>1. "param" \in Ops \ Terminators /\ <<>> \in Seq(Nat) /\ NoReg \notin Elements(<<>>)
    BY DEF Ops, Terminators, Elements
  <2> QED BY <1>3, <2>1, ValueTidy
<1> HIDE DEF b2
<1>5. Going(Param(E))
  BY <1>2, <1>3, <1>4, StoreTidy
<1>6. Going(ir)
  BY <1>1, <1>5 DEF Init, E
<1> QED BY <1>6, GoingSteady DEF Steady, TInv

LEMMA NextTInv ==
  ASSUME Settled, [Next]_vars
  PROVE  TInv'
<1>0. Going(ir') \/ Steady(ir') => TInv'
  BY GoingSteady, SteadyTInv
<1>1. ASSUME NEW x \in Names, NEW e \in Exprs \cup {None}, VisitVarDecl(x, e)
      PROVE  TInv'
  BY <1>0, <1>1, VarDeclTidy
<1>2. CASE (\E e \in Exprs : VisitExprStmt(e)) \/ VisitExit
  BY <1>0, <1>2, ExprStmtTidy, ExitTidy
<1>3. ASSUME NEW x \in Names, NEW e \in Exprs, NEW compound \in BOOLEAN,
             VisitAssign(x, e, compound)
      PROVE  TInv'
  BY <1>0, <1>3, AssignTidy
<1>4. ASSUME NEW e \in Exprs \cup {None}, VisitReturn(e)
      PROVE  TInv'
  BY <1>0, <1>4, ReturnTidy
<1>5. CASE VisitBreak \/ VisitContinue
  <2>1. UNCHANGED ir /\ (\E kind : Visiting(kind))
    BY <1>5 DEF VisitBreak, VisitContinue, irVars
  <2>2. Going(ir)
    BY <2>1, AtStart
  <2> QED BY <1>0, <2>1, <2>2
<1>6. CASE VisitBlock
  BY <1>0, <1>6, BlockTidy
<1>7. ASSUME NEW e \in Exprs, NEW hasElse \in BOOLEAN, NEW scoped \in BOOLEAN,
             VisitIf(e, hasElse, scoped)
      PROVE  TInv'
  BY <1>0, <1>7, IfTidy
<1>8. ASSUME NEW e \in Exprs, NEW kind \in {"while", "vloop"}, VisitLoop(e, kind)
      PROVE  TInv'
  BY <1>0, <1>8, LoopTidy
<1>9. CASE VisitCountedVloop
  BY <1>0, <1>9, CountTidy
<1>10. ASSUME NEW x \in Names, NEW e \in Exprs, VisitFor(x, e)
       PROVE  TInv'
  BY <1>0, <1>10, ForTidy
<1>11. ASSUME NEW e \in Exprs, NEW wild \in BOOLEAN, NEW last \in BOOLEAN,
              NEW scoped \in BOOLEAN, VisitMatch(e, wild, last, scoped)
       PROVE  TInv'
  BY <1>0, <1>11, MatchTidy
<1>12. ASSUME NEW e \in Exprs, VisitEmptyMatch(e)
       PROVE  TInv'
  BY <1>0, <1>12, EmptyMatchTidy
<1>13. CASE EndBlock
  <2>1. UNCHANGED ir /\ Ending({"block"})
    BY <1>13 DEF EndBlock
  <2>2. Steady(ir)
    BY <2>1, AtResume
  <2> QED BY <1>0, <2>1, <2>2
<1>14. ASSUME NEW scoped \in BOOLEAN, EndThen(scoped)
       PROVE  TInv'
  BY <1>0, <1>14, EndThenTidy
<1>15. CASE EndIf
  BY <1>0, <1>15, EndIfTidy
<1>16. CASE EndLoop
  BY <1>0, <1>16, EndLoopTidy
<1>17. ASSUME NEW wild \in BOOLEAN, NEW last \in BOOLEAN, NEW scoped \in BOOLEAN,
              EndArm(wild, last, scoped)
       PROVE  TInv'
  BY <1>0, <1>17, EndArmTidy
<1>18. CASE EndMatch
  BY <1>0, <1>18, EndMatchTidy
<1>19. CASE EndFunction
  BY <1>19, EndFunctionTidy
<1>20. CASE UNCHANGED vars
  BY <1>20 DEF vars, Settled, TInv, Tidy, ExitLast
<1> QED
  BY <1>1, <1>2, <1>3, <1>4, <1>5, <1>6, <1>7, <1>8, <1>9, <1>10, <1>11, <1>12,
     <1>13, <1>14, <1>15, <1>16, <1>17, <1>18, <1>19, <1>20
     DEF Next, Finished

\* Functions of the fragment that the code generator lowers as it should.
Ordinary == Plain /\ "afterexit" \notin Lang
IRInv == IInv /\ LInv /\ UInv /\ TInv /\ Ended

LEMMA InitIRInv == Ordinary /\ Init => IRInv
BY InitIInv, InitLInv, InitUInv, InitTInv DEF Ordinary, IRInv, Init, Ended

LEMMA NextIRInv == Ordinary /\ IRInv /\ [Next]_vars => IRInv'
<1> SUFFICES ASSUME Ordinary, IRInv, [Next]_vars PROVE IRInv'
  OBVIOUS
<1>1. Sure /\ Settled
  BY DEF Ordinary, IRInv, Sure, Settled
<1>2. IInv'
  BY NextIInv DEF IRInv
<1>3. LInv'
  BY NextLInv DEF IRInv
<1>4. UInv'
  BY <1>1, NextUInv
<1>5. TInv'
  BY <1>1, NextTInv
<1>6. Ended'
  BY EndedStays DEF IRInv
<1> QED BY <1>2, <1>3, <1>4, <1>5, <1>6 DEF IRInv

\* The flow beside IRGen is told, and tells nothing.
LEMMA FlowSteps == [FlowNext]_allVars => [Next]_vars
<1>1. UNCHANGED allVars => UNCHANGED vars
  BY DEF allVars
<1>2. FlowNext => Next
  BY DEF FlowNext, Next, Finished
<1> QED BY <1>1, <1>2

-----------------------------------------------------------------------------
(***************************************************************************)
(* Lowering one block: its instructions up to the first that stops, one    *)
(* for one.                                                                *)
(***************************************************************************)
Codes == [op : Ops \cup {"unreachable"}, dest : Nat, args : Seq(Nat), to : Seq(Nat)]
Positions(to) == [t \in DOMAIN to |-> blockMap[to[t]]]
Copy(instr) == LLInstr(instr.op, instr.dest, instr.args, Positions(instr.to))

LEMMA EmitOne ==
  ASSUME NEW instr \in Instr, Proper(instr), NEW known, Args(instr) \subseteq known,
         \A t \in DOMAIN instr.to : blockMap[instr.to[t]] \in Nat
  PROVE  /\ Copy(instr) \in Codes
         /\ instr.op \notin {"exit", "ret"} => Emitted(instr, known) = <<Copy(instr)>>
         /\ instr.op = "exit" =>
              Emitted(instr, known) = <<LLInstr("exit", instr.dest, instr.args, <<>>),
                                        LLInstr("unreachable", NoReg, <<>>, <<>>)>>
         /\ instr.op = "ret" =>
              \E op \in {"ret", "unreachable"} :
                Emitted(instr, known) = <<LLInstr(op, instr.dest, instr.args, <<>>)>>
<1>1. /\ instr.op \in Ops /\ instr.dest \in Nat /\ instr.args \in Seq(Nat) /\ instr.to \in Seq(Label)
      /\ instr.op # "named" /\ (instr.op = "ret" => instr.to = <<>> /\ instr.dest = NoReg)
  BY DEF Instr, Proper, Terminators
<1>2. Resolve(known, instr.args) = instr.args
  <2>1. \A a \in DOMAIN instr.args : instr.args[a] \in known
    BY DEF Args
  <2>2. Resolve(known, instr.args) = [a \in DOMAIN instr.args |-> instr.args[a]]
    BY <2>1 DEF Resolve
  <2> QED BY <1>1, <2>2
<1>3. Positions(instr.to) \in Seq(Nat)
  <2>1. DOMAIN instr.to = 1 .. Len(instr.to) /\ Len(instr.to) \in Nat
    BY <1>1
  <2> QED BY <2>1 DEF Positions
<1>4. Copy(instr) \in Codes
  BY <1>1, <1>3 DEF Copy, Codes, LLInstr
<1>5. CASE instr.op \notin {"exit", "ret"}
  BY <1>1, <1>2, <1>4, <1>5 DEF Emitted, Copy, Positions
<1>6. CASE instr.op = "exit"
  BY <1>2, <1>4, <1>6 DEF Emitted
<1>7. CASE instr.op = "ret"
  <2>1. CASE instr.args = <<>>
    <3>1. Emitted(instr, known) = <<Implicit>>
      BY <1>2, <1>7, <2>1 DEF Emitted
    <3> QED BY <1>1, <1>4, <1>7, <2>1, <3>1 DEF Implicit
  <2>2. CASE instr.args # <<>>
    <3>1. Emitted(instr, known) = <<LLInstr("ret", instr.dest, instr.args, [t \in DOMAIN instr.to |-> blockMap[instr.to[t]]])>>
      BY <1>2, <1>7, <2>2 DEF Emitted
    <3>2. [t \in DOMAIN instr.to |-> blockMap[instr.to[t]]] = <<>>
      BY <1>1, <1>7
    <3> QED BY <1>4, <1>7, <3>1, <3>2
  <2> QED BY <2>1, <2>2
<1> QED BY <1>4, <1>5, <1>6, <1>7

\* Where a block stops.
StopsAt(block, m) ==
  /\ m \in 1 .. Len(block.instrs) /\ block.instrs[m].op \in Stops
  /\ \A i \in 1 .. m - 1 : block.instrs[i].op \notin Stops
  /\ \A j \in m + 1 .. Len(block.instrs) : block.instrs[j].dest = NoReg

LEMMA StopExists ==
  ASSUME NEW block \in Block, Closed(block), TidyBlock(block)
  PROVE  \E m \in 1 .. Len(block.instrs) : StopsAt(block, m)
<1> DEFINE code == block.instrs
           n == Len(code)
           at == {i \in 1 .. n : code[i].op \in Stops}
<1>1. code \in Seq(Instr) /\ n \in Nat /\ code # <<>> /\ n \in 1 .. n /\ code[n].op \in Terminators
      /\ \A i \in 1 .. n - 1 : code[i].op \notin Terminators
  BY DEF Block, Closed, Terminated
<1>2. n \in at
  BY <1>1 DEF Stops
<1>3. PICK m \in at : \A i \in at : m <= i
  <2>1. at \subseteq Nat
    OBVIOUS
  <2> HIDE DEF at
  <2> QED BY <1>2, <2>1, LeastExists
<1>4. \A i \in 1 .. m - 1 : code[i].op \notin Stops
  <2> SUFFICES ASSUME NEW i \in 1 .. m - 1, code[i].op \in Stops PROVE FALSE
    OBVIOUS
  <2>1. i \in 1 .. n /\ ~(m <= i)
    BY <1>1, <1>3
  <2> QED BY <1>3, <2>1
<1>5. ASSUME NEW j \in m + 1 .. n PROVE code[j].dest = NoReg
  <2>1. m \in 1 .. n - 1
    BY <1>1, <1>3, <1>5
  <2>2. code[m].op \in Ops
    <3>1. code[m] \in Instr
      BY <1>1, <1>3
    <3> QED BY <3>1 DEF Instr
  <2>3. code[m].op = "exit"
    BY <1>1, <1>3, <2>1, <2>2 DEF Stops, Ops, Terminators
  <2>4. m \in Exits(block)
    BY <1>3, <2>3 DEF Exits
  <2> QED BY <2>4 DEF TidyBlock, Trailing
<1> QED BY <1>3, <1>4, <1>5 DEF StopsAt

\* A block's LLVM code: the same instructions, and what exit and ret become.
Rendered(code, block, m) ==
  /\ StopsAt(block, m) /\ code \in Seq(Codes)
  /\ Len(code) = IF block.instrs[m].op = "exit" THEN m + 1 ELSE m
  /\ \A i \in 1 .. m - 1 : code[i] = Copy(block.instrs[i])
  /\ code[m].dest = block.instrs[m].dest /\ code[m].args = block.instrs[m].args
  /\ CASE block.instrs[m].op = "exit" ->
            /\ code[m].op = "exit"
            /\ code[m + 1] = LLInstr("unreachable", NoReg, <<>>, <<>>)
       [] block.instrs[m].op = "ret" -> code[m].op \in {"ret", "unreachable"} /\ code[m].to = <<>>
       [] OTHER -> code[m] = Copy(block.instrs[m])

Round(before, instr) ==
  IF HasTerminator(before.code) THEN before
  ELSE [code  |-> before.code \o Emitted(instr, before.known),
        known |-> before.known \cup ({instr.dest} \ {NoReg})]
Rounds(f, code, instrs, known, count) ==
  f = [i \in 0 .. count |-> IF i = 0 THEN [code |-> code, known |-> known]
                            ELSE Round(f[i - 1], instrs[i])]

LEMMA RoundsExist ==
  ASSUME NEW code, NEW instrs, NEW known, NEW count \in Nat
  PROVE  \E f : Rounds(f, code, instrs, known, count)
<1> DEFINE T == {n \in Nat : ~ \E f : Rounds(f, code, instrs, known, n)}
<1>1. SUFFICES ASSUME T # {} PROVE FALSE
  OBVIOUS
<1>2. PICK m \in T : \A k \in T : m <= k
  <2>1. T \subseteq Nat
    OBVIOUS
  <2> HIDE DEF T
  <2> QED BY <1>1, <2>1, LeastExists
<1>3. m \in Nat /\ m # 0
  <2>1. Rounds([n \in 0 .. 0 |-> [code |-> code, known |-> known]], code, instrs, known, 0)
    BY DEF Rounds
  <2> QED BY <1>2, <2>1
<1>4. m - 1 \in Nat /\ ~(m <= m - 1)
  BY <1>3
<1>5. PICK f : Rounds(f, code, instrs, known, m - 1)
  BY <1>2, <1>4
<1> DEFINE g == [n \in 0 .. m |-> IF n = 0 THEN [code |-> code, known |-> known]
                                  ELSE Round(f[n - 1], instrs[n])]
<1>6. ASSUME NEW n \in 0 .. m - 1 PROVE g[n] = f[n]
  <2>1. n \in 0 .. m
    BY <1>3
  <2>2. f[n] = IF n = 0 THEN [code |-> code, known |-> known] ELSE Round(f[n - 1], instrs[n])
    <3> HIDE DEF g
    <3> QED BY <1>5, Zenon DEF Rounds
  <2> QED BY <2>1, <2>2
<1>7. \A n \in 0 .. m : n # 0 => n - 1 \in 0 .. m - 1
  BY <1>3
<1>8. Rounds(g, code, instrs, known, m)
  BY <1>6, <1>7 DEF Rounds
<1> HIDE DEF g
<1> QED BY <1>2, <1>8

Emitting(code, instrs, known) == CHOOSE f : Rounds(f, code, instrs, known, Len(instrs))

LEMMA EmitSteps ==
  ASSUME NEW code, NEW instrs, NEW known, Len(instrs) \in Nat
  PROVE  /\ Emitting(code, instrs, known)[Len(instrs)] = EmitAll(code, instrs, known)
         /\ Emitting(code, instrs, known)[0] = [code |-> code, known |-> known]
         /\ \A i \in 1 .. Len(instrs) :
              Emitting(code, instrs, known)[i] = Round(Emitting(code, instrs, known)[i - 1], instrs[i])
<1> DEFINE h == Emitting(code, instrs, known)
<1>1. Rounds(h, code, instrs, known, Len(instrs))
  BY RoundsExist DEF Emitting
<1>2. EmitAll(code, instrs, known) = h[Len(instrs)]
  BY DEF EmitAll, Rounds, Round, Emitting
<1> HIDE DEF h
<1>3. h[0] = [code |-> code, known |-> known]
  BY <1>1 DEF Rounds
<1>4. ASSUME NEW i \in 1 .. Len(instrs) PROVE h[i] = Round(h[i - 1], instrs[i])
  <2>1. i \in 0 .. Len(instrs) /\ i # 0
    OBVIOUS
  <2> QED BY <1>1, <2>1 DEF Rounds
<1> QED BY <1>2, <1>3, <1>4 DEF h

\* Induction up to a bound.
LEMMA Climb ==
  ASSUME NEW lo \in Nat, NEW hi \in Nat, NEW T, lo \in T,
         \A k \in lo .. hi - 1 : k \in T => k + 1 \in T
  PROVE  \A k \in lo .. hi : k \in T
<1> DEFINE B == {k \in lo .. hi : k \notin T}
<1> SUFFICES ASSUME B # {} PROVE FALSE
  OBVIOUS
<1>1. B \subseteq Nat
  OBVIOUS
<1>2. PICK k \in B : \A j \in B : k <= j
  <2> HIDE DEF B
  <2> QED BY <1>1, LeastExists
<1>3. k \in lo .. hi /\ k \notin T /\ k # lo
  BY <1>2
<1>4. k - 1 \in lo .. hi - 1 /\ k - 1 \notin B /\ k - 1 \in lo .. hi
  BY <1>2, <1>3
<1>5. k - 1 \in T /\ (k - 1) + 1 = k
  BY <1>3, <1>4
<1> QED BY <1>3, <1>4, <1>5

LEMMA TwoMore ==
  ASSUME NEW S, NEW s \in Seq(S), NEW t \in Seq(S), Len(t) = 2
  PROVE  /\ s \o t \in Seq(S) /\ Len(s \o t) = Len(s) + 2
         /\ (s \o t)[Len(s) + 1] = t[1] /\ (s \o t)[Len(s) + 2] = t[2]
         /\ \A j \in 1 .. Len(s) : (s \o t)[j] = s[j]
<1>1. Len(s) \in Nat /\ 1 \in 1 .. Len(t) /\ 2 \in 1 .. Len(t)
  OBVIOUS
<1>2. s \o t \in Seq(S) /\ Len(s \o t) = Len(s) + Len(t)
      /\ \A i \in 1 .. Len(s) + Len(t) :
           (s \o t)[i] = IF i <= Len(s) THEN s[i] ELSE t[i - Len(s)]
  BY ConcatProperties
<1>3. Len(s) + 1 \in 1 .. Len(s) + Len(t) /\ Len(s) + 2 \in 1 .. Len(s) + Len(t)
      /\ ~(Len(s) + 1 <= Len(s)) /\ ~(Len(s) + 2 <= Len(s))
      /\ (Len(s) + 1) - Len(s) = 1 /\ (Len(s) + 2) - Len(s) = 2
  BY <1>1
<1>4. \A j \in 1 .. Len(s) : j \in 1 .. Len(s) + Len(t) /\ j <= Len(s)
  BY <1>1
<1> DEFINE u == s \o t
<1> HIDE DEF u
<1>5. u \in Seq(S) /\ Len(u) = Len(s) + Len(t)
      /\ \A i \in 1 .. Len(s) + Len(t) : u[i] = IF i <= Len(s) THEN s[i] ELSE t[i - Len(s)]
  BY <1>2 DEF u
<1>6. u[Len(s) + 1] = t[1] /\ u[Len(s) + 2] = t[2]
  BY <1>3, <1>5
<1>7. \A j \in 1 .. Len(s) : u[j] = s[j]
  BY <1>4, <1>5
<1> QED BY <1>5, <1>6, <1>7 DEF u

LEMMA BlockEmitted ==
  ASSUME NEW block \in Block, Closed(block), TidyBlock(block), NEW known, NoReg \notin known,
         \A i \in 1 .. Len(block.instrs) : \A a \in Args(block.instrs[i]) :
           a \in known \/ \E j \in 1 .. i - 1 : block.instrs[j].dest = a,
         \A i \in 1 .. Len(block.instrs) : \A t \in DOMAIN block.instrs[i].to :
           blockMap[block.instrs[i].to[t]] \in Nat
  PROVE  LET done == EmitAll(<<>>, block.instrs, known)
         IN  /\ \E m \in 1 .. Len(block.instrs) : Rendered(done.code, block, m)
             /\ HasTerminator(done.code)
             /\ done.known = known \cup (Defines(block) \ {NoReg})
<1> DEFINE code == block.instrs
           n == Len(code)
           e == Emitting(<<>>, code, known)
           KnownAt(i) == known \cup ({code[j].dest : j \in 1 .. i} \ {NoReg})
           P(i) == /\ e[i].code \in Seq(Codes) /\ Len(e[i].code) = i
                   /\ \A j \in 1 .. i : e[i].code[j] = Copy(code[j])
                   /\ e[i].known = KnownAt(i)
<1>1. /\ code \in Seq(Instr) /\ n \in Nat /\ DOMAIN code = 1 .. n
      /\ \A i \in 1 .. n : code[i] \in Instr /\ Proper(code[i])
  BY DEF Block, TidyBlock
<1>2. /\ e[n] = EmitAll(<<>>, code, known) /\ e[0] = [code |-> <<>>, known |-> known]
      /\ \A i \in 1 .. n : e[i] = Round(e[i - 1], code[i])
  BY <1>1, EmitSteps
<1>3. PICK m \in 1 .. n : StopsAt(block, m)
  BY StopExists
<1>4. /\ m \in 1 .. n /\ code[m].op \in Stops /\ \A i \in 1 .. m - 1 : code[i].op \notin Stops
      /\ \A j \in m + 1 .. n : code[j].dest = NoReg
  BY <1>3 DEF StopsAt
<1> HIDE DEF e
<1>5. ASSUME NEW i \in 1 .. n, Args(code[i]) \subseteq KnownAt(i - 1)
      PROVE  /\ Copy(code[i]) \in Codes
             /\ code[i].op \notin {"exit", "ret"} => Emitted(code[i], KnownAt(i - 1)) = <<Copy(code[i])>>
             /\ code[i].op = "exit" =>
                  Emitted(code[i], KnownAt(i - 1)) = <<LLInstr("exit", code[i].dest, code[i].args, <<>>),
                                                     LLInstr("unreachable", NoReg, <<>>, <<>>)>>
             /\ code[i].op = "ret" =>
                  \E op \in {"ret", "unreachable"} :
                    Emitted(code[i], KnownAt(i - 1)) = <<LLInstr(op, code[i].dest, code[i].args, <<>>)>>
  BY <1>1, <1>5, EmitOne
<1>6. ASSUME NEW i \in 1 .. n PROVE Args(code[i]) \subseteq KnownAt(i - 1)
  BY <1>1, <1>6 DEF Proper
<1>7. ASSUME NEW i \in 1 .. n PROVE KnownAt(i) = KnownAt(i - 1) \cup ({code[i].dest} \ {NoReg})
  <2>1. \A j \in 1 .. i : j \in 1 .. i - 1 \/ j = i
    OBVIOUS
  <2>2. i \in 1 .. i /\ \A j \in 1 .. i - 1 : j \in 1 .. i
    OBVIOUS
  <2> QED BY <2>1, <2>2
<1>8. P(0)
  <2>1. 1 .. 0 = {}
    OBVIOUS
  <2> QED BY <1>2, <2>1
<1>9. ASSUME NEW i \in 0 .. m - 2, P(i) PROVE P(i + 1)
  <2>1. i + 1 \in 1 .. n /\ i + 1 \in 1 .. m - 1 /\ (i + 1) - 1 = i /\ i \in Nat
    BY <1>1, <1>4
  <2>2. code[i + 1].op \notin {"exit", "ret"}
    BY <1>4, <2>1 DEF Stops, Terminators
  <2>3. Emitted(code[i + 1], e[i].known) = <<Copy(code[i + 1])>> /\ Copy(code[i + 1]) \in Codes
    BY <1>5, <1>6, <1>9, <2>1, <2>2
  <2>4. ~HasTerminator(e[i].code)
    <3> SUFFICES ASSUME i # 0 PROVE e[i].code[i].op \notin LLTerminators
      BY <1>9 DEF HasTerminator
    <3>1. i \in 1 .. i /\ i \in 1 .. m - 1 /\ i \in 1 .. n
      BY <1>1, <1>4, <2>1
    <3>2. e[i].code[i] = Copy(code[i])
      BY <1>9, <3>1
    <3>3. e[i].code[i].op = code[i].op
      BY <3>2 DEF Copy, LLInstr
    <3> QED BY <1>4, <3>1, <3>3 DEF Stops, LLTerminators, Terminators
  <2>5. e[i + 1] = [code  |-> e[i].code \o <<Copy(code[i + 1])>>,
                    known |-> e[i].known \cup ({code[i + 1].dest} \ {NoReg})]
    BY <1>2, <2>1, <2>3, <2>4 DEF Round
  <2> DEFINE c == Copy(code[i + 1])
             s == e[i].code
  <2>6. s \in Seq(Codes) /\ c \in Codes /\ Len(s) = i /\ \A j \in 1 .. i : s[j] = Copy(code[j])
    BY <1>9, <2>3
  <2>7. e[i + 1].code = s \o <<c>>
    BY <2>5
  <2> HIDE DEF c, s
  <2>8. /\ e[i + 1].code \in Seq(Codes) /\ Len(e[i + 1].code) = i + 1
        /\ \A j \in 1 .. i : e[i + 1].code[j] = s[j]
        /\ e[i + 1].code[i + 1] = c
    BY <2>1, <2>6, <2>7
  <2>9. \A j \in 1 .. i + 1 : e[i + 1].code[j] = Copy(code[j])
    <3>1. \A j \in 1 .. i + 1 : j \in 1 .. i \/ j = i + 1
      BY <2>1
    <3> QED BY <2>6, <2>8, <3>1 DEF c
  <2>10. e[i + 1].known = KnownAt(i + 1)
    BY <1>7, <1>9, <2>1, <2>5
  <2> QED BY <2>8, <2>9, <2>10
<1>10. P(m - 1)
  <2> DEFINE T == {i \in Nat : P(i)}
  <2>1. 0 \in T /\ m - 1 \in Nat /\ m - 1 \in 0 .. m - 1
    BY <1>4, <1>8
  <2>2. \A i \in 0 .. (m - 1) - 1 : i \in T => i + 1 \in T
    <3>1. \A i \in 0 .. (m - 1) - 1 : i \in 0 .. m - 2 /\ i + 1 \in Nat
      BY <1>4
    <3> HIDE DEF P
    <3> QED BY <1>9, <3>1
  <2> HIDE DEF T, P
  <2>3. \A i \in 0 .. m - 1 : i \in T
    BY <2>1, <2>2, Climb
  <2> QED BY <2>1, <2>3 DEF T
<1> DEFINE s == e[m - 1].code
<1>11. /\ s \in Seq(Codes) /\ Len(s) = m - 1 /\ \A j \in 1 .. m - 1 : s[j] = Copy(code[j])
       /\ e[m - 1].known = KnownAt(m - 1) /\ m - 1 \in Nat
  BY <1>4, <1>10
<1>12. ~HasTerminator(s)
  <2> SUFFICES ASSUME m - 1 # 0 PROVE s[m - 1].op \notin LLTerminators
    BY <1>11 DEF HasTerminator
  <2>1. m - 1 \in 1 .. m - 1 /\ m - 1 \in 1 .. n
    BY <1>1, <1>4
  <2>2. s[m - 1] = Copy(code[m - 1])
    BY <1>11, <2>1
  <2>3. s[m - 1].op = code[m - 1].op
    BY <2>2 DEF Copy, LLInstr
  <2> QED BY <1>4, <2>1, <2>3 DEF Stops, LLTerminators, Terminators
<1>13. e[m] = [code  |-> s \o Emitted(code[m], KnownAt(m - 1)),
               known |-> KnownAt(m - 1) \cup ({code[m].dest} \ {NoReg})]
  BY <1>2, <1>4, <1>11, <1>12 DEF Round
<1>14. e[m].known = KnownAt(m)
  BY <1>4, <1>7, <1>13
<1>15. Rendered(e[m].code, block, m) /\ HasTerminator(e[m].code)
  <2> DEFINE c == code[m]
             out == Emitted(c, KnownAt(m - 1))
             full == e[m].code
             stop == LLInstr("unreachable", NoReg, <<>>, <<>>)
  <2>0. full = s \o out
    <3> DEFINE K == KnownAt(m - 1) \cup ({code[m].dest} \ {NoReg})
    <3>1. e[m] = [code |-> s \o out, known |-> K]
      BY <1>13
    <3> HIDE DEF s, out, K
    <3> QED BY <3>1
  <2>1. /\ Copy(c) \in Codes /\ c \in Instr
        /\ c.op \notin {"exit", "ret"} => out = <<Copy(c)>>
        /\ c.op = "exit" => out = <<LLInstr("exit", c.dest, c.args, <<>>), stop>>
        /\ c.op = "ret" =>
             \E op \in {"ret", "unreachable"} : out = <<LLInstr(op, c.dest, c.args, <<>>)>>
    BY <1>1, <1>4, <1>5, <1>6
  <2>2. c.op \in Stops /\ c.op \in Ops /\ c.dest \in Nat /\ c.args \in Seq(Nat)
    BY <1>4, <2>1 DEF Instr
  <2>3. \A op \in Ops \cup {"unreachable"} : LLInstr(op, c.dest, c.args, <<>>) \in Codes
    BY <2>2 DEF Codes, LLInstr
  <2>4. stop \in Codes /\ stop.op = "unreachable"
    BY DEF Codes, LLInstr, NoReg
  <2>5. ASSUME NEW r \in Codes, out = <<r>>
        PROVE  /\ full \in Seq(Codes) /\ Len(full) = m /\ full[m] = r
               /\ \A j \in 1 .. m - 1 : full[j] = Copy(code[j])
    <3> HIDE DEF s, full, out
    <3>1. full = s \o <<r>> /\ m = Len(s) + 1
      BY <1>4, <1>11, <2>0, <2>5
    <3>2. /\ full \in Seq(Codes) /\ Len(full) = Len(s) + 1 /\ full[Len(s) + 1] = r
          /\ \A j \in 1 .. Len(s) : full[j] = s[j]
      BY <1>11, <3>1
    <3> QED BY <1>11, <3>1, <3>2
  <2>6. CASE c.op = "exit"
    <3> DEFINE x == LLInstr("exit", c.dest, c.args, <<>>)
    <3>1. x \in Codes /\ out = <<x, stop>>
      BY <2>1, <2>2, <2>3, <2>6
    <3>2. x.op = "exit" /\ x.dest = c.dest /\ x.args = c.args
      BY DEF LLInstr
    <3> HIDE DEF s, full, out, stop, x
    <3>3. full = s \o <<x, stop>> /\ m = Len(s) + 1
      BY <1>4, <1>11, <2>0, <3>1
    <3>4. /\ full \in Seq(Codes) /\ Len(full) = Len(s) + 2
          /\ full[Len(s) + 1] = x /\ full[Len(s) + 2] = stop
          /\ \A j \in 1 .. Len(s) : full[j] = s[j]
      <4> DEFINE pair == <<x, stop>>
      <4>1. pair \in Seq(Codes) /\ Len(pair) = 2 /\ pair[1] = x /\ pair[2] = stop
        BY <2>4, <3>1
      <4>2. full = s \o pair
        BY <3>3
      <4> HIDE DEF pair
      <4>3. s \in Seq(Codes)
        BY <1>11
      <4> QED BY <4>1, <4>2, <4>3, TwoMore
    <3>5. Len(full) = m + 1 /\ full[m] = x /\ full[m + 1] = stop /\ \A j \in 1 .. m - 1 : full[j] = Copy(code[j])
      BY <1>4, <1>11, <3>3, <3>4
    <3>6. HasTerminator(full)
      BY <1>4, <2>4, <3>4, <3>5 DEF HasTerminator, LLTerminators
    <3> QED BY <1>3, <2>6, <3>2, <3>4, <3>5, <3>6 DEF Rendered, full, stop
  <2>7. CASE c.op = "ret"
    <3>1. PICK op \in {"ret", "unreachable"} : out = <<LLInstr(op, c.dest, c.args, <<>>)>>
      BY <2>1, <2>7
    <3> DEFINE x == LLInstr(op, c.dest, c.args, <<>>)
    <3>2. x.op = op /\ x.dest = c.dest /\ x.args = c.args /\ x.to = <<>> /\ x \in Codes
      BY <2>3, <2>7, <2>2 DEF LLInstr
    <3> HIDE DEF x
    <3>3. /\ full \in Seq(Codes) /\ Len(full) = m /\ full[m] = x
          /\ \A j \in 1 .. m - 1 : full[j] = Copy(code[j])
      BY <2>5, <3>1, <3>2 DEF x
    <3> HIDE DEF full
    <3>4. HasTerminator(full)
      BY <1>4, <3>1, <3>2, <3>3 DEF HasTerminator, LLTerminators
    <3>5. Rendered(full, block, m)
      BY <1>3, <2>7, <3>1, <3>2, <3>3 DEF Rendered
    <3> QED BY <3>4, <3>5 DEF full
  <2>8. CASE c.op \notin {"exit", "ret"}
    <3> DEFINE x == Copy(c)
    <3>1. x \in Codes /\ out = <<x>> /\ x.op = c.op /\ x.dest = c.dest /\ x.args = c.args
      BY <2>1, <2>8 DEF Copy, LLInstr
    <3> HIDE DEF out, x
    <3>2. /\ full \in Seq(Codes) /\ Len(full) = m /\ full[m] = x
          /\ \A j \in 1 .. m - 1 : full[j] = Copy(code[j])
      BY <2>5, <3>1
    <3> HIDE DEF full
    <3>3. HasTerminator(full)
      BY <1>4, <2>2, <2>8, <3>1, <3>2 DEF HasTerminator, LLTerminators, Stops, Terminators, Ops
    <3>4. Rendered(full, block, m)
      BY <1>3, <2>8, <3>1, <3>2 DEF Rendered, x
    <3> QED BY <3>3, <3>4 DEF full
  <2> QED BY <2>6, <2>7, <2>8
<1>16. e[n] = e[m]
  <2> DEFINE T == {i \in Nat : e[i] = e[m]}
  <2>1. m \in T /\ m \in Nat
    BY <1>4
  <2>2. \A i \in m .. n - 1 : i \in T => i + 1 \in T
    <3> SUFFICES ASSUME NEW i \in m .. n - 1, e[i] = e[m] PROVE e[i + 1] = e[m]
      BY <2>1
    <3>1. i + 1 \in 1 .. n /\ (i + 1) - 1 = i
      BY <1>4
    <3> QED BY <1>2, <1>15, <3>1 DEF Round
  <2> HIDE DEF T
  <2>3. \A i \in m .. n : i \in T
    BY <1>1, <2>1, <2>2, Climb
  <2>4. n \in m .. n
    BY <1>1, <1>4
  <2> QED BY <2>3, <2>4 DEF T
<1>17. KnownAt(m) = known \cup (Defines(block) \ {NoReg})
  <2>1. Defines(block) = {code[j].dest : j \in 1 .. n}
    BY <1>1 DEF Defines
  <2>2. \A j \in 1 .. n : j \in 1 .. m \/ code[j].dest = NoReg
    BY <1>4
  <2>3. \A j \in 1 .. m : j \in 1 .. n
    BY <1>4
  <2> QED BY <2>1, <2>2, <2>3
<1> HIDE DEF KnownAt, P, s
<1> QED BY <1>2, <1>14, <1>15, <1>16, <1>17

-----------------------------------------------------------------------------
(***************************************************************************)
(* Lowering the blocks in text order: the blocks before next have been     *)
(* rendered, the others are empty, and a value stands for every register   *)
(* defined so far.                                                         *)
(***************************************************************************)
DefinedBefore(k) == {r \in UNION {Defines(ir.blocks[d]) : d \in 1 .. k - 1} : r # NoReg}
Mapped == \A k \in 1 .. Len(ir.blocks) : blockMap[ir.blocks[k].label] = k
Lowered(k) ==
  /\ HasTerminator(ll[k])
  /\ \E m \in 1 .. Len(ir.blocks[k].instrs) : Rendered(ll[k], ir.blocks[k], m)
Underway ==
  /\ stage \in {"lowering", "verify", "accepted"} /\ phase = "done" /\ Mapped
  /\ next \in 1 .. Len(ir.blocks) + 1
  /\ stage = "lowering" <=> next <= Len(ir.blocks)
  /\ DOMAIN ll = 1 .. Len(ir.blocks)
  /\ \A k \in 1 .. next - 1 : Lowered(k)
  /\ \A k \in next .. Len(ir.blocks) : ll[k] = <<>>
  /\ regs = DefinedBefore(next)
LowInv == (stage = "wait" /\ ll = <<>> /\ next = 1 /\ regs = {}) \/ Underway

\* A finished function, in the terms used here.
LEMMA AtDone ==
  ASSUME Ordinary, IRInv, phase = "done"
  PROVE  LET n == Len(ir.blocks)
         IN  /\ n \in Nat \ {0} /\ DOMAIN ir.blocks = 1 .. n
             /\ \A k \in 1 .. n :
                  /\ ir.blocks[k] \in Block /\ ir.blocks[k].instrs \in Seq(Instr)
                  /\ Closed(ir.blocks[k]) /\ TidyBlock(ir.blocks[k])
                  /\ BranchTargets(ir.blocks[k]) \subseteq {ir.blocks[j].label : j \in 1 .. n}
             /\ \A j, k \in 1 .. n : ir.blocks[j].label = ir.blocks[k].label => j = k
             /\ UsesInOrder
<1> DEFINE n == Len(ir.blocks)
<1>1. /\ IInv /\ LInv /\ UInv /\ TInv /\ frames = <<>> /\ "partial" \notin Lang
  BY DEF IRInv, Ended, Ordinary, Plain
<1>2. Shut(ir) /\ UsesInOrder /\ Tidy(ir)
  BY <1>1 DEF IInv, Discipline, UInv, TInv
<1>3. /\ n \in Nat \ {0} /\ DOMAIN ir.blocks = 1 .. n
      /\ \A k \in 1 .. n : ir.blocks[k] \in Block /\ ir.blocks[k].instrs \in Seq(Instr)
  BY <1>2, BlocksOf DEF Shut
<1>4. ASSUME NEW k \in 1 .. n PROVE Closed(ir.blocks[k]) /\ TidyBlock(ir.blocks[k])
  <2>1. k = n \/ k \in 1 .. n - 1
    BY <1>3
  <2> QED BY <1>2, <2>1 DEF Shut, Wellformed, Tidy
<1>5. Depth = 0 /\ PendingTo(frames, Depth) = {}
  BY <1>1 DEF Depth, PendingTo
<1>6. /\ \A k \in 1 .. n : BranchTargets(ir.blocks[k]) \subseteq UpTo(ir, n)
      /\ \A j, k \in 1 .. n : ir.blocks[j].label = ir.blocks[k].label => j = k
  BY <1>1, <1>5, AtLabels
<1> QED BY <1>2, <1>3, <1>4, <1>6 DEF UpTo

\* Every use of a block has its value when lowering comes to the block.
LEMMA UsesLowered ==
  ASSUME Ordinary, IRInv, phase = "done", NEW k \in 1 .. Len(ir.blocks),
         NEW i \in 1 .. Len(ir.blocks[k].instrs), NEW a \in Args(ir.blocks[k].instrs[i])
  PROVE  a \in DefinedBefore(k) \/ \E j \in 1 .. i - 1 : ir.blocks[k].instrs[j].dest = a
<1>1. UsesInOrder /\ a # NoReg
  BY AtDone DEF TidyBlock, Proper
<1>2. (\E j \in 1 .. i - 1 : ir.blocks[k].instrs[j].dest = a) \/ Served(ir, Open, Nameable, k, a)
  BY <1>1 DEF UsesInOrder, Uses
<1>3. Served(ir, Open, Nameable, k, a) => a \in DefinedBefore(k)
  BY <1>1 DEF Served, DefinedBefore
<1> QED BY <1>2, <1>3

LEMMA TargetsMapped ==
  ASSUME Ordinary, IRInv, phase = "done", Mapped, NEW k \in 1 .. Len(ir.blocks),
         NEW i \in 1 .. Len(ir.blocks[k].instrs), NEW t \in DOMAIN ir.blocks[k].instrs[i].to
  PROVE  \E c \in 1 .. Len(ir.blocks) :
           ir.blocks[c].label = ir.blocks[k].instrs[i].to[t] /\ blockMap[ir.blocks[k].instrs[i].to[t]] = c
<1>1. DOMAIN ir.blocks[k].instrs = 1 .. Len(ir.blocks[k].instrs)
  BY AtDone
<1>2. ir.blocks[k].instrs[i].to[t] \in BranchTargets(ir.blocks[k])
  BY <1>1 DEF BranchTargets
<1>3. PICK c \in 1 .. Len(ir.blocks) : ir.blocks[c].label = ir.blocks[k].instrs[i].to[t]
  BY <1>2, AtDone
<1> QED BY <1>3 DEF Mapped

LEMMA CreateLow ==
  ASSUME Ordinary, IRInv, LowInv, CreateBlocks
  PROVE  LowInv'
<1> DEFINE n == Len(ir.blocks)
           Last(l) == CHOOSE k \in DOMAIN ir.blocks :
                        /\ ir.blocks[k].label = l
                        /\ \A j \in DOMAIN ir.blocks : ir.blocks[j].label = l => j <= k
<1>1. /\ stage = "wait" /\ next = 1 /\ regs = {} /\ phase = "done"
      /\ stage' = "lowering" /\ next' = 1 /\ regs' = {} /\ ir' = ir /\ phase' = phase
      /\ ll' = [k \in DOMAIN ir.blocks |-> <<>>]
  BY DEF LowInv, Underway, CreateBlocks, allVars, vars
<1>2. blockMap' = [l \in BlockLabels |-> Last(l)]
  BY DEF CreateBlocks
<1>3. /\ n \in Nat \ {0} /\ DOMAIN ir.blocks = 1 .. n
      /\ \A j, k \in 1 .. n : ir.blocks[j].label = ir.blocks[k].label => j = k
  BY <1>1, AtDone
<1>4. ASSUME NEW k \in 1 .. n PROVE blockMap'[ir.blocks[k].label] = k
  <2> DEFINE l == ir.blocks[k].label
  <2>1. l \in BlockLabels
    BY <1>3 DEF BlockLabels
  <2>2. \A j \in 1 .. n : ir.blocks[j].label = l => j <= k
    BY <1>3
  <2>3. Last(l) = k
    BY <1>3, <2>2
  <2> HIDE DEF Last
  <2> QED BY <1>2, <2>1, <2>3
<1>5. Mapped'
  BY <1>1, <1>4 DEF Mapped
<1>6. DOMAIN ll' = 1 .. n /\ \A k \in 1 .. n : ll'[k] = <<>>
  BY <1>1, <1>3
<1>7. (DefinedBefore(next))' = {}
  <2>1. \A d : d \notin 1 .. next' - 1
    BY <1>1
  <2> QED BY <2>1 DEF DefinedBefore
<1>8. \A k : k \notin 1 .. next' - 1
  BY <1>1
<1>9. next' \in 1 .. n + 1 /\ next' <= n
  BY <1>1, <1>3
<1>10. Underway'
  BY <1>1, <1>5, <1>6, <1>7, <1>8, <1>9 DEF Underway
<1> QED BY <1>10 DEF LowInv

\* A block that has been lowered stays so.
LEMMA LoweredStays ==
  ASSUME NEW k, Lowered(k), ir' = ir, blockMap' = blockMap, ll'[k] = ll[k]
  PROVE  Lowered(k)'
<1> DEFINE code == ll[k]
           block == ir.blocks[k]
<1>1. PICK m \in 1 .. Len(block.instrs) : Rendered(code, block, m)
  BY DEF Lowered
<1>2. \A instr : Copy(instr)' = Copy(instr)
  BY DEF Copy, Positions
<1>3. Rendered(ll[k], ir.blocks[k], m)'
  BY <1>1, <1>2 DEF Rendered, StopsAt
<1>4. HasTerminator(ll[k])'
  BY DEF Lowered, HasTerminator
<1> QED BY <1>1, <1>3, <1>4 DEF Lowered

LEMMA LowerLow ==
  ASSUME Ordinary, IRInv, LowInv, LowerBlock
  PROVE  LowInv'
<1> DEFINE n == Len(ir.blocks)
           block == ir.blocks[next]
           done == EmitAll(<<>>, block.instrs, regs)
<1>1. /\ Underway /\ phase = "done" /\ stage = "lowering" /\ next \in 1 .. n /\ Mapped
      /\ DOMAIN ll = 1 .. n /\ ll[next] = <<>> /\ regs = DefinedBefore(next)
      /\ \A k \in 1 .. next - 1 : Lowered(k)
      /\ \A k \in next .. n : ll[k] = <<>>
  BY DEF LowInv, LowerBlock, Underway
<1>2. n \in Nat \ {0} /\ DOMAIN ir.blocks = 1 .. n
  BY <1>1, AtDone
<1>3. blockMap[block.label] = next
  BY <1>1 DEF Mapped
<1>4. /\ ll' = [ll EXCEPT ![next] = IF HasTerminator(done.code) THEN done.code
                                    ELSE Append(done.code, Implicit)]
      /\ regs' = done.known
  BY <1>1, <1>3 DEF LowerBlock
<1>5. /\ next' = next + 1 /\ blockMap' = blockMap /\ ir' = ir /\ phase' = phase
      /\ stage' = IF next = n THEN "verify" ELSE "lowering"
  BY <1>1 DEF LowerBlock, allVars, vars
<1>6. /\ (\E m \in 1 .. Len(block.instrs) : Rendered(done.code, block, m))
      /\ HasTerminator(done.code) /\ done.known = regs \cup (Defines(block) \ {NoReg})
  <2>1. block \in Block /\ Closed(block) /\ TidyBlock(block)
    BY <1>1, AtDone
  <2>2. NoReg \notin regs
    BY <1>1 DEF DefinedBefore
  <2>3. \A i \in 1 .. Len(block.instrs) : \A a \in Args(block.instrs[i]) :
          a \in regs \/ \E j \in 1 .. i - 1 : block.instrs[j].dest = a
    BY <1>1, UsesLowered
  <2>4. \A i \in 1 .. Len(block.instrs) : \A t \in DOMAIN block.instrs[i].to :
          blockMap[block.instrs[i].to[t]] \in Nat
    BY <1>1, <1>2, TargetsMapped
  <2> HIDE DEF block
  <2> QED BY <2>1, <2>2, <2>3, <2>4, BlockEmitted
<1> HIDE DEF done
<1>7. /\ DOMAIN ll' = 1 .. n /\ ll'[next] = done.code
      /\ \A k \in 1 .. n : k # next => ll'[k] = ll[k]
  BY <1>1, <1>4, <1>6
<1>8. ASSUME NEW k \in 1 .. next' - 1 PROVE Lowered(k)'
  <2>1. CASE k = next
    <3>1. \A instr : Copy(instr)' = Copy(instr)
      BY <1>5 DEF Copy, Positions
    <3>2. PICK m \in 1 .. Len(block.instrs) : Rendered(done.code, block, m)
      BY <1>6
    <3>3. Rendered(ll[k], ir.blocks[k], m)'
      BY <1>5, <1>7, <2>1, <3>1, <3>2 DEF Rendered, StopsAt
    <3>4. HasTerminator(ll[k])'
      BY <1>6, <1>7, <2>1 DEF HasTerminator
    <3>5. m \in 1 .. Len(ir'.blocks[k].instrs)
      BY <1>5, <2>1
    <3> QED BY <3>3, <3>4, <3>5 DEF Lowered
  <2>2. CASE k # next
    <3>1. k \in 1 .. next - 1 /\ k \in 1 .. n
      BY <1>1, <1>2, <1>5, <2>2
    <3> QED BY <1>1, <1>5, <1>7, <2>2, <3>1, LoweredStays
  <2> QED BY <2>1, <2>2
<1>9. \A k \in next' .. Len(ir'.blocks) : ll'[k] = <<>>
  <2>1. \A k \in next + 1 .. n : k # next /\ k \in next .. n /\ k \in 1 .. n
    BY <1>1
  <2> QED BY <1>1, <1>5, <1>7, <2>1
<1>10. regs' = (DefinedBefore(next))'
  <2>1. \A d : d \in 1 .. next <=> d \in 1 .. next - 1 \/ d = next
    BY <1>1
  <2>2. (DefinedBefore(next))' = {r \in UNION {Defines(ir.blocks[d]) : d \in 1 .. next} : r # NoReg}
    <3>1. next' - 1 = next
      BY <1>1, <1>5
    <3> QED BY <1>5, <3>1 DEF DefinedBefore
  <2>3. regs' = DefinedBefore(next) \cup (Defines(ir.blocks[next]) \ {NoReg})
    BY <1>1, <1>4, <1>6
  <2>4. ASSUME NEW r PROVE r \in regs' <=> r \in (DefinedBefore(next))'
    BY <2>1, <2>2, <2>3 DEF DefinedBefore
  <2> QED BY <2>4
<1>11. Mapped'
  BY <1>1, <1>5 DEF Mapped
<1>12. /\ next' \in 1 .. Len(ir'.blocks) + 1
       /\ stage' = "lowering" <=> next' <= Len(ir'.blocks)
       /\ stage' \in {"lowering", "verify", "accepted"} /\ phase' = "done"
       /\ DOMAIN ll' = 1 .. Len(ir'.blocks)
  BY <1>1, <1>2, <1>5, <1>7
<1> QED BY <1>8, <1>9, <1>10, <1>11, <1>12 DEF LowInv, Underway

\* What a block's LLVM code has at each place.
LEMMA RenderedCode ==
  ASSUME NEW code, NEW block \in Block, TidyBlock(block), NEW m, Rendered(code, block, m),
         NEW i \in 1 .. Len(code)
  PROVE  \/ i \in 1 .. m /\ code[i] = Copy(block.instrs[i]) /\ (i < m => code[i].op \notin Stops)
         \/ /\ i = m /\ code[i].op \in {"exit", "ret", "unreachable"}
            /\ code[i].op = "exit" => block.instrs[m].op = "exit"
            /\ code[i].args = block.instrs[m].args
         \/ /\ i = m + 1 /\ i = Len(code) /\ code[m].op = "exit"
            /\ code[i] = LLInstr("unreachable", NoReg, <<>>, <<>>)
<1> DEFINE c == block.instrs[m]
<1>1. /\ m \in 1 .. Len(block.instrs) /\ \A j \in 1 .. m - 1 : block.instrs[j].op \notin Stops
      /\ Len(code) = (IF c.op = "exit" THEN m + 1 ELSE m) /\ m \in Nat
      /\ \A j \in 1 .. m - 1 : code[j] = Copy(block.instrs[j])
      /\ code[m].args = c.args
  BY DEF Rendered, StopsAt
<1>2. /\ c.op = "exit" => code[m].op = "exit" /\ code[m + 1] = LLInstr("unreachable", NoReg, <<>>, <<>>)
      /\ c.op = "ret" => code[m].op \in {"ret", "unreachable"}
      /\ c.op \notin {"exit", "ret"} => code[m] = Copy(c)
  BY DEF Rendered
<1>3. CASE i \in 1 .. m - 1
  <2>1. code[i] = Copy(block.instrs[i]) /\ block.instrs[i].op \notin Stops /\ i \in 1 .. m
    BY <1>1, <1>3
  <2>2. code[i].op = block.instrs[i].op
    BY <2>1 DEF Copy, LLInstr
  <2> QED BY <2>1, <2>2
<1>4. CASE i = m
  <2>1. code[i].args = block.instrs[m].args /\ ~(i < m) /\ i \in 1 .. m
    BY <1>1, <1>4
  <2>2. CASE c.op \notin {"exit", "ret"}
    BY <1>2, <1>4, <2>1, <2>2
  <2>3. CASE c.op \in {"exit", "ret"}
    <3>1. code[i].op \in {"exit", "ret", "unreachable"} /\ (code[i].op = "exit" => c.op = "exit")
      BY <1>2, <1>4, <2>3
    <3> QED BY <1>4, <2>1, <3>1
  <2> QED BY <2>2, <2>3
<1>5. CASE i \notin 1 .. m - 1 /\ i # m
  BY <1>1, <1>2, <1>5
<1> QED BY <1>3, <1>4, <1>5

LEMMA RenderedOperands ==
  ASSUME NEW code, NEW block \in Block, TidyBlock(block), NEW m, Rendered(code, block, m),
         NEW i \in 1 .. Len(code)
  PROVE  NoReg \notin Args(code[i])
<1>1. /\ m \in 1 .. Len(block.instrs) /\ m \in Nat
      /\ \A j \in 1 .. m : j \in 1 .. Len(block.instrs)
  BY DEF Rendered, StopsAt
<1>2. \A j \in 1 .. m : NoReg \notin Args(block.instrs[j])
  BY <1>1 DEF TidyBlock, Proper
<1>3. CASE i \in 1 .. m /\ code[i] = Copy(block.instrs[i])
  BY <1>2, <1>3 DEF Copy, LLInstr, Args
<1>4. CASE i = m /\ code[i].args = block.instrs[m].args
  BY <1>1, <1>2, <1>4 DEF Args
<1>5. CASE code[i] = LLInstr("unreachable", NoReg, <<>>, <<>>)
  BY <1>5 DEF LLInstr, Args
<1> QED BY <1>3, <1>4, <1>5, RenderedCode

LEMMA OperandsAt == Ordinary /\ IRInv /\ LowInv => OperandsResolved
<1> SUFFICES ASSUME Ordinary, IRInv, LowInv, NEW k \in DOMAIN ll, NEW i \in DOMAIN ll[k]
             PROVE  NoReg \notin Args(ll[k][i])
  BY DEF OperandsResolved
<1>1. Underway
  BY DEF LowInv
<1>2. k \in 1 .. Len(ir.blocks) /\ next \in 1 .. Len(ir.blocks) + 1 /\ phase = "done"
  BY <1>1 DEF Underway
<1>3. k \in 1 .. next - 1
  <2>1. ll[k] # <<>>
    OBVIOUS
  <2> QED BY <1>1, <1>2, <2>1 DEF Underway
<1>4. PICK m \in 1 .. Len(ir.blocks[k].instrs) : Rendered(ll[k], ir.blocks[k], m)
  BY <1>1, <1>3 DEF Underway, Lowered
<1>5. ir.blocks[k] \in Block /\ TidyBlock(ir.blocks[k])
  BY <1>2, AtDone
<1>6. i \in 1 .. Len(ll[k])
  BY <1>4 DEF Rendered
<1> QED BY <1>4, <1>5, <1>6, RenderedOperands

-----------------------------------------------------------------------------
(***************************************************************************)
(* LLVM's verifier on the result.  Both lists of blocks live up to the     *)
(* same place, and branch the same way.                                    *)
(***************************************************************************)
LEMMA LiveTo ==
  ASSUME NEW block, NEW X, block.instrs \in Seq(X), NEW m \in 1 .. Len(block.instrs),
         block.instrs[m].op \in Stops, \A i \in 1 .. m - 1 : block.instrs[i].op \notin Stops
  PROVE  /\ Live(block) \in Seq(X) /\ Len(Live(block)) = m /\ DOMAIN Live(block) = 1 .. m
         /\ \A i \in 1 .. m : Live(block)[i] = block.instrs[i]
         /\ Live(block) # <<>>
<1> DEFINE code == block.instrs
           at == {i \in DOMAIN code : code[i].op \in Stops}
           first == CHOOSE i \in at : \A j \in at : i <= j
<1>1. code \in Seq(X) /\ Len(code) \in Nat /\ DOMAIN code = 1 .. Len(code) /\ m \in Nat
  OBVIOUS
<1>2. m \in at /\ at \subseteq Nat
  BY <1>1
<1>3. \A i \in at : m <= i
  <2> SUFFICES ASSUME NEW i \in at, ~(m <= i) PROVE FALSE
    OBVIOUS
  <2>1. i \in 1 .. m - 1
    BY <1>1
  <2> QED BY <2>1
<1>4. first = m
  <2>1. first \in at /\ \A j \in at : first <= j
    <3> HIDE DEF at
    <3> QED BY <1>2, <1>3
  <2>2. first \in Nat
    BY <1>2, <2>1
  <2> HIDE DEF at, first
  <2> QED BY <1>1, <1>2, <1>3, <2>1, <2>2
<1>5. Live(block) = SubSeq(code, 1, m)
  <2>1. Live(block) = IF at = {} THEN code ELSE SubSeq(code, 1, first)
    BY DEF Live
  <2> HIDE DEF at, first, code
  <2> QED BY <1>2, <1>4, <2>1
<1>6. m \in 1 .. Len(code)
  OBVIOUS
<1> DEFINE live == SubSeq(code, 1, m)
<1> HIDE DEF code
<1>7. live \in Seq(X) /\ Len(live) = m
  BY <1>1, <1>6
<1>8. \A i \in 1 .. m : live[i] = code[i]
  BY <1>1, <1>6
<1>9. live # <<>>
  BY <1>6, <1>7
<1> QED BY <1>5, <1>7, <1>8, <1>9 DEF code

\* What is live of a block and of its LLVM code.
LEMMA RenderedLive ==
  ASSUME NEW code, NEW block \in Block, TidyBlock(block), NEW m, Rendered(code, block, m),
         NEW lowered, lowered.instrs = code
  PROVE  /\ m \in Nat \ {0}
         /\ DOMAIN Live(block) = 1 .. m /\ DOMAIN Live(lowered) = 1 .. m
         /\ Len(Live(block)) = m /\ Len(Live(lowered)) = m
         /\ Live(block) # <<>> /\ Live(lowered) # <<>>
         /\ \A i \in 1 .. m :
              /\ Live(block)[i] = block.instrs[i] /\ Live(lowered)[i] = code[i]
              /\ code[i].dest = block.instrs[i].dest /\ code[i].args = block.instrs[i].args
         /\ Defines(block) \subseteq Defines(lowered) \cup {NoReg}
<1> DEFINE c == block.instrs[m]
<1>1. /\ m \in 1 .. Len(block.instrs) /\ c.op \in Stops
      /\ \A i \in 1 .. m - 1 : block.instrs[i].op \notin Stops
      /\ \A j \in m + 1 .. Len(block.instrs) : block.instrs[j].dest = NoReg
      /\ code \in Seq(Codes) /\ Len(code) = (IF c.op = "exit" THEN m + 1 ELSE m)
      /\ \A i \in 1 .. m - 1 : code[i] = Copy(block.instrs[i])
      /\ code[m].dest = c.dest /\ code[m].args = c.args
  BY DEF Rendered, StopsAt
<1>2. /\ c.op = "exit" => code[m].op = "exit"
      /\ c.op = "ret" => code[m].op \in {"ret", "unreachable"}
      /\ c.op \notin {"exit", "ret"} => code[m] = Copy(c)
  BY DEF Rendered
<1>3. /\ block.instrs \in Seq(Instr) /\ m \in Nat \ {0} /\ m \in 1 .. Len(code)
      /\ Len(block.instrs) \in Nat /\ Len(code) \in Nat
  BY <1>1 DEF Block
<1>4. code[m].op \in Stops
  <2>1. c.op \notin {"exit", "ret"} => code[m].op = c.op
    BY <1>2 DEF Copy, LLInstr
  <2> QED BY <1>1, <1>2, <2>1 DEF Stops, Terminators
<1>5. ASSUME NEW i \in 1 .. m - 1 PROVE code[i].op \notin Stops
  <2>1. code[i] = Copy(block.instrs[i]) /\ block.instrs[i].op \notin Stops
    BY <1>1
  <2>2. code[i].op = block.instrs[i].op
    BY <2>1 DEF Copy, LLInstr
  <2> QED BY <2>1, <2>2
<1>6. /\ DOMAIN Live(block) = 1 .. m /\ Len(Live(block)) = m /\ Live(block) # <<>>
      /\ \A i \in 1 .. m : Live(block)[i] = block.instrs[i]
  BY <1>1, <1>3, LiveTo
<1>7. /\ DOMAIN Live(lowered) = 1 .. m /\ Len(Live(lowered)) = m /\ Live(lowered) # <<>>
      /\ \A i \in 1 .. m : Live(lowered)[i] = code[i]
  BY <1>1, <1>3, <1>4, <1>5, LiveTo
<1>8. ASSUME NEW i \in 1 .. m
      PROVE  code[i].dest = block.instrs[i].dest /\ code[i].args = block.instrs[i].args
  <2>1. CASE i = m
    BY <1>1, <2>1
  <2>2. CASE i # m
    <3>1. i \in 1 .. m - 1
      BY <1>3, <2>2
    <3>2. code[i] = Copy(block.instrs[i])
      BY <1>1, <3>1
    <3> QED BY <3>2 DEF Copy, LLInstr
  <2> QED BY <2>1, <2>2
<1>9. Defines(block) \subseteq Defines(lowered) \cup {NoReg}
  <2> SUFFICES ASSUME NEW j \in 1 .. Len(block.instrs), block.instrs[j].dest # NoReg
               PROVE  block.instrs[j].dest \in Defines(lowered)
    BY <1>3 DEF Defines
  <2>1. j \in 1 .. m /\ j \in 1 .. Len(code)
    BY <1>1, <1>3
  <2>2. DOMAIN code = 1 .. Len(code)
    BY <1>1
  <2>3. code[j].dest = block.instrs[j].dest
    BY <1>8, <2>1
  <2> QED BY <2>1, <2>2, <2>3 DEF Defines
<1> QED BY <1>3, <1>6, <1>7, <1>8, <1>9

\* A block and its LLVM code branch to the same blocks.
ToLabels(to) == {to[t] : t \in DOMAIN to}
ToBlocks(to) == {blockMap[to[t]] : t \in DOMAIN to}

LEMMA RenderedTargets ==
  ASSUME NEW block \in Block, TidyBlock(block), NEW m, NEW lowered,
         Rendered(lowered.instrs, block, m)
  PROVE  \/ Targets(block) = {} /\ Targets(lowered) = {}
         \/ /\ Targets(block) = ToLabels(block.instrs[m].to)
            /\ Targets(lowered) = ToBlocks(block.instrs[m].to)
<1> DEFINE c == block.instrs[m]
           code == lowered.instrs
<1>1. /\ Len(Live(block)) = m /\ Len(Live(lowered)) = m /\ m \in 1 .. m
      /\ Live(block) # <<>> /\ Live(lowered) # <<>>
      /\ Live(block)[m] = c /\ Live(lowered)[m] = code[m]
  <2>1. \A i \in Nat \ {0} : i \in 1 .. i
    OBVIOUS
  <2>2. lowered.instrs = code
    OBVIOUS
  <2> HIDE DEF c, code
  <2> QED BY <2>1, <2>2, RenderedLive DEF c, code
<1>2. /\ c.op = "exit" => code[m].op = "exit"
      /\ c.op = "ret" => code[m].op \in {"ret", "unreachable"} /\ code[m].to = <<>>
      /\ c.op \notin {"exit", "ret"} => code[m] = Copy(c)
      /\ c.op \in Stops /\ Proper(c) /\ c \in Instr
  BY DEF Rendered, StopsAt, TidyBlock, Block
<1> HIDE DEF c, code
<1>3. /\ Targets(block) = IF c.op \in Terminators THEN ToLabels(c.to) ELSE {}
      /\ Targets(lowered) = IF code[m].op \in Terminators
                            THEN ToLabels(code[m].to) ELSE {}
  BY <1>1 DEF Targets, EndsWith, ToLabels
<1>4. CASE c.op = "exit"
  BY <1>2, <1>3, <1>4 DEF Terminators, c
<1>5. CASE c.op = "ret"
  <2>1. c.to = <<>>
    BY <1>2, <1>5 DEF Proper
  <2>2. DOMAIN <<>> = {}
    OBVIOUS
  <2>3. Targets(block) = {} /\ Targets(lowered) = {}
    BY <1>2, <1>3, <1>5, <2>1, <2>2 DEF ToLabels
  <2> QED BY <2>3
<1>6. CASE c.op \notin {"exit", "ret"}
  <2>1. code[m].op = c.op /\ code[m].to = [t \in DOMAIN c.to |-> blockMap[c.to[t]]]
    BY <1>2, <1>6 DEF Copy, LLInstr, Positions
  <2>2. ToLabels(code[m].to) = ToBlocks(c.to)
    BY <2>1 DEF ToLabels, ToBlocks
  <2>3. CASE c.op \in Terminators
    BY <1>3, <2>1, <2>2, <2>3 DEF c
  <2>4. CASE c.op \notin Terminators
    BY <1>3, <2>1, <2>4
  <2> QED BY <2>3, <2>4
<1> QED BY <1>4, <1>5, <1>6

LEMMA BlockVerifies ==
  ASSUME NEW code, NEW block \in Block, TidyBlock(block), NEW m, Rendered(code, block, m)
  PROVE  /\ \A i \in 1 .. Len(code) - 1 : code[i].op \notin LLTerminators
         /\ \A i \in DOMAIN code : NoReg \notin Pointer(code[i])
<1>1. code \in Seq(Codes) /\ Len(code) \in Nat /\ DOMAIN code = 1 .. Len(code)
  BY DEF Rendered
<1>2. /\ m \in 1 .. Len(block.instrs) /\ m \in Nat
      /\ Len(code) = (IF block.instrs[m].op = "exit" THEN m + 1 ELSE m)
      /\ block.instrs[m].op = "exit" => code[m].op = "exit"
  BY DEF Rendered, StopsAt
<1>3. ASSUME NEW i \in 1 .. Len(code) - 1 PROVE code[i].op \notin LLTerminators
  <2>1. i \in 1 .. Len(code) /\ i # Len(code) /\ i # m + 1
    BY <1>1, <1>2
  <2>2. CASE i < m
    <3>1. code[i].op \notin Stops
      BY <2>1, <2>2, RenderedCode
    <3> QED BY <3>1 DEF Stops, LLTerminators, Terminators
  <2>3. CASE ~(i < m)
    <3>1. i = m /\ block.instrs[m].op = "exit"
      BY <1>1, <1>2, <2>1, <2>3
    <3> QED BY <1>2, <3>1 DEF LLTerminators
  <2> QED BY <2>2, <2>3
<1>4. ASSUME NEW i \in 1 .. Len(code) PROVE NoReg \notin Pointer(code[i])
  <2>1. NoReg \notin Args(code[i])
    BY RenderedOperands
  <2>2. CASE code[i].op \in {"exit", "ret", "unreachable"}
    BY <2>2 DEF Pointer
  <2>3. CASE i \in 1 .. m /\ code[i] = Copy(block.instrs[i])
    <3> DEFINE c == block.instrs[i]
    <3>1. Proper(c) /\ code[i].op = c.op /\ code[i].args = c.args /\ c.args \in Seq(Nat)
      <4>1. i \in 1 .. Len(block.instrs)
        BY <1>2, <2>3
      <4>2. c \in Instr
        BY <4>1 DEF Block
      <4> QED BY <2>3, <4>1, <4>2 DEF TidyBlock, Copy, LLInstr, Instr
    <3> HIDE DEF c
    <3>2. CASE c.op \in {"load", "poll", "bump"}
      <4>1. Len(c.args) = 1 /\ 1 \in DOMAIN c.args
        BY <3>1, <3>2 DEF Proper
      <4> QED BY <2>1, <3>1, <3>2, <4>1 DEF Pointer, Args
    <3>3. CASE c.op = "store"
      <4>1. Len(c.args) = 2 /\ 2 \in DOMAIN c.args
        BY <3>1, <3>3 DEF Proper
      <4> QED BY <2>1, <3>1, <3>3, <4>1 DEF Pointer, Args
    <3>4. CASE c.op \notin {"load", "poll", "bump", "store"}
      BY <3>1, <3>4 DEF Pointer
    <3> QED BY <3>2, <3>3, <3>4
  <2>4. code[i] = LLInstr("unreachable", NoReg, <<>>, <<>>) => code[i].op = "unreachable"
    BY DEF LLInstr
  <2> QED BY <2>2, <2>3, <2>4, RenderedCode
<1> QED BY <1>1, <1>3, <1>4

\* UsesDominated, with the branches and the number of the blocks given.
Dominated(branches, count, blocks) ==
  LET reached == BlocksReached(branches, count, {})
      above   == UNION {{d} \X (reached \ (BlocksReached(branches, count, {d}) \cup {d})) :
                        d \in reached}
  IN  \A k \in reached :
        LET live    == Live(blocks[k])
            defined == UNION {Defines(blocks[d]) : d \in {c \in reached : <<c, k>> \in above}}
        IN  \A i \in DOMAIN live :
              Args(live[i]) \subseteq defined \cup {live[j].dest : j \in 1 .. i - 1} \cup {NoReg}

LEMMA DominatedUses ==
  ASSUME NEW blocks
  PROVE  UsesDominated(blocks) = Dominated(Branches(blocks), Len(blocks), blocks)
BY DEF UsesDominated, Dominated

\* Dominance in one list of blocks is dominance in another that branches the
\* same way, has the same live uses and defines as much.
LEMMA UsesCarry ==
  ASSUME NEW old, NEW new, UsesDominated(old),
         Branches(new) = Branches(old), Len(new) = Len(old), Len(old) \in Nat \ {0},
         \A c \in Branches(old) : c[2] \in 1 .. Len(old),
         \A k \in 1 .. Len(old) :
           /\ Defines(old[k]) \subseteq Defines(new[k]) \cup {NoReg}
           /\ DOMAIN Live(new[k]) = DOMAIN Live(old[k]) /\ DOMAIN Live(old[k]) \subseteq Nat
           /\ \A i \in DOMAIN Live(old[k]) : \A j \in 1 .. i : j \in DOMAIN Live(old[k])
           /\ \A i \in DOMAIN Live(old[k]) :
                /\ Live(new[k])[i].dest = Live(old[k])[i].dest
                /\ Args(Live(new[k])[i]) = Args(Live(old[k])[i])
  PROVE  UsesDominated(new)
<1> DEFINE branches == Branches(old)
           n == Len(old)
           reached == BlocksReached(branches, n, {})
           Past(d) == reached \ (BlocksReached(branches, n, {d}) \cup {d})
           above == UNION {{d} \X Past(d) : d \in reached}
           Defined(blocks, k) == UNION {Defines(blocks[d]) : d \in {c \in reached : <<c, k>> \in above}}
           Earlier(blocks, k, i) == {Live(blocks[k])[j].dest : j \in 1 .. i - 1}
<1>1. \A k \in reached : \A i \in DOMAIN Live(old[k]) :
        Args(Live(old[k])[i]) \subseteq Defined(old, k) \cup Earlier(old, k, i) \cup {NoReg}
  BY DEF UsesDominated
<1>2. (\A k \in reached : \A i \in DOMAIN Live(new[k]) :
         Args(Live(new[k])[i]) \subseteq Defined(new, k) \cup Earlier(new, k, i) \cup {NoReg})
      => UsesDominated(new)
  <2>1. UsesDominated(new) = Dominated(branches, n, new)
    BY DominatedUses
  <2> QED BY <2>1 DEF Dominated
<1>3. reached \subseteq 1 .. n
  <2> DEFINE X == 1 .. n
  <2>1. 1 \in X /\ n \in Nat
    OBVIOUS
  <2>2. \A c \in branches : c[1] \in X \ {} /\ c[2] \notin {} => c[2] \in X
    OBVIOUS
  <2> HIDE DEF X, n, branches
  <2>3. reached \subseteq X
    BY <2>1, <2>2, ReachedWithin
  <2> QED BY <2>3 DEF X
<1> HIDE DEF branches, reached, above
<1>4. ASSUME NEW k \in reached, NEW i \in DOMAIN Live(new[k])
      PROVE  Args(Live(new[k])[i]) \subseteq Defined(new, k) \cup Earlier(new, k, i) \cup {NoReg}
  <2>1. k \in 1 .. n /\ i \in DOMAIN Live(old[k]) /\ i \in Nat
    BY <1>3
  <2>2. Args(Live(new[k])[i]) \subseteq Defined(old, k) \cup Earlier(old, k, i) \cup {NoReg}
    <3>1. Args(Live(new[k])[i]) = Args(Live(old[k])[i])
      BY <2>1
    <3>2. Args(Live(old[k])[i]) \subseteq Defined(old, k) \cup Earlier(old, k, i) \cup {NoReg}
      BY <1>1, <2>1
    <3> HIDE DEF Defined, Earlier
    <3> QED BY <3>1, <3>2
  <2>3. Defined(old, k) \subseteq Defined(new, k) \cup {NoReg}
    <3> SUFFICES ASSUME NEW a \in Defined(old, k), a # NoReg PROVE a \in Defined(new, k)
      OBVIOUS
    <3>1. PICK d \in {c \in reached : <<c, k>> \in above} : a \in Defines(old[d])
      OBVIOUS
    <3>2. a \in Defines(new[d])
      BY <1>3, <3>1
    <3> QED BY <3>2
  <2>4. Earlier(old, k, i) = Earlier(new, k, i)
    <3>1. ASSUME NEW j \in 1 .. i - 1 PROVE Live(new[k])[j].dest = Live(old[k])[j].dest
      <4>1. j \in 1 .. i
        BY <2>1
      <4>2. j \in DOMAIN Live(old[k])
        BY <2>1, <4>1
      <4> QED BY <2>1, <4>2
    <3> QED BY <3>1
  <2> HIDE DEF Defined, Earlier
  <2> QED BY <2>2, <2>3, <2>4
<1> QED BY <1>4, <1>2

LEMMA VerifiesAtEnd ==
  ASSUME Ordinary, IRInv, LowInv, stage = "verify"
  PROVE  Verifies
<1> DEFINE n == Len(ir.blocks)
           B(k) == ir.blocks[k]
           L(k) == [label |-> k, instrs |-> ll[k]]
<1>1. /\ Underway /\ phase = "done" /\ Mapped /\ DOMAIN ll = 1 .. n /\ next \in 1 .. n + 1
      /\ ~(next <= n) /\ \A k \in 1 .. next - 1 : Lowered(k)
  BY DEF LowInv, Underway
<1>2. /\ n \in Nat \ {0} /\ DOMAIN ir.blocks = 1 .. n
      /\ \A k \in 1 .. n : B(k) \in Block /\ TidyBlock(B(k))
      /\ \A j, k \in 1 .. n : B(j).label = B(k).label => j = k
  BY <1>1, AtDone
<1>3. ASSUME NEW k \in 1 .. n PROVE Lowered(k)
  BY <1>1, <1>2
<1>4. ASSUME NEW k \in 1 .. n
      PROVE  /\ HasTerminator(ll[k])
             /\ \A i \in 1 .. Len(ll[k]) - 1 : ll[k][i].op \notin LLTerminators
             /\ \A i \in DOMAIN ll[k] : NoReg \notin Pointer(ll[k][i])
  BY <1>2, <1>3, BlockVerifies DEF Lowered
<1>5. /\ DOMAIN LLBlocks = 1 .. n /\ \A k \in 1 .. n : LLBlocks[k] = L(k)
      /\ Len(LLBlocks) = n
  <2>1. LLBlocks = [k \in 1 .. n |-> L(k)]
    BY <1>1 DEF LLBlocks
  <2> HIDE DEF L
  <2> QED BY <1>2, <2>1
<1>6. ASSUME NEW k \in 1 .. n, NEW b \in 1 .. n
      PROVE  b \in Targets(L(k)) <=> B(b).label \in Targets(B(k))
  <2>1. PICK m \in 1 .. Len(B(k).instrs) : Rendered(ll[k], B(k), m)
    BY <1>3 DEF Lowered
  <2> DEFINE to == B(k).instrs[m].to
  <2>2. CASE Targets(B(k)) = {} /\ Targets(L(k)) = {}
    BY <2>2
  <2>3. CASE /\ Targets(B(k)) = ToLabels(to)
             /\ Targets(L(k)) = ToBlocks(to)
    <3>1. \A t \in DOMAIN to : \E c \in 1 .. n : B(c).label = to[t] /\ blockMap[to[t]] = c
      BY <1>1, <2>1, TargetsMapped
    <3>2. ASSUME b \in Targets(L(k)) PROVE B(b).label \in Targets(B(k))
      <4>1. PICK t \in DOMAIN to : blockMap[to[t]] = b
        BY <2>3, <3>2 DEF ToBlocks
      <4>2. B(b).label = to[t]
        BY <3>1, <4>1
      <4> HIDE DEF B, to
      <4> QED BY <2>3, <4>1, <4>2 DEF ToLabels
    <3>3. ASSUME B(b).label \in Targets(B(k)) PROVE b \in Targets(L(k))
      <4>1. PICK t \in DOMAIN to : to[t] = B(b).label
        BY <2>3, <3>3 DEF ToLabels
      <4>2. blockMap[to[t]] = b
        BY <1>2, <3>1, <4>1
      <4> HIDE DEF B, L, to
      <4> QED BY <2>3, <4>1, <4>2 DEF ToBlocks
    <3> QED BY <3>2, <3>3
  <2>4. \/ Targets(B(k)) = {} /\ Targets(L(k)) = {}
        \/ /\ Targets(B(k)) = ToLabels(to)
           /\ Targets(L(k)) = ToBlocks(to)
    <3>1. B(k) \in Block /\ TidyBlock(B(k))
      BY <1>2
    <3>2. Rendered(L(k).instrs, B(k), m)
      BY <2>1
    <3> HIDE DEF B, L
    <3> QED BY <3>1, <3>2, RenderedTargets
  <2> HIDE DEF B, L, to
  <2> QED BY <2>2, <2>3, <2>4
<1>7. Branches(LLBlocks) = Branches(ir.blocks)
  <2>1. \A k, b \in 1 .. n : LLBlocks[b].label \in Targets(LLBlocks[k]) <=> ir.blocks[b].label \in Targets(ir.blocks[k])
    <3>1. ASSUME NEW b \in 1 .. n PROVE LLBlocks[b].label = b
      <4>1. LLBlocks[b] = L(b) /\ L(b).label = b
        BY <1>5
      <4> QED BY <4>1
    <3> HIDE DEF L
    <3> QED BY <1>5, <1>6, <3>1
  <2>2. \A e : e \in Branches(LLBlocks) <=>
                 \E k, b \in 1 .. n : e = <<k, b>> /\ LLBlocks[b].label \in Targets(LLBlocks[k])
    BY <1>5 DEF Branches
  <2>3. \A e : e \in Branches(ir.blocks) <=>
                 \E k, b \in 1 .. n : e = <<k, b>> /\ ir.blocks[b].label \in Targets(ir.blocks[k])
    BY <1>2 DEF Branches
  <2>4. \A e : e \in Branches(LLBlocks) <=> e \in Branches(ir.blocks)
    BY <2>1, <2>2, <2>3
  <2> QED BY <2>4
<1>8. UsesDominated(ir.blocks)
  BY <1>1, UsesDominate DEF IRInv, Ordinary, DefinitionsDominate
<1>9. ASSUME NEW k \in 1 .. n
      PROVE  LET old == Live(ir.blocks[k])
                 new == Live(LLBlocks[k])
             IN  /\ Defines(ir.blocks[k]) \subseteq Defines(LLBlocks[k]) \cup {NoReg}
                 /\ DOMAIN new = DOMAIN old /\ DOMAIN old \subseteq Nat
                 /\ \A i \in DOMAIN old : \A j \in 1 .. i : j \in DOMAIN old
                 /\ \A i \in DOMAIN old : new[i].dest = old[i].dest /\ Args(new[i]) = Args(old[i])
  <2>1. PICK m \in 1 .. Len(B(k).instrs) : Rendered(ll[k], B(k), m)
    BY <1>3 DEF Lowered
  <2>2. /\ m \in Nat \ {0}
        /\ DOMAIN Live(B(k)) = 1 .. m /\ DOMAIN Live(L(k)) = 1 .. m
        /\ \A i \in 1 .. m :
             /\ Live(B(k))[i] = B(k).instrs[i] /\ Live(L(k))[i] = ll[k][i]
             /\ ll[k][i].dest = B(k).instrs[i].dest /\ ll[k][i].args = B(k).instrs[i].args
        /\ Defines(B(k)) \subseteq Defines(L(k)) \cup {NoReg}
    <3>1. B(k) \in Block /\ TidyBlock(B(k))
      BY <1>2
    <3>2. L(k).instrs = ll[k]
      OBVIOUS
    <3> HIDE DEF B, L
    <3> QED BY <2>1, <3>1, <3>2, RenderedLive
  <2>3. LLBlocks[k] = L(k)
    BY <1>5
  <2>4. \A i \in 1 .. m : \A j \in 1 .. i : j \in 1 .. m
    BY <2>2
  <2> HIDE DEF L
  <2>5. \A i \in 1 .. m : Args(Live(L(k))[i]) = Args(Live(B(k))[i])
    BY <2>2 DEF Args
  <2> QED BY <2>2, <2>3, <2>4, <2>5
<1>10. \A c \in Branches(ir.blocks) : c[2] \in 1 .. n
  BY <1>1, BranchesOf DEF IRInv, IInv, Discipline, Shut
<1>11. UsesDominated(LLBlocks)
  BY <1>2, <1>5, <1>7, <1>8, <1>9, <1>10, UsesCarry
<1> QED BY <1>1, <1>4, <1>11 DEF Verifies

-----------------------------------------------------------------------------
LEMMA InitLow == Ordinary /\ LowerInit => IRInv /\ LowInv
BY InitIRInv DEF LowerInit, FlowInit, LowInv

LEMMA NextLow ==
  ASSUME Ordinary, IRInv, LowInv, [LowerNext]_lowerVars
  PROVE  IRInv' /\ LowInv'
<1>1. UNCHANGED allVars => IRInv'
  BY NextIRInv DEF allVars
<1>2. UNCHANGED <<vars, llVars>> => LowInv'
  <2> SUFFICES ASSUME UNCHANGED <<vars, llVars>> PROVE LowInv'
    OBVIOUS
  <2>1. UNCHANGED <<ir, phase, ll, blockMap, regs, next, stage>>
    BY DEF vars, llVars
  <2>2. ASSUME NEW k, Lowered(k) PROVE Lowered(k)'
    BY <2>1, <2>2, LoweredStays
  <2>3. Underway => Underway'
    BY <2>1, <2>2 DEF Underway, Mapped, DefinedBefore
  <2> QED BY <2>1, <2>3 DEF LowInv
<1>3. CASE stage = "wait" /\ FlowNext /\ UNCHANGED llVars
  <2>1. IRInv'
    BY <1>3, FlowSteps, NextIRInv
  <2>2. LowInv'
    BY <1>3 DEF llVars, LowInv, Underway
  <2> QED BY <2>1, <2>2
<1>4. CASE CreateBlocks
  BY <1>1, <1>4, CreateLow DEF CreateBlocks
<1>5. CASE LowerBlock
  BY <1>1, <1>5, LowerLow DEF LowerBlock
<1>6. CASE VerifyModule
  <2>1. /\ stage = "verify" /\ stage' = "accepted" /\ Underway
        /\ UNCHANGED <<allVars, ll, blockMap, regs, next>>
    BY <1>6, VerifiesAtEnd DEF VerifyModule, LowInv
  <2>2. /\ UNCHANGED <<ir, phase, ll, blockMap, regs, next>>
    BY <2>1 DEF allVars, vars
  <2>3. ASSUME NEW k, Lowered(k) PROVE Lowered(k)'
    BY <2>2, <2>3, LoweredStays
  <2>4. Underway'
    BY <2>1, <2>2, <2>3 DEF Underway, Mapped, DefinedBefore
  <2> QED BY <1>1, <2>1, <2>4 DEF LowInv
<1>7. CASE UNCHANGED lowerVars
  BY <1>1, <1>2, <1>7 DEF lowerVars, allVars
<1> QED BY <1>3, <1>4, <1>5, <1>6, <1>7 DEF LowerNext

LEMMA LowInvariant == Ordinary => (LowerSpec => [](IRInv /\ LowInv))
<1>1. ASSUME Ordinary PROVE LowerSpec => [](IRInv /\ LowInv)
  <2>1. LowerInit => IRInv /\ LowInv
    BY <1>1, InitLow
  <2>2. (IRInv /\ LowInv) /\ [LowerNext]_lowerVars => (IRInv /\ LowInv)'
    BY <1>1, NextLow
  <2> QED BY <2>1, <2>2, PTL DEF LowerSpec
<1> QED BY <1>1

\* An operand of every LLVM instruction is the value that stands for its
\* register: resolve(), which lowering calls for each operand, never falls back
\* to undef, because text order puts every definition before its uses and only
\* code behind a call of exit, which defines nothing, is dropped.
THEOREM EveryOperandResolved == Ordinary => (LowerSpec => []OperandsResolved)
<1>1. ASSUME Ordinary PROVE LowerSpec => []OperandsResolved
  <2>1. IRInv /\ LowInv => OperandsResolved
    BY <1>1, OperandsAt
  <2> QED BY <1>1, <2>1, LowInvariant, PTL
<1> QED BY <1>1

\* LLVM's verifier accepts every function that lower() makes of IR that IRGen
\* made, so emitIR does not return false without a diagnostic: each block ends
\* in its one terminator, memory is accessed through pointers only, and
\* definitions dominate uses in the LLVM blocks as they do in the IR.
THEOREM EveryModuleVerifies == Ordinary => (LowerSpec => []ModuleVerifies)
<1>1. ASSUME Ordinary PROVE LowerSpec => []ModuleVerifies
  <2>1. LowInv => ModuleVerifies
    BY DEF LowInv, Underway, ModuleVerifies
  <2> QED BY <1>1, <2>1, LowInvariant, PTL
<1> QED BY <1>1
=============================================================================
