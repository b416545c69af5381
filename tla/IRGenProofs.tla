---------------------------- MODULE IRGenProofs ----------------------------
(***************************************************************************)
(* Proofs about IRGen, for every set of names, every language and every    *)
(* bound.                                                                  *)
(***************************************************************************)
EXTENDS IRUses, WellFoundedInduction, TLAPS

(***************************************************************************)
(* What the builder's operations do to the block list: Ready(b) holds of a *)
(* builder whose insert point takes instructions, Shut(b) of one whose     *)
(* insert point has just been terminated.                                  *)
(***************************************************************************)
Wellformed(b) ==
  /\ b \in Builder
  /\ b.cur = Len(b.blocks) /\ b.blocks # <<>>
  /\ \A k \in 1 .. Len(b.blocks) - 1 : Closed(b.blocks[k])
Ready(b) == Wellformed(b) /\ NoTerminator(b.blocks[Len(b.blocks)])
Shut(b)  == Wellformed(b) /\ Closed(b.blocks[Len(b.blocks)])

\* Updating a field of a block or of the builder.
LEMMA BlockUpdate ==
  ASSUME NEW block \in Block, NEW s \in Seq(Instr)
  PROVE  /\ [block EXCEPT !.instrs = s] \in Block
         /\ [block EXCEPT !.instrs = s].label = block.label
         /\ [block EXCEPT !.instrs = s].instrs = s
BY DEF Block

LEMMA BuilderUpdate ==
  ASSUME NEW b \in Builder, NEW s \in Seq(Block)
  PROVE  LET c == [b EXCEPT !.blocks = s]
         IN  /\ c \in Builder /\ c.blocks = s /\ c.cur = b.cur
             /\ c.labels = b.labels /\ c.regs = b.regs /\ c.val = b.val
BY DEF Builder

LEMMA LastBlock ==
  ASSUME NEW b, Wellformed(b)
  PROVE  /\ b \in Builder /\ b.blocks \in Seq(Block)
         /\ Len(b.blocks) \in Nat \ {0} /\ b.cur = Len(b.blocks)
         /\ b.blocks[Len(b.blocks)] \in Block
         /\ b.blocks[Len(b.blocks)].instrs \in Seq(Instr)
<1>1. /\ b \in Builder /\ b.blocks \in Seq(Block) /\ b.cur = Len(b.blocks)
      /\ Len(b.blocks) \in Nat \ {0} /\ b.blocks[Len(b.blocks)] \in Block
  BY DEF Wellformed, Builder
<1> QED BY <1>1 DEF Block

\* Emit touches the block at the insert point only, and appends to it.
LEMMA EmitShape ==
  ASSUME NEW b, Wellformed(b), NEW instr \in Instr
  PROVE  /\ Emit(b, instr) \in Builder
         /\ Emit(b, instr).cur = b.cur
         /\ Emit(b, instr).labels = b.labels
         /\ Emit(b, instr).regs = b.regs
         /\ Emit(b, instr).val = b.val
         /\ Len(Emit(b, instr).blocks) = Len(b.blocks)
         /\ \A k \in 1 .. Len(b.blocks) - 1 : Emit(b, instr).blocks[k] = b.blocks[k]
         /\ Emit(b, instr).blocks[Len(b.blocks)].label = b.blocks[Len(b.blocks)].label
         /\ Emit(b, instr).blocks[Len(b.blocks)].instrs
              = Append(b.blocks[Len(b.blocks)].instrs, instr)
<1> DEFINE n == Len(b.blocks)
           s == Append(b.blocks[n].instrs, instr)
           new == [b.blocks[n] EXCEPT !.instrs = s]
           blocks == [b.blocks EXCEPT ![n] = new]
<1>1. /\ b \in Builder /\ b.blocks \in Seq(Block) /\ n \in Nat \ {0} /\ b.cur = n
      /\ b.blocks[n] \in Block
  BY DEF Wellformed, Builder
<1>2. s \in Seq(Instr)
  BY <1>1 DEF Block
<1>3. /\ new \in Block /\ new.label = b.blocks[n].label /\ new.instrs = s
  BY <1>1, <1>2, BlockUpdate
<1>4. Emit(b, instr) = [b EXCEPT !.blocks = blocks]
  BY <1>1 DEF Emit, Builder
<1>5. /\ blocks \in Seq(Block) /\ Len(blocks) = n /\ blocks[n] = new
      /\ \A k \in 1 .. n - 1 : blocks[k] = b.blocks[k]
  <2> HIDE DEF new
  <2> QED BY <1>1, <1>3
<1> HIDE DEF blocks, new
<1> QED
  BY <1>1, <1>3, <1>4, <1>5, BuilderUpdate

\* An instruction that is no terminator leaves the insert point open.
LEMMA EmitReady ==
  ASSUME NEW b, Ready(b), NEW instr \in Instr, instr.op \notin Terminators
  PROVE  Ready(Emit(b, instr))
<1> DEFINE n == Len(b.blocks)
           old == b.blocks[n].instrs
<1>1. /\ Wellformed(b) /\ n \in Nat \ {0} /\ old \in Seq(Instr)
  BY LastBlock DEF Ready
<1>2. \A i \in DOMAIN Append(old, instr) : Append(old, instr)[i].op \notin Terminators
  BY <1>1 DEF Ready, NoTerminator
<1>3. Emit(b, instr).blocks # <<>>
  BY <1>1, EmitShape
<1> QED
  BY <1>1, <1>2, <1>3, EmitShape DEF Ready, Wellformed, NoTerminator

\* A terminator closes it.
LEMMA EmitShut ==
  ASSUME NEW b, Ready(b), NEW instr \in Instr, instr.op \in Terminators
  PROVE  Shut(Emit(b, instr))
<1> DEFINE n == Len(b.blocks)
           old == b.blocks[n].instrs
           new == Append(old, instr)
<1>1. /\ Wellformed(b) /\ n \in Nat \ {0} /\ old \in Seq(Instr)
  BY LastBlock DEF Ready
<1>2. /\ new # <<>> /\ new[Len(new)] = instr
      /\ \A i \in 1 .. Len(new) - 1 : new[i].op \notin Terminators
  BY <1>1 DEF Ready, NoTerminator
<1>3. Emit(b, instr).blocks # <<>>
  BY <1>1, EmitShape
<1>4. Closed(Emit(b, instr).blocks[n])
  BY <1>1, <1>2, EmitShape DEF Closed, Terminated
<1>5. /\ Emit(b, instr) \in Builder /\ Emit(b, instr).cur = n
      /\ Len(Emit(b, instr).blocks) = n
      /\ \A k \in 1 .. n - 1 : Closed(Emit(b, instr).blocks[k])
  BY <1>1, EmitShape DEF Wellformed
<1> QED
  BY <1>3, <1>4, <1>5 DEF Shut, Wellformed

\* A new block may be opened behind a closed one.
LEMMA OpenBlockReady ==
  ASSUME NEW b, Shut(b), NEW l \in Label
  PROVE  /\ Ready(OpenBlock(b, l))
         /\ OpenBlock(b, l).labels = b.labels
         /\ OpenBlock(b, l).regs = b.regs
         /\ OpenBlock(b, l).val = b.val
<1> DEFINE n == Len(b.blocks)
           new == [label |-> l, instrs |-> <<>>]
<1>1. /\ b \in Builder /\ b.blocks \in Seq(Block) /\ n \in Nat \ {0} /\ new \in Block
  <2>1. new \in Block
    BY DEF Block
  <2> QED BY <2>1, LastBlock DEF Shut
<1>2. /\ Append(b.blocks, new) \in Seq(Block)
      /\ Len(Append(b.blocks, new)) = n + 1
      /\ Append(b.blocks, new)[n + 1] = new
      /\ \A k \in 1 .. n : Append(b.blocks, new)[k] = b.blocks[k]
  BY <1>1
<1>3. /\ OpenBlock(b, l).blocks = Append(b.blocks, new)
      /\ OpenBlock(b, l).cur = n + 1
      /\ OpenBlock(b, l).labels = b.labels
      /\ OpenBlock(b, l).regs = b.regs
      /\ OpenBlock(b, l).val = b.val
      /\ OpenBlock(b, l) \in Builder
  <2>1. OpenBlock(b, l) = [b EXCEPT !.blocks = Append(b.blocks, new), !.cur = n + 1]
    BY <1>1 DEF OpenBlock, Builder
  <2> DEFINE s == Append(b.blocks, new)
  <2>2. s \in Seq(Block) /\ n + 1 \in Nat
    BY <1>1, <1>2
  <2> HIDE DEF s, new
  <2>3. OpenBlock(b, l) = [b EXCEPT !.blocks = s, !.cur = n + 1]
    BY <2>1 DEF s
  <2>4. s = Append(b.blocks, new)
    BY DEF s
  <2> DEFINE m == n + 1
             c == [b EXCEPT !.blocks = s, !.cur = m]
  <2>5. m \in Nat
    BY <2>2
  <2> HIDE DEF m
  <2>6. /\ c \in Builder /\ c.blocks = s /\ c.cur = m
        /\ c.labels = b.labels /\ c.regs = b.regs /\ c.val = b.val
    BY <1>1, <2>2, <2>5 DEF Builder
  <2>7. OpenBlock(b, l) = c
    BY <2>3 DEF m
  <2> HIDE DEF c
  <2> QED BY <2>4, <2>6, <2>7 DEF m
<1>4. \A k \in 1 .. n : Closed(b.blocks[k])
  BY <1>1 DEF Shut, Wellformed
<1> QED
  BY <1>1, <1>2, <1>3, <1>4 DEF Ready, Wellformed, NoTerminator

(***************************************************************************)
(* LabelsOf(b) is all that the uniqueness of labels depends on, next to    *)
(* the counter: emitting keeps both, opening a block appends to the first. *)
(***************************************************************************)
LabelsOf(b) == [k \in 1 .. Len(b.blocks) |-> b.blocks[k].label]
SameLabels(b, c) == c.labels = b.labels /\ LabelsOf(c) = LabelsOf(b)

LEMMA EmitLabels ==
  ASSUME NEW b, Wellformed(b), NEW instr \in Instr
  PROVE  SameLabels(b, Emit(b, instr))
<1>1. /\ Len(b.blocks) \in Nat \ {0}
      /\ Len(Emit(b, instr).blocks) = Len(b.blocks)
      /\ \A k \in 1 .. Len(b.blocks) :
           Emit(b, instr).blocks[k].label = b.blocks[k].label
  BY LastBlock, EmitShape
<1> QED
  BY <1>1, EmitShape DEF SameLabels, LabelsOf

LEMMA OpenBlockLabels ==
  ASSUME NEW b, Shut(b), NEW l \in Label
  PROVE  LabelsOf(OpenBlock(b, l)) = Append(LabelsOf(b), l)
<1> DEFINE n == Len(b.blocks)
           new == [label |-> l, instrs |-> <<>>]
<1>1. /\ b \in Builder /\ b.blocks \in Seq(Block) /\ n \in Nat \ {0}
  BY LastBlock DEF Shut
<1>2. OpenBlock(b, l).blocks = Append(b.blocks, new)
  BY <1>1 DEF OpenBlock, Builder
<1>3. /\ Len(Append(b.blocks, new)) = n + 1
      /\ Append(b.blocks, new)[n + 1].label = l
      /\ \A k \in 1 .. n : Append(b.blocks, new)[k] = b.blocks[k]
  BY <1>1
<1>4. LabelsOf(OpenBlock(b, l)) =
        [k \in 1 .. n + 1 |-> IF k = n + 1 THEN l ELSE b.blocks[k].label]
  <2> HIDE DEF new
  <2> QED BY <1>1, <1>2, <1>3 DEF LabelsOf
<1>5. Append(LabelsOf(b), l) =
        [k \in 1 .. n + 1 |-> IF k = n + 1 THEN l ELSE b.blocks[k].label]
  <2>1. /\ LabelsOf(b) = [k \in 1 .. n |-> b.blocks[k].label]
        /\ \A k \in 1 .. n : b.blocks[k].label \in Label
    <3>1. \A k \in 1 .. n : b.blocks[k] \in Block
      BY <1>1
    <3> QED BY <3>1 DEF LabelsOf, Block
  <2>2. LabelsOf(b) \in Seq(Label) /\ Len(LabelsOf(b)) = n
    BY <1>1, <2>1
  <2> QED BY <1>1, <2>1, <2>2
<1> QED
  BY <1>4, <1>5

\* An instruction with a result.
LEMMA ValueReady ==
  ASSUME NEW b, Ready(b), NEW op \in Ops, op \notin Terminators,
         NEW args \in Seq(Nat)
  PROVE  /\ Ready(Value(b, op, args))
         /\ SameLabels(b, Value(b, op, args))
         /\ Value(b, op, args).val = b.regs + 1
         /\ Value(b, op, args).val \in Nat
<1> DEFINE r == b.regs + 1
           instr == [op |-> op, dest |-> r, args |-> args, to |-> <<>>]
           e == Emit(b, instr)
           v == [e EXCEPT !.regs = r, !.val = r]
<1>1. b \in Builder /\ r \in Nat /\ Wellformed(b)
  BY DEF Ready, Wellformed, Builder
<1>2. instr \in Instr /\ instr.op \notin Terminators
  BY <1>1 DEF Instr
<1>3. Ready(e) /\ SameLabels(b, e) /\ e \in Builder
  <2> HIDE DEF instr
  <2> QED BY <1>1, <1>2, EmitReady, EmitLabels, EmitShape
<1>4. /\ v \in Builder /\ v.blocks = e.blocks /\ v.cur = e.cur
      /\ v.labels = e.labels /\ v.val = r
  <2> HIDE DEF e, r
  <2> QED BY <1>1, <1>3 DEF Builder
<1>5. Ready(v) /\ SameLabels(b, v)
  <2> HIDE DEF v, e, instr
  <2> QED BY <1>3, <1>4 DEF Ready, Wellformed, SameLabels, LabelsOf
<1> QED
  BY <1>1, <1>4, <1>5 DEF Value

\* An instruction without a result, and the terminators.
LEMMA EffectInstr ==
  ASSUME NEW op \in Ops, NEW args \in Seq(Nat), NEW to \in Seq(Label)
  PROVE  [op |-> op, dest |-> NoReg, args |-> args, to |-> to] \in Instr
BY DEF Instr, NoReg

LEMMA EffectReady ==
  ASSUME NEW b, Ready(b), NEW op \in Ops, op \notin Terminators,
         NEW args \in Seq(Nat)
  PROVE  Ready(Effect(b, op, args, <<>>)) /\ SameLabels(b, Effect(b, op, args, <<>>))
         /\ Effect(b, op, args, <<>>).val = b.val
<1> DEFINE instr == [op |-> op, dest |-> NoReg, args |-> args, to |-> <<>>]
<1>0. <<>> \in Seq(Label)
  OBVIOUS
<1>1. instr \in Instr /\ instr.op = op
  BY <1>0, EffectInstr
<1>2. Wellformed(b)
  BY DEF Ready
<1>3. Effect(b, op, args, <<>>) = Emit(b, instr)
  BY DEF Effect
<1> HIDE DEF instr
<1> QED
  BY <1>1, <1>2, <1>3, EmitReady, EmitLabels, EmitShape

LEMMA EffectShut ==
  ASSUME NEW b, Ready(b), NEW op \in Terminators,
         NEW args \in Seq(Nat), NEW to \in Seq(Label)
  PROVE  Shut(Effect(b, op, args, to)) /\ SameLabels(b, Effect(b, op, args, to))
<1> DEFINE instr == [op |-> op, dest |-> NoReg, args |-> args, to |-> to]
<1>0. op \in Ops
  BY DEF Terminators, Ops
<1>1. instr \in Instr /\ instr.op = op
  BY <1>0, EffectInstr
<1>2. Wellformed(b)
  BY DEF Ready
<1>3. Effect(b, op, args, to) = Emit(b, instr)
  BY DEF Effect
<1> HIDE DEF instr
<1> QED
  BY <1>1, <1>2, <1>3, EmitShut, EmitLabels

LEMMA ReadyNotTerminated ==
  ASSUME NEW b, Ready(b)
  PROVE  ~isTerminated(b)
<1> DEFINE code == b.blocks[Len(b.blocks)].instrs
<1>1. b.cur = Len(b.blocks) /\ code \in Seq(Instr)
  BY LastBlock DEF Ready
<1>2. code # <<>> => Len(code) \in DOMAIN code
  BY <1>1
<1> QED
  BY <1>1, <1>2 DEF isTerminated, Terminated, Ready, NoTerminator

LEMMA BuildAlloca ==
  ASSUME NEW b, Ready(b)
  PROVE  /\ Ready(buildAlloca(b)) /\ SameLabels(b, buildAlloca(b))
         /\ buildAlloca(b).val \in Nat
<1>1. "alloca" \in Ops /\ "alloca" \notin Terminators /\ <<>> \in Seq(Nat)
  BY DEF Terminators, Ops
<1> QED
  BY <1>1, ValueReady DEF buildAlloca

LEMMA BuildStore ==
  ASSUME NEW b, Ready(b), NEW v \in Nat, NEW slot \in Nat
  PROVE  /\ Ready(buildStore(b, v, slot)) /\ SameLabels(b, buildStore(b, v, slot))
         /\ buildStore(b, v, slot).val = b.val
<1>1. "store" \in Ops /\ "store" \notin Terminators /\ <<v, slot>> \in Seq(Nat)
  BY DEF Terminators, Ops
<1> QED
  BY <1>1, EffectReady DEF buildStore

LEMMA BuildRet ==
  ASSUME NEW b, Ready(b), NEW args \in Seq(Nat)
  PROVE  Shut(buildRet(b, args)) /\ SameLabels(b, buildRet(b, args))
<1>1. "ret" \in Terminators /\ <<>> \in Seq(Label)
  BY DEF Terminators, Ops
<1> QED
  BY <1>1, EffectShut DEF buildRet

LEMMA BuildBranch ==
  ASSUME NEW b, Ready(b), NEW l \in Label
  PROVE  Shut(buildBranch(b, l)) /\ SameLabels(b, buildBranch(b, l))
<1>1. "br" \in Terminators /\ <<>> \in Seq(Nat) /\ <<l>> \in Seq(Label)
  BY DEF Terminators, Ops
<1> QED
  BY <1>1, EffectShut DEF buildBranch

LEMMA BuildCondBranch ==
  ASSUME NEW b, Ready(b), NEW cond \in Nat, NEW yes \in Label, NEW no \in Label
  PROVE  /\ Shut(buildCondBranch(b, cond, yes, no))
         /\ SameLabels(b, buildCondBranch(b, cond, yes, no))
<1>1. "condbr" \in Terminators /\ <<cond>> \in Seq(Nat) /\ <<yes, no>> \in Seq(Label)
  BY DEF Terminators, Ops
<1> QED
  BY <1>1, EffectShut DEF buildCondBranch

LEMMA BranchIfOpenShut ==
  ASSUME NEW b, Ready(b), NEW l \in Label
  PROVE  Shut(BranchIfOpen(b, l)) /\ SameLabels(b, BranchIfOpen(b, l))
BY ReadyNotTerminated, BuildBranch DEF BranchIfOpen

LEMMA EvalReady ==
  ASSUME NEW b, Ready(b), NEW slots \in [Names -> Nat], NEW e \in Exprs
  PROVE  /\ Ready(Eval(b, slots, e)) /\ SameLabels(b, Eval(b, slots, e))
         /\ Eval(b, slots, e).val \in Nat
<1>1. /\ {"eval", "named", "load"} \subseteq Ops
      /\ {"eval", "named", "load"} \cap Terminators = {}
      /\ <<>> \in Seq(Nat)
  BY DEF Terminators, Ops
<1>2. e # Lit => slots[e] \in Nat /\ <<slots[e]>> \in Seq(Nat)
  BY DEF Exprs
<1> QED
  BY <1>1, <1>2, ValueReady DEF Eval

\* Issuing labels changes the counter only.
LEMMA IssuedReady ==
  ASSUME NEW b, Ready(b), NEW n \in Nat
  PROVE  /\ Ready(Issued(b, n)) /\ LabelsOf(Issued(b, n)) = LabelsOf(b)
         /\ Issued(b, n).labels = b.labels + n
         /\ Issued(b, n).val = b.val
<1>1. b \in Builder
  BY DEF Ready, Wellformed
<1>2. /\ Issued(b, n) \in Builder
      /\ Issued(b, n).blocks = b.blocks /\ Issued(b, n).cur = b.cur
      /\ Issued(b, n).labels = b.labels + n /\ Issued(b, n).val = b.val
  BY <1>1 DEF Issued, Builder
<1> QED
  BY <1>2 DEF Ready, Wellformed, LabelsOf

LEMMA NewLabelType ==
  ASSUME NEW b, Wellformed(b), NEW p \in Prefixes, NEW k \in Nat
  PROVE  newLabel(b, p, k) \in Label
<1>1. b.labels \in Nat
  BY DEF Wellformed, Builder
<1> QED
  BY <1>1 DEF newLabel, Label

(***************************************************************************)
(* The inductive invariant behind type correctness and the terminator      *)
(* discipline: between two statements the insert point takes instructions, *)
(* and every block before it is closed.                                    *)
(***************************************************************************)
Typed ==
  /\ varSlots \in [Names -> Nat]
  /\ frames \in Seq(Frame)
  /\ env \in [Names -> Binding] /\ here \in SUBSET Names
  /\ reads \subseteq Nat \X Int /\ writes \subseteq Nat \X Int
  /\ stmts \in Nat

Discipline ==
  \/ phase = "body" /\ Ready(ir)
  \/ phase = "done" /\ Shut(ir)

IInv == Typed /\ Discipline

LEMMA InitReady ==
  ASSUME Init
  PROVE  Ready(ir)
<1>1. Ready(EmptyBuilder)
  <2> DEFINE blocks == <<[label |-> Entry, instrs |-> <<>>]>>
  <2>1. blocks \in Seq(Block) /\ Len(blocks) = 1 /\ blocks[1].instrs = <<>>
    BY DEF Block, Label, Entry, Prefixes
  <2>2. /\ EmptyBuilder \in Builder /\ EmptyBuilder.blocks = blocks
        /\ EmptyBuilder.cur = 1
    <3> HIDE DEF blocks
    <3>1. EmptyBuilder = [blocks |-> blocks, cur |-> 1, labels |-> 0,
                          regs |-> 0, val |-> NoReg]
      BY DEF EmptyBuilder, blocks
    <3> QED BY <2>1, <3>1 DEF Builder, NoReg
  <2> HIDE DEF blocks
  <2>3. NoTerminator(blocks[1])
    BY <2>1 DEF NoTerminator
  <2>4. blocks # <<>> /\ \A k \in 1 .. Len(blocks) - 1 : FALSE
    <3>1. \A k \in 1 .. Len(blocks) - 1 : FALSE
      BY <2>1
    <3>2. blocks # <<>>
      BY DEF blocks
    <3> QED BY <3>1, <3>2
  <2>5. Wellformed(EmptyBuilder)
    <3>1. \A k \in 1 .. Len(blocks) - 1 : Closed(EmptyBuilder.blocks[k])
      BY <2>4
    <3> QED BY <2>1, <2>2, <2>4, <3>1 DEF Wellformed
  <2> QED BY <2>1, <2>2, <2>3, <2>5 DEF Ready
<1>2. Ready(Param(EmptyBuilder))
  <2> DEFINE b1 == buildAlloca(EmptyBuilder)
             b2 == Value(b1, "param", <<>>)
  <2>1. Ready(b1) /\ b1.val \in Nat
    BY <1>1, BuildAlloca
  <2>2. "param" \in Ops /\ "param" \notin Terminators /\ <<>> \in Seq(Nat)
    BY DEF Ops, Terminators
  <2>3. Ready(b2) /\ b2.val \in Nat
    <3> HIDE DEF b1
    <3> QED BY <2>1, <2>2, ValueReady
  <2>4. Param(EmptyBuilder) = buildStore(b2, b2.val, b1.val)
    BY DEF Param
  <2> HIDE DEF b1, b2
  <2> QED BY <2>1, <2>3, <2>4, BuildStore
<1> QED
  BY <1>1, <1>2 DEF Init

LEMMA InitIInv == Init => IInv
<1> SUFFICES ASSUME Init PROVE IInv
  OBVIOUS
<1>1. Ready(ir)
  BY InitReady
<1>2. varSlots \in [Names -> Nat] /\ env \in [Names -> Binding]
  BY DEF Init, Binding, Unbound, NoReg
<1> QED
  BY <1>1, <1>2 DEF Init, IInv, Typed, Discipline

\* What a visitor that begins may assume.
LEMMA AtVisit ==
  ASSUME IInv, NEW kind, Visiting(kind)
  PROVE  /\ Ready(ir) /\ stmts' \in Nat /\ phase' = "body"
         /\ stmts + 1 \in Nat
BY DEF IInv, Typed, Discipline, Visiting

LEMMA ReadOfType ==
  ASSUME IInv, NEW e, NEW r \in Nat
  PROVE  ReadOf(e, r) \subseteq Nat \X Int
BY DEF IInv, Typed, ReadOf, Binding

LEMMA VarDeclStep ==
  ASSUME IInv, NEW x \in Names, NEW e \in Exprs \cup {None}, VisitVarDecl(x, e)
  PROVE  IInv'
<1> DEFINE b1 == buildAlloca(ir)
           slots == [varSlots EXCEPT ![x] = b1.val]
           b2 == Eval(b1, slots, e)
           b3 == buildStore(b2, b2.val, b1.val)
<1>1. Ready(ir) /\ stmts' \in Nat /\ phase' = "body"
  BY AtVisit DEF VisitVarDecl
<1>2. Ready(b1) /\ b1.val \in Nat
  BY <1>1, BuildAlloca
<1>3. slots \in [Names -> Nat]
  BY <1>2 DEF IInv, Typed
<1>4. e \in Exprs => Ready(b2) /\ b2.val \in Nat
  <2> HIDE DEF b1, slots
  <2> QED BY <1>2, <1>3, EvalReady
<1>5. e \in Exprs => Ready(b3)
  <2> HIDE DEF b1, b2
  <2> QED BY <1>2, <1>4, BuildStore
<1>6. /\ varSlots' = slots
      /\ ir' = IF e = None THEN b1 ELSE b3
      /\ reads' = IF e = None THEN reads ELSE reads \cup ReadOf(e, b2.val)
      /\ writes' = IF e = None THEN writes ELSE writes \cup {<<b2.val, b1.val>>}
      /\ env' = [env EXCEPT ![x] = [slot |-> b1.val, mut |-> TRUE]]
      /\ here' = here \cup {x} /\ frames' = frames
  BY DEF VisitVarDecl
<1> HIDE DEF b1, b2, b3, slots
<1>7. e \in Exprs => ReadOf(e, b2.val) \subseteq Nat \X Int
  BY <1>4, ReadOfType
<1>8. Ready(ir')
  BY <1>2, <1>5, <1>6
<1>9. env' \in [Names -> Binding]
  BY <1>2, <1>6 DEF IInv, Typed, Binding
<1>10. reads' \subseteq Nat \X Int /\ writes' \subseteq Nat \X Int
  BY <1>2, <1>4, <1>6, <1>7 DEF IInv, Typed
<1> QED
  BY <1>1, <1>3, <1>6, <1>8, <1>9, <1>10 DEF IInv, Typed, Discipline

LEMMA ExprStmtStep ==
  ASSUME IInv, NEW e \in Exprs, VisitExprStmt(e)
  PROVE  IInv'
<1>1. Ready(ir) /\ stmts' \in Nat /\ phase' = "body"
  BY AtVisit DEF VisitExprStmt
<1>2. Ready(ir') /\ ir'.val \in Nat
  BY <1>1, EvalReady DEF VisitExprStmt, IInv, Typed
<1>3. reads' \subseteq Nat \X Int
  BY <1>2, ReadOfType DEF VisitExprStmt, IInv, Typed
<1> QED
  BY <1>1, <1>2, <1>3 DEF VisitExprStmt, IInv, Typed, Discipline

LEMMA ExitStep ==
  ASSUME IInv, VisitExit
  PROVE  IInv'
<1>1. Ready(ir) /\ stmts' \in Nat /\ phase' = "body"
  BY AtVisit DEF VisitExit
<1>2. "exit" \in Ops /\ "exit" \notin Terminators /\ <<>> \in Seq(Nat)
  BY DEF Ops, Terminators
<1>3. Ready(ir')
  BY <1>1, <1>2, ValueReady DEF VisitExit
<1> QED
  BY <1>1, <1>3 DEF VisitExit, semVars, IInv, Typed, Discipline

LEMMA AssignStep ==
  ASSUME IInv, NEW x \in Names, NEW e \in Exprs, NEW compound \in BOOLEAN,
         VisitAssign(x, e, compound)
  PROVE  IInv'
<1> DEFINE bnd == IF env[x] = Unbound THEN [slot |-> NoSlot, mut |-> TRUE] ELSE env[x]
           b1 == IF compound THEN Eval(ir, varSlots, x) ELSE ir
           b2 == Eval(b1, varSlots, e)
           v3 == Value(b2, "eval", <<b1.val, b2.val>>)
           b3 == IF compound THEN v3 ELSE b2
           b4 == buildStore(b3, b3.val, varSlots[x])
<1>1. Ready(ir) /\ stmts' \in Nat /\ phase' = "body"
  BY AtVisit DEF VisitAssign
<1>2. varSlots \in [Names -> Nat] /\ x \in Exprs
  BY DEF IInv, Typed, Exprs
<1>3. Ready(b1) /\ b1.val \in Nat
  BY <1>1, <1>2, EvalReady DEF Ready, Wellformed, Builder
<1>4. Ready(b2) /\ b2.val \in Nat
  <2> HIDE DEF b1
  <2> QED BY <1>2, <1>3, EvalReady
<1>5. Ready(b3) /\ b3.val \in Nat
  <2>1. "eval" \in Ops /\ "eval" \notin Terminators
    BY DEF Ops, Terminators
  <2> HIDE DEF b1, b2
  <2>2. <<b1.val, b2.val>> \in Seq(Nat)
    BY <1>3, <1>4
  <2>3. Ready(v3) /\ v3.val \in Nat
    BY <1>4, <2>1, <2>2, ValueReady
  <2> HIDE DEF v3
  <2> QED BY <1>4, <2>3
<1>6. Ready(b4)
  <2> HIDE DEF b3
  <2> QED BY <1>2, <1>5, BuildStore
<1>7. bnd \in Binding
  BY DEF IInv, Typed, Binding, NoSlot
<1>8. /\ ir' = IF varSlots[x] = NoReg THEN b3 ELSE b4
      /\ env' = [env EXCEPT ![x] = bnd]
      /\ here' = IF env[x] = Unbound THEN here \cup {x} ELSE here
      /\ reads' = reads \cup ReadOf(e, b2.val)
                    \cup (IF compound THEN {<<b1.val, bnd.slot>>} ELSE {})
      /\ writes' = writes \cup {<<b3.val, bnd.slot>>}
      /\ varSlots' = varSlots /\ frames' = frames
  BY DEF VisitAssign
<1> HIDE DEF b1, b2, b3, b4, bnd
<1>9. Ready(ir') /\ env' \in [Names -> Binding]
  BY <1>5, <1>6, <1>7, <1>8 DEF IInv, Typed
<1>10. reads' \subseteq Nat \X Int /\ writes' \subseteq Nat \X Int
  <2>1. bnd.slot \in Int
    BY <1>7 DEF Binding
  <2>2. ReadOf(e, b2.val) \subseteq Nat \X Int
    BY <1>4, ReadOfType
  <2> QED BY <1>3, <1>5, <1>8, <2>1, <2>2 DEF IInv, Typed
<1> QED
  BY <1>1, <1>8, <1>9, <1>10 DEF IInv, Typed, Discipline

LEMMA ReturnStep ==
  ASSUME IInv, NEW e \in Exprs \cup {None}, VisitReturn(e)
  PROVE  IInv'
<1> DEFINE v == Eval(ir, varSlots, e)
           b1 == IF e = None THEN buildRet(ir, <<>>) ELSE buildRet(v, <<v.val>>)
           l == newLabel(b1, "after_ret", 0)
           b2 == OpenBlock(b1, l)
           b3 == Issued(b2, 1)
<1>1. Ready(ir) /\ stmts' \in Nat /\ phase' = "body"
  BY AtVisit DEF VisitReturn
<1>2. e # None => Ready(v) /\ v.val \in Nat
  BY <1>1, EvalReady DEF IInv, Typed
<1>3. Shut(b1)
  <2>1. Shut(buildRet(ir, <<>>))
    <3>1. <<>> \in Seq(Nat)
      OBVIOUS
    <3> QED BY <1>1, <3>1, BuildRet
  <2>2. e # None => Shut(buildRet(v, <<v.val>>))
    <3> HIDE DEF v
    <3>1. e # None => <<v.val>> \in Seq(Nat)
      BY <1>2
    <3> QED BY <1>2, <3>1, BuildRet
  <2> HIDE DEF v
  <2> QED BY <2>1, <2>2
<1>4. Ready(b3)
  <2> HIDE DEF b1
  <2>1. l \in Label
    <3>1. "after_ret" \in Prefixes
      BY DEF Prefixes
    <3> QED BY <1>3, <3>1, NewLabelType DEF Shut
  <2>2. Ready(b2)
    <3> HIDE DEF l
    <3> QED BY <1>3, <2>1, OpenBlockReady
  <2> HIDE DEF b2
  <2> QED BY <2>2, IssuedReady
<1>5. ir' = b3 /\ reads' = IF e = None THEN reads ELSE reads \cup ReadOf(e, b1.val)
  BY DEF VisitReturn
<1>6. e # None => b1.val \in Nat
  <2> HIDE DEF b1
  <2> QED BY <1>3 DEF Shut, Wellformed, Builder
<1> HIDE DEF b1, b3
<1>7. reads' \subseteq Nat \X Int
  BY <1>5, <1>6, ReadOfType DEF IInv, Typed
<1> QED
  BY <1>1, <1>4, <1>5, <1>7 DEF VisitReturn, IInv, Typed, Discipline

(***************************************************************************)
(* Statements with a body: the frame pushed, and the scope entered.        *)
(***************************************************************************)
LEMMA AtNesting ==
  ASSUME IInv, NEW kind, NEW k \in Kinds, NEW next \in Label, NEW join \in Label,
         NEW reg \in Nat, NEW scoped \in BOOLEAN,
         Nesting(kind, NewFrame(k, next, join, reg, scoped))
  PROVE  /\ Ready(ir) /\ stmts' \in Nat /\ phase' = "body"
         /\ frames' \in Seq(Frame)
<1>1. Ready(ir) /\ stmts' \in Nat /\ phase' = "body" /\ stmts + 1 \in Nat
  BY AtVisit DEF Nesting
<1>2. NewFrame(k, next, join, reg, scoped) \in Frame
  BY <1>1 DEF NewFrame, Frame, IInv, Typed
<1>3. frames' = Append(frames, NewFrame(k, next, join, reg, scoped))
  BY DEF Nesting
<1> HIDE DEF NewFrame
<1> QED
  BY <1>1, <1>2, <1>3 DEF IInv, Typed

LEMMA ScopeEntered ==
  ASSUME IInv, NEW scoped \in BOOLEAN, EnterScope(scoped)
  PROVE  env' \in [Names -> Binding] /\ here' \in SUBSET Names
BY DEF IInv, Typed, EnterScope

\* A terminated insert point followed by a new block and n issued labels.
LEMMA NextBlockReady ==
  ASSUME NEW b, Shut(b), NEW l \in Label, NEW n \in Nat
  PROVE  /\ Ready(Issued(OpenBlock(b, l), n)) /\ Ready(OpenBlock(b, l))
         /\ Issued(OpenBlock(b, l), n).val = b.val
<1>1. Ready(OpenBlock(b, l)) /\ OpenBlock(b, l).val = b.val
  BY OpenBlockReady
<1> HIDE DEF OpenBlock
<1> QED BY <1>1, IssuedReady

LEMMA ReadyWellformed ==
  ASSUME NEW b, Ready(b)
  PROVE  Wellformed(b) /\ b.val \in Nat /\ b.regs \in Nat
BY DEF Ready, Wellformed, Builder

LEMMA BlockStep ==
  ASSUME IInv, VisitBlock
  PROVE  IInv'
<1>1. Entry \in Label /\ NoReg \in Nat /\ "block" \in Kinds
  BY DEF Entry, Label, Prefixes, NoReg, Kinds
<1>2. /\ Nesting("block", NewFrame("block", Entry, Entry, NoReg, TRUE))
      /\ EnterScope(TRUE)
      /\ UNCHANGED <<ir, varSlots, reads, writes>>
  BY DEF VisitBlock
<1>3. Ready(ir) /\ stmts' \in Nat /\ phase' = "body" /\ frames' \in Seq(Frame)
  BY <1>1, <1>2, AtNesting
<1>4. env' \in [Names -> Binding] /\ here' \in SUBSET Names
  BY <1>2, ScopeEntered
<1> QED
  BY <1>2, <1>3, <1>4 DEF IInv, Typed, Discipline

LEMMA IfStep ==
  ASSUME IInv, NEW e \in Exprs, NEW hasElse \in BOOLEAN, NEW scoped \in BOOLEAN,
         VisitIf(e, hasElse, scoped)
  PROVE  IInv'
<1> DEFINE b1    == Eval(ir, varSlots, e)
           then  == newLabel(b1, "then", 0)
           else  == newLabel(b1, "else", 1)
           merge == newLabel(b1, "merge", IF hasElse THEN 2 ELSE 1)
           next  == IF hasElse THEN else ELSE merge
           b2    == buildCondBranch(b1, b1.val, then, next)
           b3    == Issued(OpenBlock(b2, then), IF hasElse THEN 3 ELSE 2)
<1>1. /\ ir' = b3
      /\ reads' = reads \cup ReadOf(e, b1.val)
      /\ Nesting("if", NewFrame("if", next, merge, NoReg, scoped))
      /\ EnterScope(scoped)
      /\ UNCHANGED <<varSlots, writes>>
  BY DEF VisitIf
<1>2. Ready(ir)
  BY <1>1, AtVisit DEF Nesting
<1>3. Ready(b1) /\ b1.val \in Nat
  BY <1>2, EvalReady DEF IInv, Typed
<1>4. then \in Label /\ next \in Label /\ merge \in Label
  <2>1. {"then", "else", "merge"} \subseteq Prefixes
    BY DEF Prefixes
  <2> HIDE DEF b1
  <2> QED BY <1>3, <2>1, NewLabelType, ReadyWellformed
<1>5. Shut(b2)
  <2> HIDE DEF b1, then, next
  <2> QED BY <1>3, <1>4, BuildCondBranch
<1>6. Ready(b3)
  <2> HIDE DEF b2, then
  <2> QED BY <1>4, <1>5, NextBlockReady
<1>7. "if" \in Kinds /\ NoReg \in Nat
  BY DEF Kinds, NoReg
<1> HIDE DEF b1, b3, next, merge
<1>8. stmts' \in Nat /\ phase' = "body" /\ frames' \in Seq(Frame)
  BY <1>1, <1>4, <1>7, AtNesting
<1>9. env' \in [Names -> Binding] /\ here' \in SUBSET Names
  BY <1>1, ScopeEntered
<1>10. ReadOf(e, b1.val) \subseteq Nat \X Int
  BY <1>3, ReadOfType
<1> QED
  BY <1>1, <1>6, <1>8, <1>9, <1>10 DEF IInv, Typed, Discipline

LEMMA LoopStep ==
  ASSUME IInv, NEW e \in Exprs, NEW kind \in {"while", "vloop"}, VisitLoop(e, kind)
  PROVE  IInv'
<1> DEFINE cond == newLabel(ir, kind, 0)
           body == newLabel(ir, kind, 1)
           exit == newLabel(ir, kind, 2)
           b0   == buildBranch(ir, cond)
           b1   == OpenBlock(b0, cond)
           b2   == Eval(b1, varSlots, e)
           b3   == buildCondBranch(b2, b2.val, body, exit)
           b4   == Issued(OpenBlock(b3, body), 3)
<1>1. /\ ir' = b4
      /\ reads' = reads \cup ReadOf(e, b2.val)
      /\ Nesting(kind, NewFrame("loop", exit, cond, NoReg, TRUE))
      /\ EnterScope(TRUE)
      /\ UNCHANGED <<varSlots, writes>>
  BY DEF VisitLoop
<1>2. Ready(ir)
  BY <1>1, AtVisit DEF Nesting
<1>3. cond \in Label /\ body \in Label /\ exit \in Label
  <2>1. kind \in Prefixes
    BY DEF Prefixes
  <2> QED BY <1>2, <2>1, NewLabelType, ReadyWellformed
<1> HIDE DEF cond, body, exit
<1>4. Ready(b1)
  <2>1. Shut(b0)
    BY <1>2, <1>3, BuildBranch
  <2> HIDE DEF b0
  <2> QED BY <1>3, <2>1, NextBlockReady
<1>5. Ready(b2) /\ b2.val \in Nat
  <2> HIDE DEF b1
  <2> QED BY <1>4, EvalReady DEF IInv, Typed
<1>6. Shut(b3)
  <2> HIDE DEF b2
  <2> QED BY <1>3, <1>5, BuildCondBranch
<1>7. Ready(b4)
  <2> HIDE DEF b3
  <2> QED BY <1>3, <1>6, NextBlockReady
<1>8. "loop" \in Kinds /\ NoReg \in Nat
  BY DEF Kinds, NoReg
<1> HIDE DEF b2, b4
<1>9. stmts' \in Nat /\ phase' = "body" /\ frames' \in Seq(Frame)
  BY <1>1, <1>3, <1>8, AtNesting
<1>10. env' \in [Names -> Binding] /\ here' \in SUBSET Names
  BY <1>1, ScopeEntered
<1>11. ReadOf(e, b2.val) \subseteq Nat \X Int
  BY <1>5, ReadOfType
<1> QED
  BY <1>1, <1>7, <1>9, <1>10, <1>11 DEF IInv, Typed, Discipline

LEMMA CountStep ==
  ASSUME IInv, VisitCountedVloop
  PROVE  IInv'
<1> DEFINE cond == newLabel(ir, "vloop_cond", 1)
           body == newLabel(ir, "vloop_body", 2)
           exit == newLabel(ir, "vloop_exit", 3)
           b1   == buildAlloca(ir)
           b2   == Value(b1, "int", <<>>)
           s2   == buildStore(b2, b2.val, b1.val)
           b3   == buildBranch(s2, cond)
           o3   == OpenBlock(b3, cond)
           b4   == Value(o3, "poll", <<b1.val>>)
           b5   == buildCondBranch(b4, b4.val, body, exit)
           b6   == Issued(OpenBlock(b5, body), 4)
<1>1. /\ ir' = b6
      /\ Nesting("count", NewFrame("count", exit, cond, b1.val, TRUE))
      /\ EnterScope(TRUE)
      /\ UNCHANGED <<varSlots, reads, writes>>
  BY DEF VisitCountedVloop
<1>2. Ready(ir)
  BY <1>1, AtVisit DEF Nesting
<1>3. cond \in Label /\ body \in Label /\ exit \in Label
  <2>1. {"vloop_cond", "vloop_body", "vloop_exit"} \subseteq Prefixes
    BY DEF Prefixes
  <2> QED BY <1>2, <2>1, NewLabelType, ReadyWellformed
<1> HIDE DEF cond, body, exit
<1>4. {"int", "poll"} \subseteq Ops /\ {"int", "poll"} \cap Terminators = {}
  BY DEF Ops, Terminators
<1>5. Ready(b1) /\ b1.val \in Nat
  BY <1>2, BuildAlloca
<1> HIDE DEF b1
<1>6. <<>> \in Seq(Nat) /\ <<b1.val>> \in Seq(Nat)
  BY <1>5
<1>7. Ready(b2) /\ b2.val \in Nat
  BY <1>4, <1>5, <1>6, ValueReady
<1> HIDE DEF b2
<1>8. Ready(s2)
  BY <1>5, <1>7, BuildStore
<1> HIDE DEF s2
<1>9. Shut(b3)
  BY <1>3, <1>8, BuildBranch
<1> HIDE DEF b3
<1>10. Ready(o3)
  BY <1>3, <1>9, NextBlockReady
<1> HIDE DEF o3
<1>11. Ready(b4) /\ b4.val \in Nat
  BY <1>4, <1>6, <1>10, ValueReady
<1> HIDE DEF b4
<1>12. Shut(b5)
  BY <1>3, <1>11, BuildCondBranch
<1> HIDE DEF b5
<1>13. Ready(b6)
  BY <1>3, <1>12, NextBlockReady
<1> HIDE DEF b6
<1>14. "count" \in Kinds
  BY DEF Kinds
<1>15. stmts' \in Nat /\ phase' = "body" /\ frames' \in Seq(Frame)
  BY <1>1, <1>3, <1>5, <1>14, AtNesting
<1>16. env' \in [Names -> Binding] /\ here' \in SUBSET Names
  BY <1>1, ScopeEntered
<1> QED
  BY <1>1, <1>13, <1>15, <1>16 DEF IInv, Typed, Discipline

LEMMA ForStep ==
  ASSUME IInv, NEW x \in Names, NEW e \in Exprs, VisitFor(x, e)
  PROVE  IInv'
<1> DEFINE b1    == buildAlloca(ir)
           slots == [varSlots EXCEPT ![x] = b1.val]
           inner == [env EXCEPT ![x] = [slot |-> b1.val, mut |-> FALSE]]
           b2    == Eval(b1, slots, e)
           b3    == buildAlloca(b2)
           b4    == buildStore(b3, b2.val, b3.val)
           cond  == newLabel(ir, "for_cond", 0)
           body  == newLabel(ir, "for_body", 1)
           exit  == newLabel(ir, "for_exit", 2)
           s4    == buildBranch(b4, cond)
           b5    == OpenBlock(s4, cond)
           b6    == Value(b5, "poll", <<b3.val>>)
           b7    == buildCondBranch(b6, b6.val, body, exit)
           b8    == Issued(OpenBlock(b7, body), 3)
<1>1. /\ ir' = b8
      /\ varSlots' = slots
      /\ reads' = reads \cup (IF e \in Names THEN {<<b2.val, inner[e].slot>>} ELSE {})
      /\ Nesting("for", NewFrame("loop", exit, cond, NoReg, TRUE))
      /\ env' = inner
      /\ here' = {} /\ writes' = writes
  BY DEF VisitFor
<1>2. Ready(ir)
  BY <1>1, AtVisit DEF Nesting
<1>3. cond \in Label /\ body \in Label /\ exit \in Label
  <2>1. {"for_cond", "for_body", "for_exit"} \subseteq Prefixes
    BY DEF Prefixes
  <2> QED BY <1>2, <2>1, NewLabelType, ReadyWellformed
<1> HIDE DEF cond, body, exit
<1>4. "poll" \in Ops /\ "poll" \notin Terminators
  BY DEF Ops, Terminators
<1>5. Ready(b1) /\ b1.val \in Nat
  BY <1>2, BuildAlloca
<1> HIDE DEF b1
<1>6. slots \in [Names -> Nat] /\ inner \in [Names -> Binding]
  BY <1>5 DEF IInv, Typed, Binding
<1> HIDE DEF slots, inner
<1>7. Ready(b2) /\ b2.val \in Nat
  BY <1>5, <1>6, EvalReady
<1> HIDE DEF b2
<1>8. Ready(b3) /\ b3.val \in Nat
  BY <1>7, BuildAlloca
<1> HIDE DEF b3
<1>9. Ready(b4)
  BY <1>7, <1>8, BuildStore
<1> HIDE DEF b4
<1>10. Shut(s4)
  BY <1>3, <1>9, BuildBranch
<1> HIDE DEF s4
<1>11. Ready(b5)
  BY <1>3, <1>10, NextBlockReady
<1> HIDE DEF b5
<1>12. Ready(b6) /\ b6.val \in Nat
  <2>1. <<b3.val>> \in Seq(Nat)
    BY <1>8
  <2> QED BY <1>4, <1>11, <2>1, ValueReady
<1> HIDE DEF b6
<1>13. Shut(b7)
  BY <1>3, <1>12, BuildCondBranch
<1> HIDE DEF b7
<1>14. Ready(b8)
  BY <1>3, <1>13, NextBlockReady
<1> HIDE DEF b8
<1>15. "loop" \in Kinds /\ NoReg \in Nat
  BY DEF Kinds, NoReg
<1>16. stmts' \in Nat /\ phase' = "body" /\ frames' \in Seq(Frame)
  BY <1>1, <1>3, <1>15, AtNesting
<1>17. reads' \subseteq Nat \X Int
  BY <1>1, <1>6, <1>7 DEF IInv, Typed, Binding
<1> QED
  BY <1>1, <1>6, <1>14, <1>16, <1>17 DEF IInv, Typed, Discipline

LEMMA ArmReady ==
  ASSUME NEW b, Ready(b), NEW subj \in Nat, NEW exit \in Label,
         NEW wild \in BOOLEAN, NEW last \in BOOLEAN
  PROVE  /\ Ready(Arm(b, subj, exit, wild, last).ir)
         /\ Arm(b, subj, exit, wild, last).next \in Label
<1> DEFINE body == newLabel(b, "match_arm", 0)
           next == IF last THEN exit ELSE newLabel(b, "match_next", 1)
           b1   == Value(b, "test", <<subj>>)
           bw   == buildBranch(b, body)
           bt   == buildCondBranch(b1, b1.val, body, next)
           b2   == IF wild THEN bw ELSE bt
           b3   == Issued(OpenBlock(b2, body), IF last THEN 1 ELSE 2)
<1>1. Arm(b, subj, exit, wild, last) = [ir |-> b3, next |-> next]
  BY DEF Arm
<1>2. body \in Label /\ next \in Label
  <2>1. {"match_arm", "match_next"} \subseteq Prefixes
    BY DEF Prefixes
  <2> QED BY <2>1, NewLabelType, ReadyWellformed
<1> HIDE DEF body, next
<1>3. Ready(b1) /\ b1.val \in Nat
  <2>1. "test" \in Ops /\ "test" \notin Terminators /\ <<subj>> \in Seq(Nat)
    BY DEF Ops, Terminators
  <2> QED BY <2>1, ValueReady
<1> HIDE DEF b1
<1>4. Shut(b2)
  <2>1. Shut(bw)
    BY <1>2, BuildBranch
  <2>2. Shut(bt)
    BY <1>2, <1>3, BuildCondBranch
  <2> HIDE DEF bw, bt
  <2> QED BY <2>1, <2>2
<1> HIDE DEF b2
<1>5. Ready(b3)
  BY <1>2, <1>4, NextBlockReady
<1> HIDE DEF b3
<1> QED BY <1>1, <1>2, <1>5

LEMMA MatchStep ==
  ASSUME IInv, NEW e \in Exprs, NEW wild \in BOOLEAN, NEW last \in BOOLEAN,
         NEW scoped \in BOOLEAN, VisitMatch(e, wild, last, scoped)
  PROVE  IInv'
<1> DEFINE b1   == Eval(ir, varSlots, e)
           exit == newLabel(b1, "match_exit", 0)
           b2   == Issued(b1, 1)
           arm  == Arm(b2, b1.val, exit, wild, last)
           kind == IF wild THEN "wild" ELSE "arm"
<1>1. /\ ir' = arm.ir
      /\ reads' = reads \cup ReadOf(e, b1.val)
      /\ Nesting("match", NewFrame(kind, arm.next, exit, b1.val, scoped))
      /\ EnterScope(scoped)
      /\ UNCHANGED <<varSlots, writes>>
  BY DEF VisitMatch
<1>2. Ready(ir)
  BY <1>1, AtVisit DEF Nesting
<1>3. Ready(b1) /\ b1.val \in Nat
  BY <1>2, EvalReady DEF IInv, Typed
<1> HIDE DEF b1
<1>4. exit \in Label
  <2>1. "match_exit" \in Prefixes
    BY DEF Prefixes
  <2> QED BY <1>3, <2>1, NewLabelType, ReadyWellformed
<1> HIDE DEF exit
<1>5. Ready(b2)
  BY <1>3, IssuedReady
<1> HIDE DEF b2
<1>6. Ready(arm.ir) /\ arm.next \in Label
  BY <1>3, <1>4, <1>5, ArmReady
<1>7. kind \in Kinds
  BY DEF Kinds
<1> HIDE DEF arm, kind
<1>8. stmts' \in Nat /\ phase' = "body" /\ frames' \in Seq(Frame)
  BY <1>1, <1>3, <1>4, <1>6, <1>7, AtNesting
<1>9. env' \in [Names -> Binding] /\ here' \in SUBSET Names
  BY <1>1, ScopeEntered
<1>10. ReadOf(e, b1.val) \subseteq Nat \X Int
  BY <1>3, ReadOfType
<1> QED
  BY <1>1, <1>6, <1>8, <1>9, <1>10 DEF IInv, Typed, Discipline

LEMMA EmptyMatchStep ==
  ASSUME IInv, NEW e \in Exprs, VisitEmptyMatch(e)
  PROVE  IInv'
<1> DEFINE b1   == Eval(ir, varSlots, e)
           exit == newLabel(b1, "match_exit", 0)
           b2   == buildBranch(b1, exit)
           b3   == Issued(OpenBlock(b2, exit), 1)
<1>1. Ready(ir) /\ stmts' \in Nat /\ phase' = "body"
  BY AtVisit DEF VisitEmptyMatch
<1>2. /\ ir' = b3
      /\ reads' = reads \cup ReadOf(e, b1.val)
      /\ UNCHANGED <<varSlots, frames, env, here, writes>>
  BY DEF VisitEmptyMatch
<1>3. Ready(b1) /\ b1.val \in Nat
  BY <1>1, EvalReady DEF IInv, Typed
<1> HIDE DEF b1
<1>4. exit \in Label
  <2>1. "match_exit" \in Prefixes
    BY DEF Prefixes
  <2> QED BY <1>3, <2>1, NewLabelType, ReadyWellformed
<1> HIDE DEF exit
<1>5. Shut(b2)
  BY <1>3, <1>4, BuildBranch
<1> HIDE DEF b2
<1>6. Ready(b3)
  BY <1>4, <1>5, NextBlockReady
<1> HIDE DEF b3
<1>7. ReadOf(e, b1.val) \subseteq Nat \X Int
  BY <1>3, ReadOfType
<1> QED
  BY <1>1, <1>2, <1>6, <1>7 DEF IInv, Typed, Discipline

(***************************************************************************)
(* The rest of the visitors: the frame popped or replaced, the scope left. *)
(***************************************************************************)
LEMMA AtEnd ==
  ASSUME IInv, NEW kinds, Ending(kinds)
  PROVE  /\ Ready(ir) /\ Top \in Frame /\ Pop \in Seq(Frame)
         /\ phase' = "body" /\ stmts' = stmts /\ varSlots' = varSlots
         /\ reads' = reads /\ writes' = writes
         /\ Top.next \in Label /\ Top.join \in Label /\ Top.reg \in Nat
<1>1. Ready(ir) /\ frames \in Seq(Frame) /\ frames # <<>> /\ phase = "body"
  BY DEF Ending, IInv, Typed, Discipline
<1>2. Top \in Frame
  BY <1>1 DEF Top
<1>3. Pop \in Seq(Frame)
  BY <1>1 DEF Pop
<1>4. UNCHANGED <<varSlots, reads, writes, stmts, phase>>
  BY DEF Ending
<1>5. Top.next \in Label /\ Top.join \in Label /\ Top.reg \in Nat
  <2> HIDE DEF Top
  <2> QED BY <1>2 DEF Frame
<1> QED BY <1>1, <1>2, <1>3, <1>4, <1>5

LEMMA ScopeLeft ==
  ASSUME IInv, NEW f \in Frame, LeaveScope(f)
  PROVE  env' \in [Names -> Binding] /\ here' \in SUBSET Names
BY DEF IInv, Typed, LeaveScope, Frame

\* The environment of the next branch or arm.
LEMMA NextScope ==
  ASSUME IInv, NEW f \in Frame, NEW scoped \in BOOLEAN
  PROVE  LET e == IF f.scoped THEN f.env ELSE env
             h == IF f.scoped THEN f.here ELSE here
         IN  /\ e \in [Names -> Binding] /\ h \in SUBSET Names
             /\ (IF scoped THEN {} ELSE h) \in SUBSET Names
BY DEF IInv, Typed, Frame

LEMMA EndBlockStep ==
  ASSUME IInv, EndBlock
  PROVE  IInv'
<1>1. /\ Ending({"block"}) /\ LeaveScope(Top) /\ frames' = Pop /\ ir' = ir
  BY DEF EndBlock
<1>2. env' \in [Names -> Binding] /\ here' \in SUBSET Names
  BY <1>1, AtEnd, ScopeLeft
<1> QED
  BY <1>1, <1>2, AtEnd DEF IInv, Typed, Discipline

LEMMA EndThenStep ==
  ASSUME IInv, NEW scoped \in BOOLEAN, EndThen(scoped)
  PROVE  IInv'
<1> DEFINE b1 == BranchIfOpen(ir, Top.join)
           b2 == OpenBlock(b1, Top.next)
           e == IF Top.scoped THEN Top.env ELSE env
           h == IF Top.scoped THEN Top.here ELSE here
           f == [Top EXCEPT !.next = Top.join, !.env = e, !.here = h,
                            !.scoped = scoped, !.at = stmts]
<1>1. /\ Ending({"if"})
      /\ ir' = b2 /\ frames' = Append(Pop, f) /\ env' = e
      /\ here' = IF scoped THEN {} ELSE h
  BY DEF EndThen
<1>2. Ready(b2)
  <2>1. Shut(b1)
    BY <1>1, AtEnd, BranchIfOpenShut
  <2> HIDE DEF b1
  <2> QED BY <1>1, <2>1, AtEnd, NextBlockReady
<1> HIDE DEF b2
<1>3. /\ e \in [Names -> Binding] /\ h \in SUBSET Names
      /\ (IF scoped THEN {} ELSE h) \in SUBSET Names
  BY <1>1, AtEnd, NextScope
<1> HIDE DEF e, h
<1>4. f \in Frame
  <2>1. stmts \in Nat
    BY DEF IInv, Typed
  <2> HIDE DEF Top
  <2> QED BY <1>1, <1>3, <2>1, AtEnd DEF Frame
<1> HIDE DEF f
<1>5. frames' \in Seq(Frame)
  BY <1>1, <1>4, AtEnd
<1> QED
  BY <1>1, <1>2, <1>3, <1>5, AtEnd DEF IInv, Typed, Discipline

LEMMA EndIfStep ==
  ASSUME IInv, EndIf
  PROVE  IInv'
<1> DEFINE b1 == BranchIfOpen(ir, Top.join)
           b2 == OpenBlock(b1, Top.join)
<1>1. Ending({"if"}) /\ ir' = b2 /\ LeaveScope(Top) /\ frames' = Pop
  BY DEF EndIf
<1>2. Ready(b2)
  <2>1. Shut(b1)
    BY <1>1, AtEnd, BranchIfOpenShut
  <2> HIDE DEF b1
  <2> QED BY <1>1, <2>1, AtEnd, NextBlockReady
<1> HIDE DEF b2
<1>3. env' \in [Names -> Binding] /\ here' \in SUBSET Names
  BY <1>1, AtEnd, ScopeLeft
<1> QED
  BY <1>1, <1>2, <1>3, AtEnd DEF IInv, Typed, Discipline

LEMMA EndLoopStep ==
  ASSUME IInv, EndLoop
  PROVE  IInv'
<1> DEFINE bumped == Effect(ir, "bump", <<Top.reg>>, <<>>)
           b1 == IF Top.kind = "count" /\ ~isTerminated(ir) THEN bumped ELSE ir
           b2 == BranchIfOpen(b1, Top.join)
           b3 == OpenBlock(b2, Top.next)
<1>1. /\ Ending({"loop", "count"})
      /\ ir' = b3 /\ LeaveScope(Top) /\ frames' = Pop
  BY DEF EndLoop
<1>2. Ready(b1)
  <2>1. "bump" \in Ops /\ "bump" \notin Terminators
    BY DEF Ops, Terminators
  <2>2. <<Top.reg>> \in Seq(Nat)
    <3> HIDE DEF Top
    <3> QED BY <1>1, AtEnd
  <2>3. Ready(bumped)
    BY <1>1, <2>1, <2>2, AtEnd, EffectReady
  <2> HIDE DEF bumped
  <2> QED BY <1>1, <2>3, AtEnd
<1> HIDE DEF b1
<1>3. Ready(b3)
  <2>1. Shut(b2)
    BY <1>1, <1>2, AtEnd, BranchIfOpenShut
  <2> HIDE DEF b2
  <2> QED BY <1>1, <2>1, AtEnd, NextBlockReady
<1> HIDE DEF b3
<1>4. env' \in [Names -> Binding] /\ here' \in SUBSET Names
  BY <1>1, AtEnd, ScopeLeft
<1> QED
  BY <1>1, <1>3, <1>4, AtEnd DEF IInv, Typed, Discipline

LEMMA ArmFrame ==
  ASSUME NEW f \in Frame, NEW kind \in Kinds, NEW next \in Label,
         NEW e \in [Names -> Binding], NEW h \in SUBSET Names,
         NEW scoped \in BOOLEAN, NEW at \in Nat
  PROVE  [f EXCEPT !.kind = kind, !.next = next, !.env = e, !.here = h,
                   !.scoped = scoped, !.at = at, !.arms = @ + 1] \in Frame
<1> DEFINE n == f.arms + 1
<1>1. n \in Nat
  BY DEF Frame
<1> HIDE DEF n
<1>2. [f EXCEPT !.kind = kind, !.next = next, !.env = e, !.here = h,
                !.scoped = scoped, !.at = at, !.arms = n] \in Frame
  BY <1>1 DEF Frame
<1> QED BY <1>2 DEF n

LEMMA EndArmStep ==
  ASSUME IInv, NEW wild \in BOOLEAN, NEW last \in BOOLEAN, NEW scoped \in BOOLEAN,
         EndArm(wild, last, scoped)
  PROVE  IInv'
<1> DEFINE b0 == BranchIfOpen(ir, Top.join)
           b1 == OpenBlock(b0, Top.next)
           arm == Arm(b1, Top.reg, Top.join, wild, last)
           e == IF Top.scoped THEN Top.env ELSE env
           h == IF Top.scoped THEN Top.here ELSE here
           kind == IF wild THEN "wild" ELSE "arm"
           f == [Top EXCEPT !.kind = kind, !.next = arm.next, !.env = e, !.here = h,
                            !.scoped = scoped, !.at = stmts, !.arms = @ + 1]
<1>1. /\ Ending({"arm"})
      /\ ir' = arm.ir /\ frames' = Append(Pop, f) /\ env' = e
      /\ here' = IF scoped THEN {} ELSE h
  BY DEF EndArm
<1>2. Ready(b1)
  <2>1. Shut(b0)
    BY <1>1, AtEnd, BranchIfOpenShut
  <2> HIDE DEF b0
  <2> QED BY <1>1, <2>1, AtEnd, NextBlockReady
<1> HIDE DEF b1
<1>3. Ready(arm.ir) /\ arm.next \in Label
  BY <1>1, <1>2, AtEnd, ArmReady
<1> HIDE DEF arm
<1>4. /\ e \in [Names -> Binding] /\ h \in SUBSET Names
      /\ (IF scoped THEN {} ELSE h) \in SUBSET Names
  BY <1>1, AtEnd, NextScope
<1> HIDE DEF e, h
<1>5. f \in Frame
  <2>1. stmts \in Nat /\ kind \in Kinds
    BY DEF IInv, Typed, Kinds
  <2> HIDE DEF Top, kind
  <2>2. Top \in Frame
    BY <1>1, AtEnd
  <2> QED BY <1>3, <1>4, <2>1, <2>2, ArmFrame
<1> HIDE DEF f
<1>6. frames' \in Seq(Frame)
  BY <1>1, <1>5, AtEnd
<1> QED
  BY <1>1, <1>3, <1>4, <1>6, AtEnd DEF IInv, Typed, Discipline

LEMMA ShutTerminated ==
  ASSUME NEW b, Shut(b)
  PROVE  isTerminated(b)
BY LastBlock DEF isTerminated, Shut, Closed

LEMMA EndMatchStep ==
  ASSUME IInv, EndMatch
  PROVE  IInv'
<1> DEFINE b1 == BranchIfOpen(ir, Top.join)
           o1 == OpenBlock(b1, Top.next)
           b2 == IF Top.kind = "wild" THEN b1 ELSE o1
           b3 == BranchIfOpen(b2, Top.join)
           b4 == OpenBlock(b3, Top.join)
<1>1. /\ Ending({"arm", "wild"})
      /\ ir' = b4 /\ LeaveScope(Top) /\ frames' = Pop
  BY DEF EndMatch
<1>2. Shut(b1)
  BY <1>1, AtEnd, BranchIfOpenShut
<1> HIDE DEF b1
<1>3. Ready(o1)
  BY <1>1, <1>2, AtEnd, NextBlockReady
<1> HIDE DEF o1
<1>4. Shut(b3)
  <2>1. CASE Top.kind = "wild"
    <3>1. b3 = b1
      BY <1>2, <2>1, ShutTerminated DEF BranchIfOpen
    <3> QED BY <1>2, <3>1
  <2>2. CASE Top.kind # "wild"
    <3>1. b3 = BranchIfOpen(o1, Top.join)
      BY <2>2
    <3> HIDE DEF b3
    <3> QED BY <1>1, <1>3, <3>1, AtEnd, BranchIfOpenShut
  <2> QED BY <2>1, <2>2
<1> HIDE DEF b3
<1>5. Ready(b4)
  BY <1>1, <1>4, AtEnd, NextBlockReady
<1> HIDE DEF b4
<1>6. env' \in [Names -> Binding] /\ here' \in SUBSET Names
  BY <1>1, AtEnd, ScopeLeft
<1> QED
  BY <1>1, <1>5, <1>6, AtEnd DEF IInv, Typed, Discipline

LEMMA EndFunctionStep ==
  ASSUME IInv, EndFunction
  PROVE  IInv'
<1>1. Ready(ir)
  BY DEF EndFunction, IInv, Discipline
<1>2. <<>> \in Seq(Nat)
  OBVIOUS
<1>3. Shut(ir')
  BY <1>1, <1>2, ReadyNotTerminated, BuildRet DEF EndFunction
<1> QED
  BY <1>3 DEF EndFunction, semVars, IInv, Typed, Discipline

LEMMA NextIInv == IInv /\ [Next]_vars => IInv'
<1> SUFFICES ASSUME IInv, [Next]_vars PROVE IInv'
  OBVIOUS
<1>1. ASSUME NEW x \in Names, NEW e \in Exprs \cup {None}, VisitVarDecl(x, e)
      PROVE  IInv'
  BY <1>1, VarDeclStep
<1>2. ASSUME NEW e \in Exprs, VisitExprStmt(e)
      PROVE  IInv'
  BY <1>2, ExprStmtStep
<1>3. CASE VisitExit
  BY <1>3, ExitStep
<1>4. ASSUME NEW x \in Names, NEW e \in Exprs, NEW compound \in BOOLEAN,
             VisitAssign(x, e, compound)
      PROVE  IInv'
  BY <1>4, AssignStep
<1>5. ASSUME NEW e \in Exprs \cup {None}, VisitReturn(e)
      PROVE  IInv'
  BY <1>5, ReturnStep
<1>6. CASE VisitBreak \/ VisitContinue
  BY <1>6, AtVisit
     DEF VisitBreak, VisitContinue, irVars, semVars, IInv, Typed, Discipline
<1>7. CASE VisitBlock
  BY <1>7, BlockStep
<1>8. ASSUME NEW e \in Exprs, NEW hasElse \in BOOLEAN, NEW scoped \in BOOLEAN,
             VisitIf(e, hasElse, scoped)
      PROVE  IInv'
  BY <1>8, IfStep
<1>9. ASSUME NEW e \in Exprs, NEW kind \in {"while", "vloop"}, VisitLoop(e, kind)
      PROVE  IInv'
  BY <1>9, LoopStep
<1>10. CASE VisitCountedVloop
  BY <1>10, CountStep
<1>11. ASSUME NEW x \in Names, NEW e \in Exprs, VisitFor(x, e)
       PROVE  IInv'
  BY <1>11, ForStep
<1>12. ASSUME NEW e \in Exprs, NEW wild \in BOOLEAN, NEW last \in BOOLEAN,
              NEW scoped \in BOOLEAN, VisitMatch(e, wild, last, scoped)
       PROVE  IInv'
  BY <1>12, MatchStep
<1>13. ASSUME NEW e \in Exprs, VisitEmptyMatch(e)
       PROVE  IInv'
  BY <1>13, EmptyMatchStep
<1>14. CASE EndBlock
  BY <1>14, EndBlockStep
<1>15. ASSUME NEW scoped \in BOOLEAN, EndThen(scoped)
       PROVE  IInv'
  BY <1>15, EndThenStep
<1>16. CASE EndIf
  BY <1>16, EndIfStep
<1>17. CASE EndLoop
  BY <1>17, EndLoopStep
<1>18. ASSUME NEW wild \in BOOLEAN, NEW last \in BOOLEAN, NEW scoped \in BOOLEAN,
              EndArm(wild, last, scoped)
       PROVE  IInv'
  BY <1>18, EndArmStep
<1>19. CASE EndMatch
  BY <1>19, EndMatchStep
<1>20. CASE EndFunction
  BY <1>20, EndFunctionStep
<1>21. CASE UNCHANGED vars
  BY <1>21 DEF vars, IInv, Typed, Discipline
<1> QED
  BY <1>1, <1>2, <1>3, <1>4, <1>5, <1>6, <1>7, <1>8, <1>9, <1>10, <1>11, <1>12,
     <1>13, <1>14, <1>15, <1>16, <1>17, <1>18, <1>19, <1>20, <1>21
     DEF Next, Finished

LEMMA Invariant == Spec => []IInv
BY InitIInv, NextIInv, PTL DEF Spec

\* IRGen's state stays well typed, whatever statements the function is made
\* of: the insert point is a block of the function, every label is one of
\* newLabel's, every register operand a register.
THEOREM TypeCorrect == Spec => []TypeOK
<1>1. IInv => TypeOK
  <2> SUFFICES ASSUME IInv PROVE TypeOK
    OBVIOUS
  <2>1. Wellformed(ir) /\ phase \in {"body", "done"}
    BY DEF IInv, Discipline, Ready, Shut
  <2>2. ir.cur \in DOMAIN ir.blocks
    BY <2>1, LastBlock
  <2> QED BY <2>1, <2>2 DEF IInv, Typed, TypeOK, Wellformed
<1> QED
  BY <1>1, Invariant, PTL

\* Every block has exactly one terminator, at its end, except the block at
\* the insert point, which stays open until visit(FunctionDecl) ends: what
\* lets each visitor emit without asking isTerminated().
THEOREM Disciplined == Spec => []TerminatorDiscipline
<1>1. IInv => TerminatorDiscipline
  BY DEF IInv, Discipline, Ready, Shut, Wellformed, TerminatorDiscipline
<1> QED
  BY <1>1, Invariant, PTL

(***************************************************************************)
(* The labels: every branch target is opened or waits in a suspended       *)
(* visitor, and no label is the label of two blocks.  Both are about the   *)
(* labels s of the blocks, the labels T that branches name, the counter n  *)
(* and the suspended visitors fs.                                          *)
(***************************************************************************)
Seen(s) == {s[k] : k \in DOMAIN s}
Branched(b) == UNION {BranchTargets(b.blocks[k]) : k \in DOMAIN b.blocks}
Claimed(fs) == UNION {Pending(fs[i]) : i \in DOMAIN fs}

\* The blocks a loop goes back to are opened when its visitor is suspended.
Opened(S, T, fs) ==
  /\ T \subseteq S \cup Claimed(fs)
  /\ \A i \in DOMAIN fs : fs[i].kind \in {"loop", "count"} => fs[i].join \in S

\* Labels issued when the counter is n, and labels that it issues from then
\* on: the entry block's label is not newLabel's.
Old(l, n) == l = Entry \/ (l[1] # "entry" /\ l[2] < n)
Later(l, n, m) == l[1] # "entry" /\ n <= l[2] /\ l[2] < m

Distinct(s, n, fs) ==
  /\ \A j, k \in DOMAIN s : s[j] = s[k] => j = k
  /\ \A l \in Seen(s) : Old(l, n)
  /\ \A i \in DOMAIN fs : \A l \in Pending(fs[i]) : Old(l, n) /\ l \notin Seen(s)
  /\ \A i, j \in DOMAIN fs : i # j => Pending(fs[i]) \cap Pending(fs[j]) = {}
  /\ \A i \in DOMAIN fs : fs[i].kind = "arm" => fs[i].next # fs[i].join

\* The invariant; the second part is about functions whose matches end in a
\* wildcard arm, which is what it takes (see LabelsUnique in IRGen's runs).
LInv ==
  /\ Opened(Seen(LabelsOf(ir)), Branched(ir), frames)
  /\ "partial" \notin Lang => Distinct(LabelsOf(ir), ir.labels, frames)

-----------------------------------------------------------------------------
(***************************************************************************)
(* Stacks of visitors.                                                     *)
(***************************************************************************)
LEMMA PushedFrame ==
  ASSUME NEW fs \in Seq(Frame), NEW f \in Frame
  PROVE  LET t == Append(fs, f)
         IN  /\ t \in Seq(Frame) /\ DOMAIN t = 1 .. Len(fs) + 1
             /\ Len(fs) \in Nat /\ DOMAIN fs = 1 .. Len(fs)
             /\ \A i \in 1 .. Len(fs) : t[i] = fs[i]
             /\ t[Len(fs) + 1] = f
             /\ Claimed(t) = Claimed(fs) \cup Pending(f)
<1> DEFINE t == Append(fs, f)
<1>1. /\ t \in Seq(Frame) /\ DOMAIN t = 1 .. Len(fs) + 1
      /\ Len(fs) \in Nat /\ DOMAIN fs = 1 .. Len(fs)
      /\ \A i \in 1 .. Len(fs) : t[i] = fs[i]
      /\ t[Len(fs) + 1] = f
  OBVIOUS
<1> HIDE DEF t
<1>2. ASSUME NEW l PROVE l \in Claimed(t) <=> l \in Claimed(fs) \cup Pending(f)
  <2>1. l \in Claimed(t) <=> \E i \in 1 .. Len(fs) + 1 : l \in Pending(t[i])
    BY <1>1 DEF Claimed
  <2>2. l \in Claimed(fs) <=> \E i \in 1 .. Len(fs) : l \in Pending(fs[i])
    BY <1>1 DEF Claimed
  <2>3. \A i \in 1 .. Len(fs) + 1 : i \in 1 .. Len(fs) \/ i = Len(fs) + 1
    BY <1>1
  <2>4. \A i \in 1 .. Len(fs) : i \in 1 .. Len(fs) + 1
    BY <1>1
  <2>5. Len(fs) + 1 \in 1 .. Len(fs) + 1
    BY <1>1
  <2> QED BY <1>1, <2>1, <2>2, <2>3, <2>4, <2>5
<1> QED BY <1>1, <1>2 DEF t

LEMMA PoppedFrame ==
  ASSUME NEW fs \in Seq(Frame), fs # <<>>
  PROVE  LET t == SubSeq(fs, 1, Len(fs) - 1)
         IN  /\ t \in Seq(Frame) /\ Len(fs) \in DOMAIN fs
             /\ DOMAIN t \subseteq DOMAIN fs /\ Len(fs) \notin DOMAIN t
             /\ \A i \in DOMAIN t : t[i] = fs[i]
             /\ Claimed(fs) = Claimed(t) \cup Pending(fs[Len(fs)])
<1> DEFINE t == SubSeq(fs, 1, Len(fs) - 1)
           n == Len(fs)
<1>1. /\ t \in Seq(Frame) /\ n \in Nat \ {0} /\ DOMAIN fs = 1 .. n
      /\ DOMAIN t = 1 .. n - 1 /\ \A i \in 1 .. n - 1 : t[i] = fs[i]
  OBVIOUS
<1> HIDE DEF t, n
<1>2. /\ n \in 1 .. n /\ n \notin 1 .. n - 1 /\ 1 .. n - 1 \subseteq 1 .. n
      /\ \A i \in 1 .. n : i \in 1 .. n - 1 \/ i = n
  BY <1>1
<1>3. Claimed(fs) = Claimed(t) \cup Pending(fs[n])
  BY <1>1, <1>2 DEF Claimed
<1> QED BY <1>1, <1>2, <1>3 DEF t, n

\* Labels that are opened one after the other.
LEMMA SeenAppend ==
  ASSUME NEW s \in Seq(Label), NEW l \in Label
  PROVE  LET t == Append(s, l)
         IN  /\ t \in Seq(Label) /\ Seen(t) = Seen(s) \cup {l}
             /\ (\A j, k \in DOMAIN s : s[j] = s[k] => j = k) /\ l \notin Seen(s)
                  => \A j, k \in DOMAIN t : t[j] = t[k] => j = k
<1> DEFINE t == Append(s, l)
           n == Len(s)
<1>1. /\ t \in Seq(Label) /\ DOMAIN t = 1 .. n + 1 /\ n \in Nat /\ DOMAIN s = 1 .. n
      /\ \A i \in 1 .. n : t[i] = s[i]
      /\ t[n + 1] = l
  OBVIOUS
<1> HIDE DEF t, n
<1>2. /\ \A i \in 1 .. n + 1 : i \in 1 .. n \/ i = n + 1
      /\ \A i \in 1 .. n : i \in 1 .. n + 1
      /\ n + 1 \in 1 .. n + 1
  BY <1>1
<1>3. Seen(t) = Seen(s) \cup {l}
  BY <1>1, <1>2 DEF Seen
<1>4. ASSUME \A j, k \in DOMAIN s : s[j] = s[k] => j = k, l \notin Seen(s),
             NEW j \in DOMAIN t, NEW k \in DOMAIN t, t[j] = t[k]
      PROVE  j = k
  BY <1>1, <1>2, <1>4 DEF Seen
<1> QED BY <1>1, <1>3, <1>4 DEF t

(***************************************************************************)
(* Branched: a visitor is suspended, goes on, or ends.                      *)
(***************************************************************************)
LEMMA OpenedStay ==
  ASSUME NEW S, NEW T, NEW fs, Opened(S, T, fs),
         NEW S2, S \subseteq S2, NEW T2, T2 \subseteq T \cup S2
  PROVE  Opened(S2, T2, fs)
BY DEF Opened

LEMMA OpenedPush ==
  ASSUME NEW S, NEW T, NEW fs \in Seq(Frame), Opened(S, T, fs), NEW f \in Frame,
         NEW S2, S \subseteq S2, NEW T2, T2 \subseteq T \cup S2 \cup Pending(f),
         f.kind \in {"loop", "count"} => f.join \in S2
  PROVE  Opened(S2, T2, Append(fs, f))
<1> DEFINE t == Append(fs, f)
<1>1. /\ DOMAIN t = 1 .. Len(fs) + 1 /\ Len(fs) \in Nat /\ DOMAIN fs = 1 .. Len(fs)
      /\ \A i \in 1 .. Len(fs) : t[i] = fs[i]
      /\ t[Len(fs) + 1] = f /\ Claimed(t) = Claimed(fs) \cup Pending(f)
  BY PushedFrame
<1> HIDE DEF t
<1>2. T2 \subseteq S2 \cup Claimed(t)
  BY <1>1 DEF Opened
<1>3. ASSUME NEW i \in DOMAIN t, t[i].kind \in {"loop", "count"}
      PROVE  t[i].join \in S2
  <2>1. i \in DOMAIN fs \/ i = Len(fs) + 1
    BY <1>1
  <2> QED BY <1>1, <1>3, <2>1 DEF Opened
<1> QED BY <1>2, <1>3 DEF Opened, t

LEMMA OpenedPop ==
  ASSUME NEW S, NEW T, NEW fs \in Seq(Frame), fs # <<>>, Opened(S, T, fs),
         NEW S2, S \subseteq S2,
         NEW T2, T2 \subseteq T \cup S2 \cup Pending(fs[Len(fs)])
  PROVE  LET t == SubSeq(fs, 1, Len(fs) - 1)
         IN  /\ T2 \subseteq S2 \cup Claimed(t) \cup Pending(fs[Len(fs)])
             /\ \A i \in DOMAIN t : t[i].kind \in {"loop", "count"} => t[i].join \in S2
             /\ Pending(fs[Len(fs)]) \subseteq S2 => Opened(S2, T2, t)
<1> DEFINE t == SubSeq(fs, 1, Len(fs) - 1)
<1>1. /\ DOMAIN t \subseteq DOMAIN fs /\ \A i \in DOMAIN t : t[i] = fs[i]
      /\ Claimed(fs) = Claimed(t) \cup Pending(fs[Len(fs)])
  BY PoppedFrame
<1> HIDE DEF t
<1>2. T2 \subseteq S2 \cup Claimed(t) \cup Pending(fs[Len(fs)])
  BY <1>1 DEF Opened
<1>3. \A i \in DOMAIN t : t[i].kind \in {"loop", "count"} => t[i].join \in S2
  BY <1>1 DEF Opened
<1> QED BY <1>2, <1>3 DEF Opened, t

\* The visitor goes on with another body: f for the frame at the top.
LEMMA OpenedReplace ==
  ASSUME NEW S, NEW T, NEW fs \in Seq(Frame), fs # <<>>, Opened(S, T, fs),
         NEW f \in Frame, f.kind \notin {"loop", "count"},
         NEW S2, S \subseteq S2, Pending(fs[Len(fs)]) \subseteq S2 \cup Pending(f),
         NEW T2, T2 \subseteq T \cup S2 \cup Pending(f)
  PROVE  Opened(S2, T2, Append(SubSeq(fs, 1, Len(fs) - 1), f))
<1> DEFINE t == SubSeq(fs, 1, Len(fs) - 1)
           T1 == T2 \ Pending(f)
<1>1. T1 \subseteq T \cup S2 \cup Pending(fs[Len(fs)])
  OBVIOUS
<1>2. t \in Seq(Frame)
  BY PoppedFrame
<1>3. /\ T1 \subseteq S2 \cup Claimed(t) \cup Pending(fs[Len(fs)])
      /\ \A i \in DOMAIN t : t[i].kind \in {"loop", "count"} => t[i].join \in S2
  BY <1>1, OpenedPop
<1> HIDE DEF t
<1>4. Opened(S2, T1 \ Pending(f), t)
  BY <1>3 DEF Opened
<1>5. T2 \subseteq (T1 \ Pending(f)) \cup S2 \cup Pending(f)
  OBVIOUS
<1> HIDE DEF T1
<1>6. Opened(S2, T2, Append(t, f))
  BY <1>2, <1>4, <1>5, OpenedPush
<1> QED BY <1>6 DEF t

(***************************************************************************)
(* Labels: the counter moves on, a free label is opened, a visitor is      *)
(* suspended with free labels or ends.                                     *)
(***************************************************************************)
Free(l, s, fs) == l \notin Seen(s) /\ l \notin Claimed(fs)

LEMMA LaterFree ==
  ASSUME NEW s, NEW n \in Nat, NEW m \in Nat, NEW fs, Distinct(s, n, fs),
         NEW l \in Label, Later(l, n, m)
  PROVE  Free(l, s, fs) /\ Old(l, m) /\ ~Old(l, n)
<1>1. l[2] \in Nat /\ l[1] # "entry"
  BY DEF Label, Later
<1>2. ~Old(l, n)
  <2>1. l # Entry
    BY <1>1 DEF Entry
  <2>2. ~(l[2] < n)
    BY <1>1 DEF Later
  <2> QED BY <2>1, <2>2 DEF Old
<1>3. Free(l, s, fs)
  BY <1>2 DEF Distinct, Free, Claimed
<1> QED BY <1>2, <1>3 DEF Later, Old

LEMMA DistinctWiden ==
  ASSUME NEW s \in Seq(Label), NEW n \in Nat, NEW m \in Nat, n <= m, NEW fs \in Seq(Frame),
         \A i \in DOMAIN fs : Pending(fs[i]) \subseteq Label,
         Distinct(s, n, fs)
  PROVE  Distinct(s, m, fs)
<1>1. ASSUME NEW l \in Label, Old(l, n) PROVE Old(l, m)
  <2>1. l[2] \in Nat
    BY DEF Label
  <2>2. l[2] < n => l[2] < m
    BY <2>1
  <2> QED BY <1>1, <2>2 DEF Old
<1>2. Seen(s) \subseteq Label
  BY DEF Seen
<1> QED BY <1>1, <1>2 DEF Distinct

LEMMA DistinctOpen ==
  ASSUME NEW s \in Seq(Label), NEW n, NEW fs, Distinct(s, n, fs),
         NEW l \in Label, Old(l, n), Free(l, s, fs)
  PROVE  Distinct(Append(s, l), n, fs)
<1> DEFINE t == Append(s, l)
<1>1. Seen(t) = Seen(s) \cup {l} /\ \A j, k \in DOMAIN t : t[j] = t[k] => j = k
  BY SeenAppend DEF Distinct, Free
<1> HIDE DEF t
<1>2. \A i \in DOMAIN fs : l \notin Pending(fs[i])
  BY DEF Free, Claimed
<1>3. Distinct(t, n, fs)
  BY <1>1, <1>2 DEF Distinct
<1> QED BY <1>3 DEF t

LEMMA DistinctPush ==
  ASSUME NEW s, NEW n, NEW fs \in Seq(Frame), Distinct(s, n, fs), NEW f \in Frame,
         \A l \in Pending(f) : Old(l, n) /\ Free(l, s, fs),
         f.kind = "arm" => f.next # f.join
  PROVE  Distinct(s, n, Append(fs, f))
<1> DEFINE t == Append(fs, f)
           m == Len(fs)
<1>1. /\ DOMAIN t = 1 .. m + 1 /\ DOMAIN fs = 1 .. m /\ m \in Nat
      /\ \A i \in 1 .. m : t[i] = fs[i]
      /\ t[m + 1] = f
  BY PushedFrame
<1> HIDE DEF t, m
<1>2. \A i \in DOMAIN t : (i \in DOMAIN fs /\ t[i] = fs[i]) \/ (i = m + 1 /\ t[i] = f)
  BY <1>1
<1>3. \A i \in DOMAIN fs : Pending(fs[i]) \cap Pending(f) = {}
  BY DEF Free, Claimed
<1>4. \A i \in DOMAIN t : \A l \in Pending(t[i]) : Old(l, n) /\ l \notin Seen(s)
  BY <1>2 DEF Distinct, Free
<1>5. \A i, j \in DOMAIN t : i # j => Pending(t[i]) \cap Pending(t[j]) = {}
  BY <1>2, <1>3 DEF Distinct
<1>6. \A i \in DOMAIN t : t[i].kind = "arm" => t[i].next # t[i].join
  BY <1>2 DEF Distinct
<1>7. Distinct(s, n, t)
  BY <1>4, <1>5, <1>6 DEF Distinct
<1> QED BY <1>7 DEF t

LEMMA DistinctPop ==
  ASSUME NEW s, NEW n, NEW fs \in Seq(Frame), fs # <<>>, Distinct(s, n, fs)
  PROVE  LET t == SubSeq(fs, 1, Len(fs) - 1)
         IN  /\ t \in Seq(Frame) /\ Distinct(s, n, t)
             /\ \A l \in Pending(fs[Len(fs)]) : Old(l, n) /\ Free(l, s, t)
             /\ fs[Len(fs)].kind = "arm" => fs[Len(fs)].next # fs[Len(fs)].join
<1> DEFINE t == SubSeq(fs, 1, Len(fs) - 1)
           m == Len(fs)
<1>1. /\ t \in Seq(Frame) /\ m \in DOMAIN fs /\ m \notin DOMAIN t
      /\ DOMAIN t \subseteq DOMAIN fs /\ \A i \in DOMAIN t : t[i] = fs[i]
  BY PoppedFrame
<1> HIDE DEF t, m
<1>2. Distinct(s, n, t)
  BY <1>1 DEF Distinct
<1>3. ASSUME NEW l \in Pending(fs[m]) PROVE Old(l, n) /\ Free(l, s, t)
  <2>1. Old(l, n) /\ l \notin Seen(s)
    BY <1>1 DEF Distinct
  <2>2. \A i \in DOMAIN t : l \notin Pending(t[i])
    <3>1. \A i \in DOMAIN t : i # m /\ i \in DOMAIN fs /\ t[i] = fs[i]
      BY <1>1
    <3>2. \A i \in DOMAIN t : Pending(fs[i]) \cap Pending(fs[m]) = {}
      BY <1>1, <3>1 DEF Distinct
    <3> QED BY <3>1, <3>2
  <2> QED BY <2>1, <2>2 DEF Free, Claimed
<1>4. fs[m].kind = "arm" => fs[m].next # fs[m].join
  BY <1>1 DEF Distinct
<1> QED BY <1>1, <1>2, <1>3, <1>4 DEF t, m

-----------------------------------------------------------------------------
(***************************************************************************)
(* What the builder's operations do to the labels that branches name:      *)
(* Grows(b, c, T) when c has the blocks of b, and the branches of b and to *)
(* the labels T.                                                           *)
(***************************************************************************)
Grows(b, c, T) == SameLabels(b, c) /\ Branched(c) = Branched(b) \cup T
Elements(seq) == {seq[t] : t \in DOMAIN seq}

LEMMA GrowsTwice ==
  ASSUME NEW b, NEW c, NEW d, NEW T, NEW U, Grows(b, c, T), Grows(c, d, U)
  PROVE  Grows(b, d, T \cup U)
BY DEF Grows, SameLabels

LEMMA EmitGrows ==
  ASSUME NEW b, Wellformed(b), NEW instr \in Instr
  PROVE  Grows(b, Emit(b, instr), Elements(instr.to))
<1> DEFINE n == Len(b.blocks)
           e == Emit(b, instr)
           code == b.blocks[n].instrs
<1>1. /\ n \in Nat \ {0} /\ b.blocks \in Seq(Block) /\ e.blocks \in Seq(Block)
      /\ code \in Seq(Instr) /\ Len(e.blocks) = n
      /\ \A k \in 1 .. n - 1 : e.blocks[k] = b.blocks[k]
      /\ e.blocks[n].instrs = Append(code, instr)
  BY LastBlock, EmitShape DEF Builder
<1>2. SameLabels(b, e)
  BY EmitLabels
<1> HIDE DEF e
<1>3. BranchTargets(e.blocks[n]) = BranchTargets(b.blocks[n]) \cup Elements(instr.to)
  <2> DEFINE new == Append(code, instr)
  <2>1. /\ DOMAIN new = 1 .. Len(code) + 1 /\ DOMAIN code = 1 .. Len(code)
        /\ Len(code) \in Nat /\ \A i \in 1 .. Len(code) : new[i] = code[i]
        /\ new[Len(code) + 1] = instr
    BY <1>1
  <2> HIDE DEF new, code
  <2>2. \A i \in DOMAIN new : (i \in DOMAIN code /\ new[i] = code[i]) \/ new[i] = instr
    BY <2>1
  <2>3. \A i \in DOMAIN code : i \in DOMAIN new /\ new[i] = code[i]
    BY <2>1
  <2>4. Len(code) + 1 \in DOMAIN new
    BY <2>1
  <2>5. UNION {Elements(new[i].to) : i \in DOMAIN new}
          = (UNION {Elements(code[i].to) : i \in DOMAIN code}) \cup Elements(instr.to)
    BY <2>1, <2>2, <2>3, <2>4
  <2>6. \A blk : BranchTargets(blk) = UNION {Elements(blk.instrs[i].to) : i \in DOMAIN blk.instrs}
    BY Zenon DEF BranchTargets, Elements
  <2>7. e.blocks[n].instrs = new /\ b.blocks[n].instrs = code
    BY <1>1 DEF new, code
  <2> QED BY <2>5, <2>6, <2>7, Zenon
<1> HIDE DEF code
<1>4. DOMAIN e.blocks = 1 .. n /\ DOMAIN b.blocks = 1 .. n
  BY <1>1
<1>5. \A k \in 1 .. n : k \in 1 .. n - 1 \/ k = n
  BY <1>1
<1>6. n \in 1 .. n
  BY <1>1
<1> HIDE DEF n
<1>7. Branched(e) = Branched(b) \cup Elements(instr.to)
  BY <1>1, <1>3, <1>4, <1>5, <1>6 DEF Branched
<1> QED BY <1>2, <1>7 DEF Grows, e

LEMMA ValueGrows ==
  ASSUME NEW b, Ready(b), NEW op \in Ops, op \notin Terminators, NEW args \in Seq(Nat)
  PROVE  /\ Ready(Value(b, op, args)) /\ Value(b, op, args).val \in Nat
         /\ Grows(b, Value(b, op, args), {})
<1> DEFINE r == b.regs + 1
           instr == [op |-> op, dest |-> r, args |-> args, to |-> <<>>]
           e == Emit(b, instr)
<1>1. r \in Nat /\ Wellformed(b)
  BY ReadyWellformed
<1>2. instr \in Instr /\ instr.to = <<>>
  BY <1>1 DEF Instr
<1>3. Elements(instr.to) = {}
  BY <1>2 DEF Elements
<1> HIDE DEF instr
<1>4. Grows(b, e, {})
  BY <1>1, <1>2, <1>3, EmitGrows
<1>5. e \in Builder
  BY <1>1, <1>2, EmitShape
<1>6. Value(b, op, args) = [e EXCEPT !.regs = r, !.val = r]
  BY DEF Value, instr
<1> HIDE DEF e, r
<1>7. Value(b, op, args).blocks = e.blocks
  BY <1>5, <1>6 DEF Builder
<1>8. Branched(Value(b, op, args)) = Branched(b)
  BY <1>4, <1>7 DEF Branched, Grows
<1> QED BY <1>8, ValueReady DEF Grows

LEMMA EffectGrows ==
  ASSUME NEW b, Ready(b), NEW op \in Ops, NEW args \in Seq(Nat), NEW to \in Seq(Label)
  PROVE  Grows(b, Effect(b, op, args, to), Elements(to))
<1> DEFINE instr == [op |-> op, dest |-> NoReg, args |-> args, to |-> to]
<1>1. instr \in Instr /\ instr.to = to
  BY EffectInstr
<1>2. Wellformed(b) /\ Effect(b, op, args, to) = Emit(b, instr)
  BY DEF Effect, Ready
<1> HIDE DEF instr
<1> QED BY <1>1, <1>2, EmitGrows

LEMMA AllocaGrows ==
  ASSUME NEW b, Ready(b)
  PROVE  Ready(buildAlloca(b)) /\ buildAlloca(b).val \in Nat /\ Grows(b, buildAlloca(b), {})
<1>1. "alloca" \in Ops /\ "alloca" \notin Terminators /\ <<>> \in Seq(Nat)
  BY DEF Terminators, Ops
<1> QED BY <1>1, ValueGrows DEF buildAlloca

LEMMA StoreGrows ==
  ASSUME NEW b, Ready(b), NEW v \in Nat, NEW slot \in Nat
  PROVE  Ready(buildStore(b, v, slot)) /\ Grows(b, buildStore(b, v, slot), {})
<1>1. "store" \in Ops /\ <<v, slot>> \in Seq(Nat) /\ <<>> \in Seq(Label)
  BY DEF Terminators, Ops
<1>2. Elements(<<>>) = {}
  BY DEF Elements
<1> QED BY <1>1, <1>2, EffectGrows, BuildStore DEF buildStore

LEMMA RetGrows ==
  ASSUME NEW b, Ready(b), NEW args \in Seq(Nat)
  PROVE  Shut(buildRet(b, args)) /\ Grows(b, buildRet(b, args), {})
<1>1. "ret" \in Ops /\ <<>> \in Seq(Label)
  BY DEF Terminators, Ops
<1>2. Elements(<<>>) = {}
  BY DEF Elements
<1> QED BY <1>1, <1>2, EffectGrows, BuildRet DEF buildRet

LEMMA BranchGrows ==
  ASSUME NEW b, Ready(b), NEW l \in Label
  PROVE  Shut(buildBranch(b, l)) /\ Grows(b, buildBranch(b, l), {l})
<1>1. "br" \in Ops /\ <<>> \in Seq(Nat) /\ <<l>> \in Seq(Label)
  BY DEF Terminators, Ops
<1>2. Elements(<<l>>) = {l}
  BY DEF Elements
<1> QED BY <1>1, <1>2, EffectGrows, BuildBranch DEF buildBranch

LEMMA CondBranchGrows ==
  ASSUME NEW b, Ready(b), NEW cond \in Nat, NEW yes \in Label, NEW no \in Label
  PROVE  /\ Shut(buildCondBranch(b, cond, yes, no))
         /\ Grows(b, buildCondBranch(b, cond, yes, no), {yes, no})
<1>1. "condbr" \in Ops /\ <<cond>> \in Seq(Nat) /\ <<yes, no>> \in Seq(Label)
  BY DEF Terminators, Ops
<1>2. Elements(<<yes, no>>) = {yes, no}
  BY DEF Elements
<1> QED BY <1>1, <1>2, EffectGrows, BuildCondBranch DEF buildCondBranch

LEMMA BranchIfOpenGrows ==
  ASSUME NEW b, Ready(b), NEW l \in Label
  PROVE  Shut(BranchIfOpen(b, l)) /\ Grows(b, BranchIfOpen(b, l), {l})
BY ReadyNotTerminated, BranchGrows DEF BranchIfOpen

LEMMA EvalGrows ==
  ASSUME NEW b, Ready(b), NEW slots \in [Names -> Nat], NEW e \in Exprs
  PROVE  /\ Ready(Eval(b, slots, e)) /\ Eval(b, slots, e).val \in Nat
         /\ Grows(b, Eval(b, slots, e), {})
<1>1. /\ {"eval", "named", "load"} \subseteq Ops
      /\ {"eval", "named", "load"} \cap Terminators = {}
      /\ <<>> \in Seq(Nat)
  BY DEF Terminators, Ops
<1>2. e # Lit => slots[e] \in Nat /\ <<slots[e]>> \in Seq(Nat)
  BY DEF Exprs
<1> QED BY <1>1, <1>2, ValueGrows DEF Eval

\* A block is opened behind a branch, and labels are issued.
LEMMA OpenGrows ==
  ASSUME NEW b, Shut(b), NEW l \in Label
  PROVE  LET c == OpenBlock(b, l)
         IN  /\ Ready(c) /\ c.labels = b.labels /\ c.val = b.val
             /\ LabelsOf(c) = Append(LabelsOf(b), l) /\ Branched(c) = Branched(b)
<1> DEFINE n == Len(b.blocks)
           new == [label |-> l, instrs |-> <<>>]
           c == OpenBlock(b, l)
<1>1. b \in Builder /\ b.blocks \in Seq(Block) /\ n \in Nat \ {0}
  BY LastBlock DEF Shut
<1>2. c.blocks = Append(b.blocks, new)
  BY <1>1 DEF OpenBlock, Builder
<1>3. BranchTargets(new) = {}
  BY DEF BranchTargets
<1> HIDE DEF new, c
<1>4. /\ DOMAIN c.blocks = 1 .. n + 1 /\ DOMAIN b.blocks = 1 .. n
      /\ \A k \in 1 .. n : c.blocks[k] = b.blocks[k]
      /\ c.blocks[n + 1] = new
  BY <1>1, <1>2
<1>5. /\ \A k \in 1 .. n + 1 : k \in 1 .. n \/ k = n + 1
      /\ \A k \in 1 .. n : k \in 1 .. n + 1
  BY <1>1
<1>6. Branched(c) = Branched(b)
  <2>1. Branched(c) = UNION {BranchTargets(c.blocks[k]) : k \in 1 .. n + 1}
    BY <1>4 DEF Branched
  <2>2. Branched(b) = UNION {BranchTargets(b.blocks[k]) : k \in 1 .. n}
    BY <1>4 DEF Branched
  <2> QED BY <1>3, <1>4, <1>5, <2>1, <2>2
<1> QED BY <1>6, OpenBlockReady, OpenBlockLabels DEF c

LEMMA IssuedGrows ==
  ASSUME NEW b, Ready(b), NEW n \in Nat
  PROVE  /\ Ready(Issued(b, n)) /\ Issued(b, n).labels = b.labels + n
         /\ LabelsOf(Issued(b, n)) = LabelsOf(b) /\ Branched(Issued(b, n)) = Branched(b)
<1>1. b \in Builder
  BY DEF Ready, Wellformed
<1>2. Issued(b, n).blocks = b.blocks
  BY <1>1 DEF Issued, Builder
<1> QED BY <1>2, IssuedReady DEF Branched

-----------------------------------------------------------------------------
(***************************************************************************)
(* The invariant over what a step does to the labels of the blocks, the    *)
(* branches, the counter and the suspended visitors.                       *)
(***************************************************************************)
LEMMA PendingOf ==
  ASSUME NEW f \in Frame
  PROVE  /\ Pending(f) \subseteq Label
         /\ f.kind = "block" => Pending(f) = {}
         /\ f.kind \in {"loop", "count"} => Pending(f) = {f.next}
         /\ f.kind = "wild" => Pending(f) = {f.join}
         /\ f.kind \in {"if", "arm"} => Pending(f) = {f.next, f.join}
<1>1. f.kind \in Kinds /\ f.next \in Label /\ f.join \in Label
  BY DEF Frame
<1> QED BY <1>1 DEF Kinds, Pending

LEMMA Before ==
  ASSUME IInv
  PROVE  /\ LabelsOf(ir) \in Seq(Label) /\ ir.labels \in Nat
         /\ frames \in Seq(Frame)
         /\ \A i \in DOMAIN frames : Pending(frames[i]) \subseteq Label
         /\ phase = "body" => Ready(ir)
<1>1. Wellformed(ir) /\ frames \in Seq(Frame) /\ (phase = "body" => Ready(ir))
  BY DEF IInv, Typed, Discipline, Ready, Shut
<1>2. ir.blocks \in Seq(Block) /\ ir.labels \in Nat
  BY <1>1 DEF Wellformed, Builder
<1>3. LabelsOf(ir) \in Seq(Label)
  <2>1. \A k \in 1 .. Len(ir.blocks) : ir.blocks[k].label \in Label
    <3>1. \A k \in 1 .. Len(ir.blocks) : ir.blocks[k] \in Block
      BY <1>2
    <3> QED BY <3>1 DEF Block
  <2>2. Len(ir.blocks) \in Nat
    BY <1>2
  <2> QED BY <2>1, <2>2 DEF LabelsOf
<1>4. \A i \in DOMAIN frames : Pending(frames[i]) \subseteq Label
  BY <1>1, PendingOf
<1> QED BY <1>1, <1>2, <1>3, <1>4

\* Nothing is opened, and no visitor is suspended or ends.
LEMMA StayStep ==
  ASSUME IInv, LInv, frames' = frames, Grows(ir, ir', {})
  PROVE  LInv'
<1>1. LabelsOf(ir') = LabelsOf(ir) /\ ir'.labels = ir.labels /\ Branched(ir') = Branched(ir)
  BY DEF Grows, SameLabels
<1> QED BY <1>1 DEF LInv

\* What the counter issues can be opened, or wait.
LEMMA Issuing ==
  ASSUME IInv, LInv, "partial" \notin Lang, NEW m \in Nat, ir.labels <= m
  PROVE  /\ Distinct(LabelsOf(ir), m, frames)
         /\ \A l \in Label : Later(l, ir.labels, m)
              => Old(l, m) /\ Free(l, LabelsOf(ir), frames)
<1>1. /\ LabelsOf(ir) \in Seq(Label) /\ ir.labels \in Nat /\ frames \in Seq(Frame)
      /\ \A i \in DOMAIN frames : Pending(frames[i]) \subseteq Label
      /\ Distinct(LabelsOf(ir), ir.labels, frames)
  BY Before DEF LInv
<1>2. Distinct(LabelsOf(ir), m, frames)
  BY <1>1, DistinctWiden
<1> QED BY <1>1, <1>2, LaterFree

\* A label of its own is opened, and no visitor is suspended.
LEMMA OpenStep ==
  ASSUME IInv, LInv, frames' = frames,
         NEW l \in Label, LabelsOf(ir') = Append(LabelsOf(ir), l),
         ir'.labels \in Nat, ir.labels <= ir'.labels, Later(l, ir.labels, ir'.labels),
         Branched(ir') \subseteq Branched(ir) \cup {l}
  PROVE  LInv'
<1> DEFINE s == LabelsOf(ir)
           t == Append(s, l)
<1>1. s \in Seq(Label) /\ frames \in Seq(Frame)
  BY Before
<1>2. Seen(t) = Seen(s) \cup {l}
  BY <1>1, SeenAppend
<1>3. LabelsOf(ir') = t
  OBVIOUS
<1>4. ASSUME "partial" \notin Lang PROVE Distinct(t, ir'.labels, frames)
  BY <1>1, <1>4, Issuing, DistinctOpen
<1> HIDE DEF t, s
<1>5. Opened(Seen(t), Branched(ir'), frames)
  <2>1. Opened(Seen(s), Branched(ir), frames)
    BY DEF LInv, s
  <2>2. Seen(s) \subseteq Seen(t) /\ Branched(ir') \subseteq Branched(ir) \cup Seen(t)
    BY <1>2
  <2> QED BY <2>1, <2>2, OpenedStay
<1> QED BY <1>3, <1>4, <1>5 DEF LInv

\* A body is opened, and the visitor suspended with labels that no one knows.
LEMMA PushStep ==
  ASSUME IInv, LInv, NEW f \in Frame, frames' = Append(frames, f),
         f.kind \notin {"loop", "count"},
         NEW l \in Label, LabelsOf(ir') = Append(LabelsOf(ir), l),
         ir'.labels \in Nat, ir.labels <= ir'.labels, Later(l, ir.labels, ir'.labels),
         \A p \in Pending(f) : Later(p, ir.labels, ir'.labels) /\ p # l,
         "partial" \notin Lang /\ f.kind = "arm" => f.next # f.join,
         Branched(ir') \subseteq Branched(ir) \cup {l} \cup Pending(f)
  PROVE  LInv'
<1> DEFINE s == LabelsOf(ir)
           t == Append(s, l)
           m == ir'.labels
<1>1. s \in Seq(Label) /\ frames \in Seq(Frame) /\ Pending(f) \subseteq Label
  BY Before, PendingOf
<1>2. Seen(t) = Seen(s) \cup {l}
  BY <1>1, SeenAppend
<1>3. LabelsOf(ir') = t
  OBVIOUS
<1>4. ASSUME "partial" \notin Lang PROVE Distinct(t, m, Append(frames, f))
  <2>1. /\ Distinct(s, m, frames) /\ Old(l, m) /\ Free(l, s, frames)
        /\ \A p \in Pending(f) : Old(p, m) /\ Free(p, s, frames)
    BY <1>1, <1>4, Issuing
  <2>2. Distinct(t, m, frames)
    BY <1>1, <2>1, DistinctOpen
  <2>3. \A p \in Pending(f) : Old(p, m) /\ Free(p, t, frames)
    BY <1>2, <2>1 DEF Free
  <2> HIDE DEF t, m
  <2> QED BY <1>1, <1>4, <2>2, <2>3, DistinctPush
<1> HIDE DEF t, s, m
<1>5. Opened(Seen(t), Branched(ir'), Append(frames, f))
  <2>1. Opened(Seen(s), Branched(ir), frames)
    BY DEF LInv, s
  <2>2. /\ Seen(s) \subseteq Seen(t)
        /\ Branched(ir') \subseteq Branched(ir) \cup Seen(t) \cup Pending(f)
    BY <1>2
  <2> QED BY <1>1, <2>1, <2>2, OpenedPush
<1> QED BY <1>3, <1>4, <1>5 DEF LInv, m

\* Of a loop, the condition is opened before the body.
LEMMA PushLoopStep ==
  ASSUME IInv, LInv, NEW f \in Frame, frames' = Append(frames, f),
         f.kind \in {"loop", "count"},
         NEW body \in Label, LabelsOf(ir') = Append(Append(LabelsOf(ir), f.join), body),
         ir'.labels \in Nat, ir.labels <= ir'.labels,
         \A p \in {f.join, body, f.next} : Later(p, ir.labels, ir'.labels),
         f.join # body, f.join # f.next, body # f.next,
         Branched(ir') \subseteq Branched(ir) \cup {f.join, body, f.next}
  PROVE  LInv'
<1> DEFINE s == LabelsOf(ir)
           u == Append(s, f.join)
           t == Append(u, body)
           m == ir'.labels
<1>1. /\ s \in Seq(Label) /\ frames \in Seq(Frame) /\ Pending(f) = {f.next}
      /\ f.join \in Label /\ f.next \in Label
  BY Before, PendingOf DEF Frame
<1>2. /\ u \in Seq(Label) /\ Seen(u) = Seen(s) \cup {f.join}
  BY <1>1, SeenAppend
<1>3. Seen(t) = Seen(u) \cup {body}
  <2> HIDE DEF u
  <2> QED BY <1>2, SeenAppend
<1>4. LabelsOf(ir') = t
  OBVIOUS
<1>5. ASSUME "partial" \notin Lang PROVE Distinct(t, m, Append(frames, f))
  <2>1. /\ Distinct(s, m, frames)
        /\ \A p \in {f.join, body, f.next} : Old(p, m) /\ Free(p, s, frames)
    BY <1>1, <1>5, Issuing
  <2>2. Distinct(u, m, frames)
    BY <1>1, <2>1, DistinctOpen
  <2>3. \A p \in {body, f.next} : Old(p, m) /\ Free(p, u, frames)
    BY <1>2, <2>1 DEF Free
  <2> HIDE DEF u
  <2>4. Distinct(t, m, frames)
    BY <1>2, <2>2, <2>3, DistinctOpen
  <2>5. \A p \in Pending(f) : Old(p, m) /\ Free(p, t, frames)
    BY <1>1, <1>3, <2>3 DEF Free
  <2> HIDE DEF t, m
  <2> QED BY <1>1, <2>4, <2>5, DistinctPush
<1> HIDE DEF t, u, s, m
<1>6. Opened(Seen(t), Branched(ir'), Append(frames, f))
  <2>1. Opened(Seen(s), Branched(ir), frames)
    BY DEF LInv, s
  <2>2. /\ Seen(s) \subseteq Seen(t) /\ f.join \in Seen(t)
        /\ Branched(ir') \subseteq Branched(ir) \cup Seen(t) \cup Pending(f)
    BY <1>1, <1>2, <1>3
  <2> QED BY <1>1, <2>1, <2>2, OpenedPush
<1> QED BY <1>4, <1>5, <1>6 DEF LInv, m

\* The visitor at the top ends: nothing is left to be opened.
LEMMA PopStep ==
  ASSUME IInv, LInv, frames # <<>>, frames' = Pop, Pending(Top) = {}, ir' = ir
  PROVE  LInv'
<1>1. frames \in Seq(Frame) /\ Opened(Seen(LabelsOf(ir)), Branched(ir), frames)
  BY Before DEF LInv
<1>2. Opened(Seen(LabelsOf(ir)), Branched(ir), Pop)
  BY <1>1, OpenedPop DEF Pop, Top
<1>3. ASSUME "partial" \notin Lang PROVE Distinct(LabelsOf(ir), ir.labels, Pop)
  BY <1>1, <1>3, DistinctPop DEF LInv, Pop
<1> QED BY <1>2, <1>3 DEF LInv

\* The visitor at the top ends with the block it still has to open.
LEMMA PopOpenStep ==
  ASSUME IInv, LInv, frames # <<>>, frames' = Pop,
         NEW l \in Label, Pending(Top) = {l},
         LabelsOf(ir') = Append(LabelsOf(ir), l), ir'.labels = ir.labels,
         Branched(ir') \subseteq Branched(ir) \cup Seen(LabelsOf(ir)) \cup {l}
  PROVE  LInv'
<1> DEFINE s == LabelsOf(ir)
           t == Append(s, l)
<1>1. s \in Seq(Label) /\ frames \in Seq(Frame)
  BY Before
<1>2. Seen(t) = Seen(s) \cup {l}
  BY <1>1, SeenAppend
<1>3. LabelsOf(ir') = t
  OBVIOUS
<1>4. ASSUME "partial" \notin Lang PROVE Distinct(t, ir.labels, Pop)
  <2>1. Distinct(s, ir.labels, Pop) /\ Old(l, ir.labels) /\ Free(l, s, Pop)
    BY <1>1, <1>4, DistinctPop DEF LInv, Pop, Top
  <2> QED BY <1>1, <2>1, DistinctOpen
<1> HIDE DEF t, s
<1>5. Opened(Seen(t), Branched(ir'), Pop)
  <2>1. Opened(Seen(s), Branched(ir), frames)
    BY DEF LInv, s
  <2>2. /\ Seen(s) \subseteq Seen(t) /\ Pending(frames[Len(frames)]) \subseteq Seen(t)
        /\ Branched(ir') \subseteq Branched(ir) \cup Seen(t) \cup Pending(frames[Len(frames)])
    BY <1>2 DEF Top, s
  <2> QED BY <1>1, <2>1, <2>2, OpenedPop DEF Pop
<1> QED BY <1>3, <1>4, <1>5 DEF LInv

\* A match whose last arm has a pattern opens its exit twice.
LEMMA PopTwiceStep ==
  ASSUME IInv, LInv, "partial" \in Lang, frames # <<>>, frames' = Pop,
         NEW l \in Label, Pending(Top) = {l},
         LabelsOf(ir') = Append(Append(LabelsOf(ir), l), l),
         Branched(ir') \subseteq Branched(ir) \cup {l}
  PROVE  LInv'
<1> DEFINE s == LabelsOf(ir)
           u == Append(s, l)
           t == Append(u, l)
<1>1. s \in Seq(Label) /\ frames \in Seq(Frame)
  BY Before
<1>2. u \in Seq(Label) /\ Seen(u) = Seen(s) \cup {l}
  BY <1>1, SeenAppend
<1>3. Seen(t) = Seen(u) \cup {l}
  <2> HIDE DEF u
  <2> QED BY <1>2, SeenAppend
<1>4. LabelsOf(ir') = t
  OBVIOUS
<1> HIDE DEF t, u, s
<1>5. Opened(Seen(t), Branched(ir'), Pop)
  <2>1. Opened(Seen(s), Branched(ir), frames)
    BY DEF LInv, s
  <2>2. /\ Seen(s) \subseteq Seen(t) /\ Pending(frames[Len(frames)]) \subseteq Seen(t)
        /\ Branched(ir') \subseteq Branched(ir) \cup Seen(t) \cup Pending(frames[Len(frames)])
    BY <1>2, <1>3 DEF Top, s
  <2> QED BY <1>1, <2>1, <2>2, OpenedPop DEF Pop
<1> QED BY <1>4, <1>5 DEF LInv

\* The visitor at the top goes on with another body, behind the block next.
LEMMA ElseStep ==
  ASSUME IInv, LInv, frames # <<>>,
         NEW f \in Frame, frames' = Append(Pop, f), f.kind = "if",
         Pending(Top) = {Top.next, Top.join}, Top.next # Top.join, Top.next \in Label,
         Pending(f) = {Top.join},
         LabelsOf(ir') = Append(LabelsOf(ir), Top.next), ir'.labels = ir.labels,
         Branched(ir') \subseteq Branched(ir) \cup {Top.join}
  PROVE  LInv'
<1> DEFINE s == LabelsOf(ir)
           l == Top.next
           t == Append(s, l)
<1>1. s \in Seq(Label) /\ frames \in Seq(Frame)
  BY Before
<1>2. Seen(t) = Seen(s) \cup {l}
  BY <1>1, SeenAppend
<1>3. LabelsOf(ir') = t
  OBVIOUS
<1>4. ASSUME "partial" \notin Lang PROVE Distinct(t, ir.labels, Append(Pop, f))
  <2>1. /\ Pop \in Seq(Frame) /\ Distinct(s, ir.labels, Pop)
        /\ \A p \in {l, Top.join} : Old(p, ir.labels) /\ Free(p, s, Pop)
    BY <1>1, <1>4, DistinctPop DEF LInv, Pop, Top
  <2>2. Distinct(t, ir.labels, Pop)
    BY <1>1, <2>1, DistinctOpen
  <2>3. \A p \in Pending(f) : Old(p, ir.labels) /\ Free(p, t, Pop)
    BY <1>2, <2>1 DEF Free
  <2> HIDE DEF t
  <2>4. f.kind # "arm"
    OBVIOUS
  <2> QED BY <2>1, <2>2, <2>3, <2>4, DistinctPush
<1> HIDE DEF t, s
<1>5. Opened(Seen(t), Branched(ir'), Append(Pop, f))
  <2>1. Opened(Seen(s), Branched(ir), frames)
    BY DEF LInv, s
  <2>2. /\ Seen(s) \subseteq Seen(t)
        /\ Pending(frames[Len(frames)]) \subseteq Seen(t) \cup Pending(f)
        /\ Branched(ir') \subseteq Branched(ir) \cup Seen(t) \cup Pending(f)
    BY <1>2 DEF Top
  <2>3. f.kind \notin {"loop", "count"}
    OBVIOUS
  <2> QED BY <1>1, <2>1, <2>2, <2>3, OpenedReplace DEF Pop
<1> QED BY <1>3, <1>4, <1>5 DEF LInv

\* A match goes on with the next arm, whose body is opened behind its test.
LEMMA NextArmStep ==
  ASSUME IInv, LInv, frames # <<>>,
         NEW f \in Frame, frames' = Append(Pop, f), f.kind \in {"arm", "wild"},
         Pending(Top) = {Top.next, Top.join}, Top.next # Top.join, Top.next \in Label,
         Top.join \in Pending(f),
         "partial" \notin Lang /\ f.kind = "arm" => f.next # f.join,
         NEW body \in Label, Later(body, ir.labels, ir'.labels),
         \A p \in Pending(f) \ {Top.join} : Later(p, ir.labels, ir'.labels) /\ p # body,
         LabelsOf(ir') = Append(Append(LabelsOf(ir), Top.next), body),
         ir'.labels \in Nat, ir.labels <= ir'.labels,
         Branched(ir') \subseteq Branched(ir) \cup {Top.join, body} \cup Pending(f)
  PROVE  LInv'
<1> DEFINE s == LabelsOf(ir)
           l == Top.next
           u == Append(s, l)
           t == Append(u, body)
           n == ir.labels
           m == ir'.labels
<1>1. /\ s \in Seq(Label) /\ frames \in Seq(Frame) /\ n \in Nat
      /\ Pending(f) \subseteq Label
      /\ \A i \in DOMAIN frames : Pending(frames[i]) \subseteq Label
  BY Before, PendingOf
<1>2. u \in Seq(Label) /\ Seen(u) = Seen(s) \cup {l}
  BY <1>1, SeenAppend
<1>3. Seen(t) = Seen(u) \cup {body}
  <2> HIDE DEF u
  <2> QED BY <1>2, SeenAppend
<1>4. LabelsOf(ir') = t
  OBVIOUS
<1>5. ASSUME "partial" \notin Lang PROVE Distinct(t, m, Append(Pop, f))
  <2>1. Distinct(s, n, frames) /\ Distinct(s, m, frames)
    BY <1>5, Issuing DEF LInv
  <2>2. /\ Pop \in Seq(Frame) /\ Distinct(s, m, Pop)
        /\ \A p \in {l, Top.join} : Old(p, m) /\ Free(p, s, Pop)
    BY <1>1, <2>1, DistinctPop DEF Pop, Top
  <2>3. Distinct(s, n, Pop) /\ \A p \in {l, Top.join} : Old(p, n)
    BY <1>1, <2>1, DistinctPop DEF Pop, Top
  <2> DEFINE R == {body} \cup (Pending(f) \ {Top.join})
  <2>4. \A p \in R : Old(p, m) /\ Free(p, s, Pop) /\ ~Old(p, n)
    <3>1. n \in Nat /\ m \in Nat /\ Distinct(s, n, Pop)
      BY <1>1, <2>3
    <3>2. \A p \in R : p \in Label /\ Later(p, n, m)
      BY <1>1
    <3> HIDE DEF n, m, s, R
    <3> QED BY <3>1, <3>2, LaterFree
  <2>5. /\ l \notin R /\ Top.join \notin R
        /\ \A p \in Pending(f) \cup {body} : p \in R \cup {Top.join}
        /\ \A p \in Pending(f) : p # body /\ p # l
    BY <2>3, <2>4
  <2>6. Distinct(u, m, Pop)
    BY <1>1, <2>2, DistinctOpen
  <2>7. \A p \in R \cup {Top.join} : Old(p, m) /\ Free(p, u, Pop)
    BY <1>2, <2>2, <2>4, <2>5 DEF Free
  <2> HIDE DEF u, l
  <2> HIDE DEF R
  <2>8. Distinct(t, m, Pop)
    BY <1>2, <2>5, <2>6, <2>7, DistinctOpen
  <2>9. \A p \in Pending(f) : Old(p, m) /\ Free(p, t, Pop)
    BY <1>3, <2>5, <2>7 DEF Free
  <2> HIDE DEF t, m
  <2>10. f.kind = "arm" => f.next # f.join
    BY <1>5
  <2> QED BY <2>2, <2>8, <2>9, <2>10, DistinctPush
<1> HIDE DEF t, u, s, m, n
<1>6. Opened(Seen(t), Branched(ir'), Append(Pop, f))
  <2>1. Opened(Seen(s), Branched(ir), frames)
    BY DEF LInv, s
  <2>2. /\ Seen(s) \subseteq Seen(t)
        /\ Pending(frames[Len(frames)]) \subseteq Seen(t) \cup Pending(f)
        /\ Branched(ir') \subseteq Branched(ir) \cup Seen(t) \cup Pending(f)
    BY <1>2, <1>3 DEF Top
  <2>3. f.kind \notin {"loop", "count"}
    OBVIOUS
  <2> QED BY <1>1, <2>1, <2>2, <2>3, OpenedReplace DEF Pop
<1> QED BY <1>4, <1>5, <1>6 DEF LInv, m

-----------------------------------------------------------------------------
(***************************************************************************)
(* The statements.                                                         *)
(***************************************************************************)
LEMMA LabelIssued ==
  ASSUME NEW b, Wellformed(b), NEW p \in Prefixes \ {"entry"}, NEW k \in Nat,
         NEW m \in Nat, b.labels + k < m
  PROVE  newLabel(b, p, k) \in Label /\ Later(newLabel(b, p, k), b.labels, m)
<1>1. b.labels \in Nat
  BY DEF Wellformed, Builder
<1>2. newLabel(b, p, k)[1] = p /\ newLabel(b, p, k)[2] = b.labels + k
  BY DEF newLabel
<1>3. b.labels <= b.labels + k
  BY <1>1
<1> QED BY <1>2, <1>3, NewLabelType DEF Later

LEMMA LabelsApart ==
  ASSUME NEW b, Wellformed(b), NEW p, NEW q, NEW j \in Nat, NEW k \in Nat, j # k
  PROVE  newLabel(b, p, j) # newLabel(b, q, k)
<1>1. b.labels \in Nat
  BY DEF Wellformed, Builder
<1>2. newLabel(b, p, j)[2] = b.labels + j /\ newLabel(b, q, k)[2] = b.labels + k
  BY DEF newLabel
<1>3. b.labels + j # b.labels + k
  BY <1>1
<1> QED BY <1>2, <1>3

LEMMA VarDeclLabels ==
  ASSUME IInv, LInv, NEW x \in Names, NEW e \in Exprs \cup {None}, VisitVarDecl(x, e)
  PROVE  LInv'
<1> DEFINE b1 == buildAlloca(ir)
           slots == [varSlots EXCEPT ![x] = b1.val]
           b2 == Eval(b1, slots, e)
           b3 == buildStore(b2, b2.val, b1.val)
<1>1. /\ ir' = IF e = None THEN b1 ELSE b3
      /\ frames' = frames
  BY DEF VisitVarDecl
<1>2. Ready(b1) /\ b1.val \in Nat /\ Grows(ir, b1, {})
  BY AtVisit, AllocaGrows DEF VisitVarDecl
<1> HIDE DEF b1
<1>3. slots \in [Names -> Nat]
  BY <1>2 DEF IInv, Typed
<1> HIDE DEF slots
<1>4. CASE e = None
  BY <1>1, <1>2, <1>4, StayStep
<1>5. CASE e # None
  <2>1. e \in Exprs
    BY <1>5
  <2>2. Ready(b2) /\ b2.val \in Nat /\ Grows(b1, b2, {})
    BY <1>2, <1>3, <2>1, EvalGrows
  <2> HIDE DEF b2
  <2>3. Grows(b2, b3, {})
    BY <1>2, <2>2, StoreGrows
  <2> HIDE DEF b3
  <2>4. Grows(ir, b3, {})
    BY <1>2, <2>2, <2>3 DEF Grows, SameLabels
  <2> QED BY <1>1, <1>5, <2>4, StayStep
<1> QED BY <1>4, <1>5

LEMMA ExprStmtLabels ==
  ASSUME IInv, LInv, (\E e \in Exprs : VisitExprStmt(e)) \/ VisitExit
  PROVE  LInv'
<1>1. ASSUME NEW e \in Exprs, VisitExprStmt(e) PROVE LInv'
  <2>1. ir' = Eval(ir, varSlots, e) /\ frames' = frames /\ Ready(ir)
    BY <1>1, AtVisit DEF VisitExprStmt
  <2>2. varSlots \in [Names -> Nat]
    BY DEF IInv, Typed
  <2> QED BY <2>1, <2>2, EvalGrows, StayStep
<1>2. CASE VisitExit
  <2>1. ir' = Value(ir, "exit", <<>>) /\ frames' = frames /\ Ready(ir)
    BY <1>2, AtVisit DEF VisitExit
  <2>2. "exit" \in Ops /\ "exit" \notin Terminators /\ <<>> \in Seq(Nat)
    BY DEF Ops, Terminators
  <2> QED BY <2>1, <2>2, ValueGrows, StayStep
<1> QED BY <1>1, <1>2

LEMMA AssignLabels ==
  ASSUME IInv, LInv, NEW x \in Names, NEW e \in Exprs, NEW compound \in BOOLEAN,
         VisitAssign(x, e, compound)
  PROVE  LInv'
<1> DEFINE v1 == Eval(ir, varSlots, x)
           b1 == IF compound THEN v1 ELSE ir
           b2 == Eval(b1, varSlots, e)
           v3 == Value(b2, "eval", <<b1.val, b2.val>>)
           b3 == IF compound THEN v3 ELSE b2
           b4 == buildStore(b3, b3.val, varSlots[x])
<1>1. /\ ir' = IF varSlots[x] = NoReg THEN b3 ELSE b4
      /\ frames' = frames
  BY DEF VisitAssign
<1>2. Ready(ir) /\ ir.val \in Nat /\ Grows(ir, ir, {})
  BY AtVisit, ReadyWellformed DEF VisitAssign, Grows, SameLabels
<1>3. varSlots \in [Names -> Nat] /\ x \in Exprs
  BY DEF IInv, Typed, Exprs
<1>4. Ready(b1) /\ b1.val \in Nat /\ Grows(ir, b1, {})
  <2>1. Ready(v1) /\ v1.val \in Nat /\ Grows(ir, v1, {})
    BY <1>2, <1>3, EvalGrows
  <2> HIDE DEF v1
  <2> QED BY <1>2, <2>1
<1> HIDE DEF b1
<1>5. Ready(b2) /\ b2.val \in Nat /\ Grows(b1, b2, {})
  BY <1>3, <1>4, EvalGrows
<1> HIDE DEF b2
<1>6. Ready(b3) /\ b3.val \in Nat /\ Grows(b2, b3, {})
  <2>1. "eval" \in Ops /\ "eval" \notin Terminators
    BY DEF Ops, Terminators
  <2>2. <<b1.val, b2.val>> \in Seq(Nat)
    BY <1>4, <1>5
  <2>3. Ready(v3) /\ v3.val \in Nat /\ Grows(b2, v3, {})
    BY <1>5, <2>1, <2>2, ValueGrows
  <2>4. Grows(b2, b2, {})
    BY DEF Grows, SameLabels
  <2> HIDE DEF v3
  <2> QED BY <1>5, <2>3, <2>4
<1> HIDE DEF b3
<1>7. Grows(b3, b4, {})
  BY <1>3, <1>6, StoreGrows
<1> HIDE DEF b4
<1>8. Grows(ir, b3, {}) /\ Grows(ir, b4, {})
  BY <1>4, <1>5, <1>6, <1>7 DEF Grows, SameLabels
<1> QED BY <1>1, <1>8, StayStep

LEMMA ReturnLabels ==
  ASSUME IInv, LInv, NEW e \in Exprs \cup {None}, VisitReturn(e)
  PROVE  LInv'
<1> DEFINE v == Eval(ir, varSlots, e)
           r == buildRet(ir, <<>>)
           w == buildRet(v, <<v.val>>)
           b1 == IF e = None THEN r ELSE w
           l == newLabel(b1, "after_ret", 0)
           b2 == OpenBlock(b1, l)
           b3 == Issued(b2, 1)
<1>1. ir' = b3 /\ frames' = frames
  BY DEF VisitReturn
<1>2. Ready(ir) /\ <<>> \in Seq(Nat) /\ varSlots \in [Names -> Nat]
  BY AtVisit DEF VisitReturn, IInv, Typed
<1>3. Shut(b1) /\ Grows(ir, b1, {})
  <2>1. Shut(r) /\ Grows(ir, r, {})
    BY <1>2, RetGrows
  <2>2. ASSUME e # None PROVE Shut(w) /\ Grows(ir, w, {})
    <3>1. e \in Exprs
      BY <2>2
    <3>2. Ready(v) /\ v.val \in Nat /\ Grows(ir, v, {})
      BY <1>2, <3>1, EvalGrows
    <3> HIDE DEF v
    <3>3. <<v.val>> \in Seq(Nat)
      BY <3>2
    <3>4. Shut(w) /\ Grows(v, w, {})
      BY <3>2, <3>3, RetGrows
    <3> HIDE DEF w
    <3> QED BY <3>2, <3>4 DEF Grows, SameLabels
  <2> HIDE DEF r, w
  <2> QED BY <2>1, <2>2
<1> HIDE DEF b1
<1>4. b1.labels = ir.labels /\ ir.labels \in Nat
  BY <1>3, Before DEF Grows, SameLabels
<1>5. l \in Label /\ Later(l, ir.labels, ir.labels + 1)
  <2>1. Wellformed(b1) /\ "after_ret" \in Prefixes \ {"entry"}
    BY <1>3 DEF Shut, Prefixes
  <2>2. 0 \in Nat /\ ir.labels + 1 \in Nat /\ b1.labels + 0 < ir.labels + 1
    BY <1>4
  <2> QED BY <1>4, <2>1, <2>2, LabelIssued
<1> HIDE DEF l
<1>6. /\ Ready(b2) /\ b2.labels = b1.labels
      /\ LabelsOf(b2) = Append(LabelsOf(b1), l) /\ Branched(b2) = Branched(b1)
  BY <1>3, <1>5, OpenGrows
<1> HIDE DEF b2
<1>7. b3.labels = b2.labels + 1 /\ LabelsOf(b3) = LabelsOf(b2) /\ Branched(b3) = Branched(b2)
  BY <1>6, IssuedGrows
<1> HIDE DEF b3
<1>8. /\ ir'.labels = ir.labels + 1 /\ LabelsOf(ir') = Append(LabelsOf(ir), l)
      /\ Branched(ir') = Branched(ir)
  BY <1>1, <1>3, <1>4, <1>6, <1>7 DEF Grows, SameLabels
<1>9. ir'.labels \in Nat /\ ir.labels <= ir'.labels
  BY <1>4, <1>8
<1>10. Later(l, ir.labels, ir'.labels)
  BY <1>5, <1>8
<1>11. Branched(ir') \subseteq Branched(ir) \cup {l}
  BY <1>8
<1> QED BY <1>1, <1>5, <1>8, <1>9, <1>10, <1>11, OpenStep

LEMMA NextBlockGrows ==
  ASSUME NEW b, Shut(b), NEW l \in Label, NEW n \in Nat
  PROVE  LET c == Issued(OpenBlock(b, l), n)
         IN  /\ c.labels = b.labels + n /\ LabelsOf(c) = Append(LabelsOf(b), l)
             /\ Branched(c) = Branched(b) /\ Ready(c)
<1> DEFINE o == OpenBlock(b, l)
<1>1. /\ Ready(o) /\ o.labels = b.labels
      /\ LabelsOf(o) = Append(LabelsOf(b), l) /\ Branched(o) = Branched(b)
  BY OpenGrows
<1> HIDE DEF o
<1>2. /\ Ready(Issued(o, n)) /\ Issued(o, n).labels = o.labels + n
      /\ LabelsOf(Issued(o, n)) = LabelsOf(o) /\ Branched(Issued(o, n)) = Branched(o)
  BY <1>1, IssuedGrows
<1> QED BY <1>1, <1>2 DEF o

LEMMA FrameType ==
  ASSUME IInv, NEW kind, NEW k \in Kinds, NEW next \in Label, NEW join \in Label,
         NEW reg \in Nat, NEW scoped \in BOOLEAN,
         Nesting(kind, NewFrame(k, next, join, reg, scoped))
  PROVE  NewFrame(k, next, join, reg, scoped) \in Frame
<1>1. stmts + 1 \in Nat
  BY AtVisit DEF Nesting
<1> QED BY <1>1 DEF NewFrame, Frame, IInv, Typed

LEMMA BlockLabelsStep ==
  ASSUME IInv, LInv, VisitBlock
  PROVE  LInv'
<1> DEFINE f == NewFrame("block", Entry, Entry, NoReg, TRUE)
<1>1. Entry \in Label /\ NoReg \in Nat /\ "block" \in Kinds
  BY DEF Entry, Label, Prefixes, NoReg, Kinds
<1>2. f \in Frame /\ f.kind = "block" /\ frames' = Append(frames, f) /\ ir' = ir
  <2>1. Nesting("block", f) /\ ir' = ir
    BY DEF VisitBlock
  <2>2. f \in Frame
    BY <1>1, <2>1, FrameType
  <2>3. f.kind = "block"
    BY DEF NewFrame
  <2> HIDE DEF f
  <2> QED BY <2>1, <2>2, <2>3 DEF Nesting
<1> HIDE DEF f
<1>3. Pending(f) = {} /\ frames \in Seq(Frame)
  BY <1>2, PendingOf, Before
<1>4. Opened(Seen(LabelsOf(ir)), Branched(ir), frames)
  BY DEF LInv
<1>5. f.kind \notin {"loop", "count"} /\ f.kind # "arm"
  BY <1>2
<1>6. Opened(Seen(LabelsOf(ir)), Branched(ir), Append(frames, f))
  BY <1>2, <1>3, <1>4, <1>5, OpenedPush
<1>7. ASSUME "partial" \notin Lang PROVE Distinct(LabelsOf(ir), ir.labels, Append(frames, f))
  BY <1>2, <1>3, <1>5, <1>7, DistinctPush DEF LInv
<1> QED BY <1>2, <1>6, <1>7 DEF LInv

LEMMA IfLabels ==
  ASSUME IInv, LInv, NEW e \in Exprs, NEW hasElse \in BOOLEAN, NEW scoped \in BOOLEAN,
         VisitIf(e, hasElse, scoped)
  PROVE  LInv'
<1> DEFINE b1    == Eval(ir, varSlots, e)
           n     == IF hasElse THEN 3 ELSE 2
           then  == newLabel(b1, "then", 0)
           else  == newLabel(b1, "else", 1)
           k     == IF hasElse THEN 2 ELSE 1
           merge == newLabel(b1, "merge", k)
           next  == IF hasElse THEN else ELSE merge
           b2    == buildCondBranch(b1, b1.val, then, next)
           b3    == Issued(OpenBlock(b2, then), n)
           f     == NewFrame("if", next, merge, NoReg, scoped)
           m     == ir.labels + n
<1>1. ir' = b3 /\ Nesting("if", f)
  BY DEF VisitIf
<1>2. Ready(ir) /\ varSlots \in [Names -> Nat] /\ ir.labels \in Nat
  BY <1>1, AtVisit, Before DEF Nesting, IInv, Typed
<1>3. Ready(b1) /\ b1.val \in Nat /\ Grows(ir, b1, {})
  BY <1>2, EvalGrows
<1> HIDE DEF b1
<1>4. /\ b1.labels = ir.labels /\ Wellformed(b1) /\ n \in Nat /\ k \in Nat /\ m \in Nat
      /\ 0 < n /\ 1 < n /\ k < n /\ k # 0 /\ n >= 2
  BY <1>2, <1>3 DEF Grows, SameLabels, Ready
<1>5. /\ \A l \in {then, else, merge} : l \in Label /\ Later(l, ir.labels, m)
      /\ then # else /\ then # merge
  <2>1. {"then", "else", "merge"} \subseteq Prefixes \ {"entry"}
    BY DEF Prefixes
  <2>2. b1.labels + 0 < m /\ b1.labels + 1 < m /\ b1.labels + k < m /\ 0 \in Nat /\ 1 \in Nat
    BY <1>2, <1>4
  <2> HIDE DEF n, k, m
  <2>3. /\ then \in Label /\ Later(then, ir.labels, m)
        /\ else \in Label /\ Later(else, ir.labels, m)
        /\ merge \in Label /\ Later(merge, ir.labels, m)
    BY <1>4, <2>1, <2>2, LabelIssued
  <2>4. then # else /\ then # merge
    BY <1>4, LabelsApart
  <2> QED BY <2>3, <2>4
<1> HIDE DEF n, k, then, else, merge
<1>6. next \in {else, merge}
  OBVIOUS
<1> HIDE DEF next
<1>7. Shut(b2) /\ Grows(b1, b2, {then, next})
  BY <1>3, <1>5, <1>6, CondBranchGrows
<1> HIDE DEF b2
<1>8. /\ b3.labels = b2.labels + n /\ LabelsOf(b3) = Append(LabelsOf(b2), then)
      /\ Branched(b3) = Branched(b2)
  BY <1>4, <1>5, <1>7, NextBlockGrows
<1> HIDE DEF b3
<1>9. /\ ir'.labels = m /\ LabelsOf(ir') = Append(LabelsOf(ir), then)
      /\ Branched(ir') = Branched(ir) \cup {then, next}
  BY <1>1, <1>3, <1>7, <1>8 DEF Grows, SameLabels
<1>10. /\ f \in Frame /\ f.kind = "if" /\ f.next = next /\ f.join = merge
       /\ frames' = Append(frames, f)
  <2>1. "if" \in Kinds /\ NoReg \in Nat
    BY DEF Kinds, NoReg
  <2>2. next \in Label /\ merge \in Label
    BY <1>5, <1>6
  <2>3. f \in Frame
    BY <1>1, <2>1, <2>2, FrameType
  <2>4. f.kind = "if" /\ f.next = next /\ f.join = merge
    BY DEF NewFrame
  <2> HIDE DEF f
  <2> QED BY <1>1, <2>3, <2>4 DEF Nesting
<1> HIDE DEF f
<1>11. Pending(f) = {next, merge} /\ f.kind \notin {"loop", "count"} /\ f.kind # "arm"
  BY <1>10, PendingOf
<1>12. ir.labels <= m
  BY <1>2, <1>4
<1> HIDE DEF m
<1>13. \A p \in Pending(f) : Later(p, ir.labels, m) /\ p # then
  BY <1>5, <1>6, <1>11
<1>14. Branched(ir') \subseteq Branched(ir) \cup {then} \cup Pending(f)
  BY <1>9, <1>11
<1> QED BY <1>4, <1>5, <1>9, <1>10, <1>11, <1>12, <1>13, <1>14, PushStep

\* The tail of the visitors of loops: the condition is opened, the exit waits.
LEMMA LoopSuspended ==
  ASSUME IInv, LInv, NEW f \in Frame, f.kind \in {"loop", "count"},
         frames' = Append(frames, f),
         NEW body \in Label, NEW n \in Nat, NEW m \in Nat, m = ir.labels + n,
         Later(f.join, ir.labels, m), Later(body, ir.labels, m), Later(f.next, ir.labels, m),
         f.join # body, f.join # f.next, body # f.next, f.join \in Label,
         NEW b1, Shut(b1), Grows(ir, b1, {f.join}),
         NEW b2, Shut(b2), Grows(OpenBlock(b1, f.join), b2, {body, f.next}),
         ir' = Issued(OpenBlock(b2, body), n)
  PROVE  LInv'
<1> DEFINE cond == f.join
           exit == f.next
           o    == OpenBlock(b1, cond)
<1>1. o.labels = b1.labels /\ LabelsOf(o) = Append(LabelsOf(b1), cond) /\ Branched(o) = Branched(b1)
  BY OpenGrows
<1>2. Grows(o, b2, {body, exit})
  OBVIOUS
<1> HIDE DEF o
<1>3. /\ ir'.labels = b2.labels + n /\ LabelsOf(ir') = Append(LabelsOf(b2), body)
      /\ Branched(ir') = Branched(b2)
  BY NextBlockGrows
<1>4. /\ ir'.labels = m /\ LabelsOf(ir') = Append(Append(LabelsOf(ir), cond), body)
      /\ Branched(ir') = Branched(ir) \cup {cond, body, exit}
  BY <1>1, <1>2, <1>3 DEF Grows, SameLabels
<1>5. ir.labels <= m
  BY Before
<1>6. \A p \in {cond, body, exit} : Later(p, ir.labels, m)
  OBVIOUS
<1> QED BY <1>4, <1>5, <1>6, PushLoopStep

LEMMA LoopLabels ==
  ASSUME IInv, LInv, NEW e \in Exprs, NEW kind \in {"while", "vloop"}, VisitLoop(e, kind)
  PROVE  LInv'
<1> DEFINE cond == newLabel(ir, kind, 0)
           body == newLabel(ir, kind, 1)
           exit == newLabel(ir, kind, 2)
           b1   == buildBranch(ir, cond)
           o    == OpenBlock(b1, cond)
           b2   == Eval(o, varSlots, e)
           b3   == buildCondBranch(b2, b2.val, body, exit)
<1>1. /\ Nesting(kind, NewFrame("loop", exit, cond, NoReg, TRUE))
      /\ ir' = Issued(OpenBlock(b3, body), 3)
  BY DEF VisitLoop
<1>2. Ready(ir) /\ Wellformed(ir) /\ varSlots \in [Names -> Nat] /\ ir.labels \in Nat
  BY <1>1, AtVisit, Before DEF Nesting, IInv, Typed, Ready
<1>3. /\ \A l \in {cond, body, exit} : l \in Label /\ Later(l, ir.labels, ir.labels + 3)
      /\ cond # body /\ cond # exit /\ body # exit
  <2>1. kind \in Prefixes \ {"entry"}
    BY DEF Prefixes
  <2>2. /\ ir.labels + 0 < ir.labels + 3 /\ ir.labels + 1 < ir.labels + 3
        /\ ir.labels + 2 < ir.labels + 3 /\ ir.labels + 3 \in Nat
    BY <1>2
  <2> DEFINE m == ir.labels + 3
  <2> HIDE DEF m
  <2>3. /\ cond \in Label /\ Later(cond, ir.labels, m)
        /\ body \in Label /\ Later(body, ir.labels, m)
        /\ exit \in Label /\ Later(exit, ir.labels, m)
    BY <1>2, <2>1, <2>2, LabelIssued DEF m
  <2>4. cond # body /\ cond # exit /\ body # exit
    BY <1>2, LabelsApart
  <2> HIDE DEF cond, body, exit
  <2> QED BY <2>3, <2>4 DEF m
<1> HIDE DEF cond, body, exit
<1>4. Shut(b1) /\ Grows(ir, b1, {cond})
  BY <1>2, <1>3, BranchGrows
<1> HIDE DEF b1
<1>5. Ready(o)
  BY <1>3, <1>4, OpenGrows
<1>6. Shut(b3) /\ Grows(o, b3, {body, exit})
  <2> HIDE DEF o
  <2>1. Ready(b2) /\ b2.val \in Nat /\ Grows(o, b2, {})
    BY <1>2, <1>5, EvalGrows
  <2> HIDE DEF b2
  <2>2. Shut(b3) /\ Grows(b2, b3, {body, exit})
    BY <1>3, <2>1, CondBranchGrows
  <2> HIDE DEF b3
  <2> QED BY <2>1, <2>2, GrowsTwice
<1> HIDE DEF b3
<1> DEFINE f == NewFrame("loop", exit, cond, NoReg, TRUE)
           m == ir.labels + 3
<1>7. /\ f \in Frame /\ f.kind = "loop" /\ f.next = exit /\ f.join = cond
      /\ frames' = Append(frames, f)
  <2>1. "loop" \in Kinds /\ NoReg \in Nat /\ exit \in Label /\ cond \in Label
    BY <1>3 DEF Kinds, NoReg
  <2>2. f \in Frame
    <3>1. stmts + 1 \in Nat
      BY <1>1, AtVisit DEF Nesting
    <3> QED BY <2>1, <3>1 DEF NewFrame, Frame, IInv, Typed
  <2>3. f.kind = "loop" /\ f.next = exit /\ f.join = cond
    BY DEF NewFrame
  <2>4. Nesting(kind, f)
    BY <1>1
  <2> HIDE DEF f
  <2> QED BY <2>2, <2>3, <2>4 DEF Nesting
<1>8. m \in Nat /\ m = ir.labels + 3 /\ 3 \in Nat
  BY <1>2
<1> HIDE DEF f, m
<1>9. /\ Later(f.join, ir.labels, m) /\ Later(body, ir.labels, m) /\ Later(f.next, ir.labels, m)
      /\ f.join # body /\ f.join # f.next /\ body # f.next /\ f.join \in Label
      /\ body \in Label
  BY <1>3, <1>7, <1>8
<1>10. /\ Grows(ir, b1, {f.join}) /\ Grows(OpenBlock(b1, f.join), b3, {body, f.next})
  BY <1>4, <1>6, <1>7
<1> QED BY <1>1, <1>4, <1>6, <1>7, <1>8, <1>9, <1>10, LoopSuspended

LEMMA CountLabels ==
  ASSUME IInv, LInv, VisitCountedVloop
  PROVE  LInv'
<1> DEFINE cond == newLabel(ir, "vloop_cond", 1)
           body == newLabel(ir, "vloop_body", 2)
           exit == newLabel(ir, "vloop_exit", 3)
           a1   == buildAlloca(ir)
           a2   == Value(a1, "int", <<>>)
           a3   == buildStore(a2, a2.val, a1.val)
           b1   == buildBranch(a3, cond)
           o    == OpenBlock(b1, cond)
           b2   == Value(o, "poll", <<a1.val>>)
           b3   == buildCondBranch(b2, b2.val, body, exit)
<1>1. /\ Nesting("count", NewFrame("count", exit, cond, a1.val, TRUE))
      /\ ir' = Issued(OpenBlock(b3, body), 4)
  BY DEF VisitCountedVloop
<1>2. Ready(ir) /\ Wellformed(ir) /\ ir.labels \in Nat
  BY <1>1, AtVisit, Before DEF Nesting, Ready
<1>3. /\ \A l \in {cond, body, exit} : l \in Label /\ Later(l, ir.labels, ir.labels + 4)
      /\ cond # body /\ cond # exit /\ body # exit
  <2>1. {"vloop_cond", "vloop_body", "vloop_exit"} \subseteq Prefixes \ {"entry"}
    BY DEF Prefixes
  <2>2. /\ ir.labels + 1 < ir.labels + 4 /\ ir.labels + 2 < ir.labels + 4
        /\ ir.labels + 3 < ir.labels + 4 /\ ir.labels + 4 \in Nat
    BY <1>2
  <2> DEFINE m == ir.labels + 4
  <2> HIDE DEF m
  <2>3. /\ cond \in Label /\ Later(cond, ir.labels, m)
        /\ body \in Label /\ Later(body, ir.labels, m)
        /\ exit \in Label /\ Later(exit, ir.labels, m)
    BY <1>2, <2>1, <2>2, LabelIssued DEF m
  <2>4. cond # body /\ cond # exit /\ body # exit
    BY <1>2, LabelsApart
  <2> HIDE DEF cond, body, exit
  <2> QED BY <2>3, <2>4 DEF m
<1> HIDE DEF cond, body, exit
<1>4. a1.val \in Nat /\ Shut(b1) /\ Grows(ir, b1, {cond})
  <2>1. Ready(a1) /\ a1.val \in Nat /\ Grows(ir, a1, {})
    BY <1>2, AllocaGrows
  <2> HIDE DEF a1
  <2>2. Ready(a2) /\ a2.val \in Nat /\ Grows(a1, a2, {})
    <3>1. "int" \in Ops /\ "int" \notin Terminators /\ <<>> \in Seq(Nat)
      BY DEF Ops, Terminators
    <3> QED BY <2>1, <3>1, ValueGrows
  <2> HIDE DEF a2
  <2>3. Ready(a3) /\ Grows(a2, a3, {})
    BY <2>1, <2>2, StoreGrows
  <2> HIDE DEF a3
  <2>4. Shut(b1) /\ Grows(a3, b1, {cond})
    BY <1>3, <2>3, BranchGrows
  <2> HIDE DEF b1
  <2> QED BY <2>1, <2>2, <2>3, <2>4 DEF Grows, SameLabels
<1> DEFINE reg == a1.val
<1>5. reg \in Nat
  BY <1>4
<1> HIDE DEF b1
<1>6. Ready(o)
  BY <1>3, <1>4, OpenGrows
<1>7. Shut(b3) /\ Grows(o, b3, {body, exit})
  <2> HIDE DEF o, reg
  <2>1. Ready(b2) /\ b2.val \in Nat /\ Grows(o, b2, {})
    <3>1. "poll" \in Ops /\ "poll" \notin Terminators
      BY DEF Ops, Terminators
    <3>2. <<reg>> \in Seq(Nat)
      BY <1>5
    <3>3. b2 = Value(o, "poll", <<reg>>)
      BY DEF reg
    <3> HIDE DEF b2
    <3> QED BY <1>6, <3>1, <3>2, <3>3, ValueGrows
  <2> HIDE DEF b2
  <2>2. Shut(b3) /\ Grows(b2, b3, {body, exit})
    BY <1>3, <2>1, CondBranchGrows
  <2> HIDE DEF b3
  <2> QED BY <2>1, <2>2, GrowsTwice
<1>8. Nesting("count", NewFrame("count", exit, cond, reg, TRUE))
  BY <1>1 DEF reg
<1> HIDE DEF b3, reg
<1> DEFINE f == NewFrame("count", exit, cond, reg, TRUE)
           m == ir.labels + 4
<1>9. /\ f \in Frame /\ f.kind = "count" /\ f.next = exit /\ f.join = cond
      /\ frames' = Append(frames, f)
  <2>1. "count" \in Kinds /\ reg \in Nat /\ exit \in Label /\ cond \in Label
    BY <1>3, <1>5 DEF Kinds, NoReg
  <2>2. f \in Frame
    <3>1. stmts + 1 \in Nat
      BY <1>8, AtVisit DEF Nesting
    <3> QED BY <2>1, <3>1 DEF NewFrame, Frame, IInv, Typed
  <2>3. f.kind = "count" /\ f.next = exit /\ f.join = cond
    BY DEF NewFrame
  <2>4. Nesting("count", f)
    BY <1>8
  <2> HIDE DEF f
  <2> QED BY <2>2, <2>3, <2>4 DEF Nesting
<1>10. m \in Nat /\ m = ir.labels + 4 /\ 4 \in Nat
  BY <1>2
<1> HIDE DEF f, m
<1>11. /\ Later(f.join, ir.labels, m) /\ Later(body, ir.labels, m) /\ Later(f.next, ir.labels, m)
      /\ f.join # body /\ f.join # f.next /\ body # f.next /\ f.join \in Label
      /\ body \in Label
  BY <1>3, <1>9, <1>10
<1>12. /\ Grows(ir, b1, {f.join}) /\ Grows(OpenBlock(b1, f.join), b3, {body, f.next})
  BY <1>4, <1>7, <1>9
<1> QED BY <1>1, <1>4, <1>7, <1>9, <1>10, <1>11, <1>12, LoopSuspended

LEMMA ForLabels ==
  ASSUME IInv, LInv, NEW x \in Names, NEW e \in Exprs, VisitFor(x, e)
  PROVE  LInv'
<1> DEFINE cond  == newLabel(ir, "for_cond", 0)
           body  == newLabel(ir, "for_body", 1)
           exit  == newLabel(ir, "for_exit", 2)
           a1    == buildAlloca(ir)
           slots == [varSlots EXCEPT ![x] = a1.val]
           a2    == Eval(a1, slots, e)
           a3    == buildAlloca(a2)
           a4    == buildStore(a3, a2.val, a3.val)
           b1    == buildBranch(a4, cond)
           o     == OpenBlock(b1, cond)
           b2    == Value(o, "poll", <<a3.val>>)
           b3    == buildCondBranch(b2, b2.val, body, exit)
           f     == NewFrame("loop", exit, cond, NoReg, TRUE)
           m     == ir.labels + 3
<1>1. Nesting("for", f) /\ ir' = Issued(OpenBlock(b3, body), 3)
  BY DEF VisitFor
<1>2. Ready(ir) /\ Wellformed(ir) /\ varSlots \in [Names -> Nat] /\ ir.labels \in Nat
  BY <1>1, AtVisit, Before DEF Nesting, IInv, Typed, Ready
<1>3. /\ cond \in Label /\ body \in Label /\ exit \in Label
      /\ Later(cond, ir.labels, m) /\ Later(body, ir.labels, m) /\ Later(exit, ir.labels, m)
      /\ cond # body /\ cond # exit /\ body # exit
  <2>1. {"for_cond", "for_body", "for_exit"} \subseteq Prefixes \ {"entry"}
    BY DEF Prefixes
  <2>2. /\ ir.labels + 0 < m /\ ir.labels + 1 < m /\ ir.labels + 2 < m /\ m \in Nat
    BY <1>2
  <2> HIDE DEF m
  <2>3. /\ cond \in Label /\ Later(cond, ir.labels, m)
        /\ body \in Label /\ Later(body, ir.labels, m)
        /\ exit \in Label /\ Later(exit, ir.labels, m)
    BY <1>2, <2>1, <2>2, LabelIssued
  <2>4. cond # body /\ cond # exit /\ body # exit
    BY <1>2, LabelsApart
  <2> HIDE DEF cond, body, exit
  <2> QED BY <2>3, <2>4
<1> HIDE DEF cond, body, exit
<1>4. a3.val \in Nat /\ Shut(b1) /\ Grows(ir, b1, {cond})
  <2>1. Ready(a1) /\ a1.val \in Nat /\ Grows(ir, a1, {})
    BY <1>2, AllocaGrows
  <2> HIDE DEF a1
  <2>2. slots \in [Names -> Nat]
    BY <1>2, <2>1
  <2> HIDE DEF slots
  <2>3. Ready(a2) /\ a2.val \in Nat /\ Grows(a1, a2, {})
    BY <2>1, <2>2, EvalGrows
  <2> HIDE DEF a2
  <2>4. Ready(a3) /\ a3.val \in Nat /\ Grows(a2, a3, {})
    BY <2>3, AllocaGrows
  <2> HIDE DEF a3
  <2>5. Ready(a4) /\ Grows(a3, a4, {})
    BY <2>3, <2>4, StoreGrows
  <2> HIDE DEF a4
  <2>6. Shut(b1) /\ Grows(a4, b1, {cond})
    BY <1>3, <2>5, BranchGrows
  <2> HIDE DEF b1
  <2> QED BY <2>1, <2>3, <2>4, <2>5, <2>6 DEF Grows, SameLabels
<1> HIDE DEF b1, a3
<1>5. Ready(o)
  BY <1>3, <1>4, OpenGrows
<1>6. Shut(b3) /\ Grows(o, b3, {body, exit})
  <2> HIDE DEF o
  <2>1. Ready(b2) /\ b2.val \in Nat /\ Grows(o, b2, {})
    <3>1. "poll" \in Ops /\ "poll" \notin Terminators
      BY DEF Ops, Terminators
    <3>2. <<a3.val>> \in Seq(Nat)
      BY <1>4
    <3> QED BY <1>5, <3>1, <3>2, ValueGrows
  <2> HIDE DEF b2
  <2>2. Shut(b3) /\ Grows(b2, b3, {body, exit})
    BY <1>3, <2>1, CondBranchGrows
  <2> HIDE DEF b3
  <2> QED BY <2>1, <2>2, GrowsTwice
<1> HIDE DEF b3
<1>7. /\ f \in Frame /\ f.kind = "loop" /\ f.next = exit /\ f.join = cond
      /\ frames' = Append(frames, f)
  <2>1. "loop" \in Kinds /\ NoReg \in Nat
    BY DEF Kinds, NoReg
  <2>2. f \in Frame
    <3>1. stmts + 1 \in Nat
      BY <1>1, AtVisit DEF Nesting
    <3> QED BY <1>3, <2>1, <3>1 DEF NewFrame, Frame, IInv, Typed
  <2>3. f.kind = "loop" /\ f.next = exit /\ f.join = cond
    BY DEF NewFrame
  <2> HIDE DEF f
  <2> QED BY <1>1, <2>2, <2>3 DEF Nesting
<1>8. m \in Nat /\ m = ir.labels + 3 /\ 3 \in Nat
  BY <1>2
<1> HIDE DEF f, m
<1>9. /\ Later(f.join, ir.labels, m) /\ Later(body, ir.labels, m) /\ Later(f.next, ir.labels, m)
      /\ f.join # body /\ f.join # f.next /\ body # f.next /\ f.join \in Label
  BY <1>3, <1>7
<1>10. /\ Grows(ir, b1, {f.join}) /\ Grows(OpenBlock(b1, f.join), b3, {body, f.next})
  BY <1>4, <1>6, <1>7
<1> QED BY <1>1, <1>3, <1>4, <1>6, <1>7, <1>8, <1>9, <1>10, LoopSuspended

\* One arm of a match: the block of its body, and the label of the next test.
ArmOpened(b, arm, body, exit, wild, last) ==
  /\ Ready(arm.ir) /\ arm.ir.labels \in Nat /\ b.labels < arm.ir.labels
  /\ body \in Label /\ Later(body, b.labels, arm.ir.labels)
  /\ LabelsOf(arm.ir) = Append(LabelsOf(b), body)
  /\ Branched(arm.ir) \subseteq Branched(b) \cup {body, arm.next}
  /\ wild => Branched(arm.ir) \subseteq Branched(b) \cup {body}
  /\ arm.next \in Label
  /\ last => arm.next = exit
  /\ ~last => Later(arm.next, b.labels, arm.ir.labels) /\ arm.next # body

LEMMA ArmGrows ==
  ASSUME NEW b, Ready(b), b.labels \in Nat, NEW subj \in Nat, NEW exit \in Label,
         NEW wild \in BOOLEAN, NEW last \in BOOLEAN
  PROVE  ArmOpened(b, Arm(b, subj, exit, wild, last), newLabel(b, "match_arm", 0),
                   exit, wild, last)
<1> DEFINE body == newLabel(b, "match_arm", 0)
           fresh == newLabel(b, "match_next", 1)
           next == IF last THEN exit ELSE fresh
           b1   == Value(b, "test", <<subj>>)
           n    == IF last THEN 1 ELSE 2
           m    == b.labels + n
           arm  == Arm(b, subj, exit, wild, last)
           b2   == IF wild THEN buildBranch(b, body)
                           ELSE buildCondBranch(b1, b1.val, body, next)
<1>1. arm.ir = Issued(OpenBlock(b2, body), n) /\ arm.next = next
  BY DEF Arm
<1>2. n \in Nat /\ m \in Nat /\ b.labels < m /\ b.labels + 0 < m /\ (~last => b.labels + 1 < m)
  OBVIOUS
<1> HIDE DEF n, m, arm
<1>3. /\ body \in Label /\ Later(body, b.labels, m)
      /\ fresh \in Label /\ (~last => Later(fresh, b.labels, m)) /\ body # fresh
  <2>1. "match_arm" \in Prefixes \ {"entry"} /\ "match_next" \in Prefixes \ {"entry"}
    BY DEF Prefixes
  <2>2. Wellformed(b) /\ b.labels + 2 \in Nat /\ b.labels + 1 < b.labels + 2
    BY DEF Ready
  <2>3. body \in Label /\ Later(body, b.labels, m) /\ fresh \in Label
    BY <1>2, <2>1, <2>2, LabelIssued
  <2>4. ~last => Later(fresh, b.labels, m)
    BY <1>2, <2>1, <2>2, LabelIssued
  <2>5. body # fresh
    BY <2>2, LabelsApart
  <2> QED BY <2>3, <2>4, <2>5
<1> HIDE DEF body, fresh
<1>4. next \in Label /\ (last => next = exit) /\ (~last => next = fresh)
  BY <1>3
<1> HIDE DEF next
<1>5. /\ Shut(b2) /\ b2.labels = b.labels /\ LabelsOf(b2) = LabelsOf(b)
      /\ Branched(b2) \subseteq Branched(b) \cup {body, next}
      /\ wild => Branched(b2) \subseteq Branched(b) \cup {body}
  <2>1. CASE wild
    <3>1. b2 = buildBranch(b, body)
      BY <2>1
    <3> HIDE DEF b2
    <3>2. Shut(b2) /\ Grows(b, b2, {body})
      BY <1>3, <3>1, BranchGrows
    <3> QED BY <3>2 DEF Grows, SameLabels
  <2>2. CASE ~wild
    <3>1. "test" \in Ops /\ "test" \notin Terminators /\ <<subj>> \in Seq(Nat)
      BY DEF Ops, Terminators
    <3>2. Ready(b1) /\ b1.val \in Nat /\ Grows(b, b1, {})
      BY <3>1, ValueGrows
    <3>3. b2 = buildCondBranch(b1, b1.val, body, next)
      BY <2>2
    <3> HIDE DEF b1, b2
    <3>4. Shut(b2) /\ Grows(b1, b2, {body, next})
      BY <1>3, <1>4, <3>2, <3>3, CondBranchGrows
    <3> QED BY <2>2, <3>2, <3>4 DEF Grows, SameLabels
  <2> QED BY <2>1, <2>2
<1> HIDE DEF b2
<1>6. /\ arm.ir.labels = b2.labels + n /\ LabelsOf(arm.ir) = Append(LabelsOf(b2), body)
      /\ Branched(arm.ir) = Branched(b2) /\ Ready(arm.ir)
  <2> DEFINE o == Issued(OpenBlock(b2, body), n)
  <2>1. Shut(b2) /\ body \in Label /\ n \in Nat
    BY <1>2, <1>3, <1>5
  <2>2. /\ o.labels = b2.labels + n /\ LabelsOf(o) = Append(LabelsOf(b2), body)
        /\ Branched(o) = Branched(b2) /\ Ready(o)
    BY <2>1, NextBlockGrows
  <2>3. arm.ir = o
    BY <1>1
  <2> HIDE DEF o
  <2> QED BY <2>2, <2>3
<1>7. arm.ir.labels = m
  BY <1>5, <1>6 DEF m
<1>8. /\ Ready(arm.ir) /\ arm.ir.labels \in Nat /\ b.labels < arm.ir.labels
      /\ body \in Label /\ Later(body, b.labels, arm.ir.labels)
  BY <1>2, <1>3, <1>6, <1>7
<1>9. LabelsOf(arm.ir) = Append(LabelsOf(b), body)
  BY <1>5, <1>6
<1>10. /\ Branched(arm.ir) \subseteq Branched(b) \cup {body, arm.next}
       /\ wild => Branched(arm.ir) \subseteq Branched(b) \cup {body}
  BY <1>1, <1>5, <1>6
<1>11. /\ arm.next \in Label /\ (last => arm.next = exit)
       /\ ~last => Later(arm.next, b.labels, arm.ir.labels) /\ arm.next # body
  BY <1>1, <1>3, <1>4, <1>7
<1> QED BY <1>8, <1>9, <1>10, <1>11 DEF arm, body, ArmOpened

LEMMA LaterApart ==
  ASSUME NEW k \in Label, NEW l \in Label, NEW n, NEW m \in Nat, NEW o,
         Later(k, n, m), Later(l, m, o)
  PROVE  k # l
<1>1. k[2] \in Nat /\ l[2] \in Nat
  BY DEF Label
<1> QED BY <1>1 DEF Later

LEMMA LaterWiden ==
  ASSUME NEW l \in Label, NEW n \in Nat, NEW m \in Nat, NEW o \in Nat, NEW p \in Nat,
         n <= m, o <= p, Later(l, m, o)
  PROVE  Later(l, n, p)
<1>1. l[2] \in Nat
  BY DEF Label
<1> QED BY <1>1 DEF Later

LEMMA EmptyMatchLabels ==
  ASSUME IInv, LInv, NEW e \in Exprs, VisitEmptyMatch(e)
  PROVE  LInv'
<1> DEFINE b1   == Eval(ir, varSlots, e)
           exit == newLabel(b1, "match_exit", 0)
           b2   == buildBranch(b1, exit)
           b3   == Issued(OpenBlock(b2, exit), 1)
           m    == ir.labels + 1
<1>1. ir' = b3 /\ frames' = frames
  BY DEF VisitEmptyMatch
<1>2. Ready(ir) /\ varSlots \in [Names -> Nat] /\ ir.labels \in Nat
  BY AtVisit, Before DEF VisitEmptyMatch, IInv, Typed
<1>3. Ready(b1) /\ Wellformed(b1) /\ Grows(ir, b1, {}) /\ b1.labels = ir.labels
  BY <1>2, EvalGrows DEF Ready, Grows, SameLabels
<1> HIDE DEF b1
<1>4. exit \in Label /\ Later(exit, ir.labels, m)
  <2>1. "match_exit" \in Prefixes \ {"entry"}
    BY DEF Prefixes
  <2>2. b1.labels + 0 < m /\ m \in Nat
    BY <1>2, <1>3
  <2> HIDE DEF m
  <2> QED BY <1>3, <2>1, <2>2, LabelIssued
<1> HIDE DEF exit
<1>5. Shut(b2) /\ Grows(b1, b2, {exit})
  BY <1>3, <1>4, BranchGrows
<1> HIDE DEF b2
<1>6. /\ b3.labels = b2.labels + 1 /\ LabelsOf(b3) = Append(LabelsOf(b2), exit)
      /\ Branched(b3) = Branched(b2)
  BY <1>4, <1>5, NextBlockGrows
<1> HIDE DEF b3
<1>7. /\ ir'.labels = m /\ LabelsOf(ir') = Append(LabelsOf(ir), exit)
      /\ Branched(ir') \subseteq Branched(ir) \cup {exit}
  BY <1>1, <1>3, <1>5, <1>6 DEF Grows, SameLabels
<1>8. m \in Nat /\ ir.labels <= m
  BY <1>2
<1> HIDE DEF m
<1> QED BY <1>1, <1>4, <1>7, <1>8, OpenStep

LEMMA MatchLabels ==
  ASSUME IInv, LInv, NEW e \in Exprs, NEW wild \in BOOLEAN, NEW last \in BOOLEAN,
         NEW scoped \in BOOLEAN, VisitMatch(e, wild, last, scoped)
  PROVE  LInv'
<1> DEFINE b1   == Eval(ir, varSlots, e)
           exit == newLabel(b1, "match_exit", 0)
           b2   == Issued(b1, 1)
           arm  == Arm(b2, b1.val, exit, wild, last)
           kind == IF wild THEN "wild" ELSE "arm"
           f    == NewFrame(kind, arm.next, exit, b1.val, scoped)
           body == newLabel(b2, "match_arm", 0)
<1>1. ir' = arm.ir /\ Nesting("match", f) /\ ArmAllowed(1, wild, last)
  BY DEF VisitMatch
<1>2. Ready(ir) /\ varSlots \in [Names -> Nat] /\ ir.labels \in Nat
  BY <1>1, AtVisit, Before DEF Nesting, IInv, Typed
<1>3. /\ Ready(b1) /\ Wellformed(b1) /\ b1.val \in Nat /\ Grows(ir, b1, {})
      /\ b1.labels = ir.labels
  BY <1>2, EvalGrows DEF Ready, Grows, SameLabels
<1> HIDE DEF b1
<1>4. /\ Ready(b2) /\ b2.labels = ir.labels + 1 /\ b2.labels \in Nat
      /\ LabelsOf(b2) = LabelsOf(b1) /\ Branched(b2) = Branched(b1)
  <2>1. Ready(b1) /\ 1 \in Nat
    BY <1>3
  <2>2. /\ Ready(b2) /\ b2.labels = b1.labels + 1
        /\ LabelsOf(b2) = LabelsOf(b1) /\ Branched(b2) = Branched(b1)
    BY <2>1, IssuedGrows
  <2> HIDE DEF b2
  <2> QED BY <1>2, <1>3, <2>2
<1>5. exit \in Label /\ Later(exit, ir.labels, b2.labels)
  <2>1. "match_exit" \in Prefixes \ {"entry"}
    BY DEF Prefixes
  <2>2. b1.labels + 0 < b2.labels
    BY <1>2, <1>3, <1>4
  <2> HIDE DEF b2
  <2> QED BY <1>3, <1>4, <2>1, <2>2, LabelIssued
<1> HIDE DEF exit, b2
<1>6. /\ arm.ir.labels \in Nat /\ b2.labels < arm.ir.labels
      /\ body \in Label /\ Later(body, b2.labels, arm.ir.labels)
      /\ LabelsOf(arm.ir) = Append(LabelsOf(b2), body)
      /\ Branched(arm.ir) \subseteq Branched(b2) \cup {body, arm.next}
      /\ wild => Branched(arm.ir) \subseteq Branched(b2) \cup {body}
      /\ arm.next \in Label
      /\ last => arm.next = exit
      /\ ~last => Later(arm.next, b2.labels, arm.ir.labels) /\ arm.next # body
  <2>1. Ready(b2) /\ b2.labels \in Nat /\ b1.val \in Nat /\ exit \in Label
    BY <1>3, <1>4, <1>5
  <2>2. ArmOpened(b2, arm, body, exit, wild, last)
    BY <2>1, ArmGrows
  <2> HIDE DEF arm, body
  <2> QED BY <2>2 DEF ArmOpened
<1> HIDE DEF arm, body
<1>7. kind \in Kinds /\ kind \in {"arm", "wild"}
  BY DEF Kinds
<1>8. /\ f \in Frame /\ f.kind = kind /\ f.next = arm.next /\ f.join = exit
      /\ frames' = Append(frames, f)
  <2>1. stmts + 1 \in Nat
    BY <1>1, AtVisit DEF Nesting
  <2> HIDE DEF kind
  <2>2. f \in Frame
    BY <1>3, <1>5, <1>6, <1>7, <2>1 DEF NewFrame, Frame, IInv, Typed
  <2>3. f.kind = kind /\ f.next = arm.next /\ f.join = exit
    BY DEF NewFrame
  <2> HIDE DEF f
  <2> QED BY <1>1, <2>2, <2>3 DEF Nesting
<1> HIDE DEF f
<1>9. /\ wild => f.kind = "wild" /\ Pending(f) = {exit}
      /\ ~wild => f.kind = "arm" /\ Pending(f) = {arm.next, exit}
  <2>1. (wild => f.kind = "wild") /\ (~wild => f.kind = "arm")
    BY <1>8
  <2> HIDE DEF kind
  <2> QED BY <1>8, <2>1, PendingOf
<1>10. /\ Later(exit, ir.labels, arm.ir.labels) /\ exit # body
       /\ Later(body, ir.labels, arm.ir.labels)
       /\ ~last => Later(arm.next, ir.labels, arm.ir.labels) /\ arm.next # exit
  BY <1>2, <1>4, <1>5, <1>6, LaterApart, LaterWiden
<1>11. \A p \in Pending(f) : Later(p, ir.labels, ir'.labels) /\ p # body
  BY <1>1, <1>6, <1>9, <1>10
<1>12. "partial" \notin Lang /\ f.kind = "arm" => f.next # f.join
  <2> SUFFICES ASSUME "partial" \notin Lang, f.kind = "arm"
               PROVE  f.next # f.join
    OBVIOUS
  <2>1. ~wild
    BY <1>9
  <2>2. ~last
    BY <1>1, <2>1 DEF ArmAllowed
  <2> QED BY <1>8, <1>10, <2>2
<1>13. LabelsOf(ir') = Append(LabelsOf(ir), body)
  BY <1>1, <1>3, <1>4, <1>6 DEF Grows, SameLabels
<1>14. Branched(ir') \subseteq Branched(ir) \cup {body} \cup Pending(f)
  BY <1>1, <1>3, <1>4, <1>6, <1>9 DEF Grows
<1>15. ir'.labels \in Nat /\ ir.labels <= ir'.labels /\ Later(body, ir.labels, ir'.labels)
  BY <1>1, <1>2, <1>4, <1>6, <1>10
<1>16. f.kind \notin {"loop", "count"}
  BY <1>8
<1> HIDE DEF kind
<1> QED BY <1>6, <1>8, <1>11, <1>12, <1>13, <1>14, <1>15, <1>16, PushStep

-----------------------------------------------------------------------------
(***************************************************************************)
(* The ends of bodies.                                                     *)
(***************************************************************************)
\* if (!isTerminated()) buildBranch(j), and the next block.
LEMMA ClosedAndOpened ==
  ASSUME NEW b, Ready(b), NEW j \in Label, NEW l \in Label
  PROVE  LET c == OpenBlock(BranchIfOpen(b, j), l)
         IN  /\ Ready(c) /\ c.labels = b.labels
             /\ LabelsOf(c) = Append(LabelsOf(b), l) /\ Branched(c) = Branched(b) \cup {j}
<1> DEFINE d == BranchIfOpen(b, j)
<1>1. Shut(d) /\ Grows(b, d, {j})
  BY BranchIfOpenGrows
<1> HIDE DEF d
<1>2. /\ Ready(OpenBlock(d, l)) /\ OpenBlock(d, l).labels = d.labels
      /\ LabelsOf(OpenBlock(d, l)) = Append(LabelsOf(d), l)
      /\ Branched(OpenBlock(d, l)) = Branched(d)
  BY <1>1, OpenGrows
<1> QED BY <1>1, <1>2 DEF Grows, SameLabels, d

LEMMA EndBlockLabels ==
  ASSUME IInv, LInv, EndBlock
  PROVE  LInv'
<1>1. Ending({"block"}) /\ frames' = Pop /\ ir' = ir /\ frames # <<>>
  BY DEF EndBlock, Ending
<1>2. Top \in Frame /\ Top.kind = "block"
  BY <1>1, AtEnd DEF Ending
<1>3. Pending(Top) = {}
  BY <1>2, PendingOf
<1> QED BY <1>1, <1>3, PopStep

LEMMA EndThenLabels ==
  ASSUME IInv, LInv, NEW scoped \in BOOLEAN, EndThen(scoped)
  PROVE  LInv'
<1> DEFINE b == OpenBlock(BranchIfOpen(ir, Top.join), Top.next)
           e == IF Top.scoped THEN Top.env ELSE env
           h == IF Top.scoped THEN Top.here ELSE here
           f == [Top EXCEPT !.next = Top.join, !.env = e, !.here = h,
                            !.scoped = scoped, !.at = stmts]
<1>1. /\ Ending({"if"}) /\ ir' = b /\ frames' = Append(Pop, f)
      /\ Top.next # Top.join /\ frames # <<>> /\ Top.kind = "if"
  BY DEF EndThen, Ending
<1>2. Ready(ir) /\ Top \in Frame /\ Top.next \in Label /\ Top.join \in Label
  BY <1>1, AtEnd
<1>3. e \in [Names -> Binding] /\ h \in SUBSET Names
  BY <1>2, NextScope
<1> HIDE DEF e, h
<1>4. f \in Frame /\ f.kind = Top.kind /\ f.next = Top.join /\ f.join = Top.join
  <2>1. stmts \in Nat
    BY DEF IInv, Typed
  <2> HIDE DEF Top
  <2> QED BY <1>2, <1>3, <2>1 DEF Frame
<1> HIDE DEF f
<1>5. Pending(Top) = {Top.next, Top.join} /\ Pending(f) = {Top.join}
  BY <1>1, <1>2, <1>4, PendingOf
<1>6. /\ ir'.labels = ir.labels /\ LabelsOf(ir') = Append(LabelsOf(ir), Top.next)
      /\ Branched(ir') = Branched(ir) \cup {Top.join}
  BY <1>1, <1>2, ClosedAndOpened
<1> QED BY <1>1, <1>2, <1>4, <1>5, <1>6, ElseStep

LEMMA EndIfLabels ==
  ASSUME IInv, LInv, EndIf
  PROVE  LInv'
<1> DEFINE l == Top.join
<1>1. /\ Ending({"if"}) /\ ir' = OpenBlock(BranchIfOpen(ir, l), l) /\ frames' = Pop
      /\ frames # <<>> /\ Top.kind = "if" /\ Top.next = l
  BY DEF EndIf, Ending
<1>2. Ready(ir) /\ Top \in Frame /\ l \in Label
  BY <1>1, AtEnd
<1>3. Pending(Top) = {l}
  BY <1>1, <1>2, PendingOf
<1> HIDE DEF l
<1>4. /\ ir'.labels = ir.labels /\ LabelsOf(ir') = Append(LabelsOf(ir), l)
      /\ Branched(ir') = Branched(ir) \cup {l}
  BY <1>1, <1>2, ClosedAndOpened
<1> QED BY <1>1, <1>2, <1>3, <1>4, PopOpenStep

LEMMA EndLoopLabels ==
  ASSUME IInv, LInv, EndLoop
  PROVE  LInv'
<1> DEFINE bumped == Effect(ir, "bump", <<Top.reg>>, <<>>)
           b1 == IF Top.kind = "count" /\ ~isTerminated(ir) THEN bumped ELSE ir
           l  == Top.next
           j  == Top.join
<1>1. /\ Ending({"loop", "count"}) /\ ir' = OpenBlock(BranchIfOpen(b1, j), l)
      /\ frames' = Pop /\ frames # <<>> /\ Top.kind \in {"loop", "count"}
  BY DEF EndLoop, Ending
<1>2. /\ Ready(ir) /\ Top \in Frame /\ l \in Label /\ j \in Label /\ Top.reg \in Nat
  BY <1>1, AtEnd
<1>3. Ready(b1) /\ Grows(ir, b1, {})
  <2>1. "bump" \in Ops /\ "bump" \notin Terminators /\ <<>> \in Seq(Label)
    BY DEF Ops, Terminators
  <2>2. <<Top.reg>> \in Seq(Nat)
    <3> HIDE DEF Top
    <3> QED BY <1>2
  <2>3. Ready(bumped) /\ Grows(ir, bumped, Elements(<<>>))
    BY <1>2, <2>1, <2>2, EffectReady, EffectGrows
  <2>4. Elements(<<>>) = {}
    BY DEF Elements
  <2>5. Grows(ir, ir, {})
    BY DEF Grows, SameLabels
  <2> HIDE DEF bumped
  <2> QED BY <1>2, <2>3, <2>4, <2>5
<1> HIDE DEF b1
<1>4. Pending(Top) = {l}
  BY <1>1, <1>2, PendingOf
<1>5. j \in Seen(LabelsOf(ir))
  <2>1. frames \in Seq(Frame)
    BY Before
  <2>2. Len(frames) \in DOMAIN frames
    BY <1>1, <2>1, PoppedFrame
  <2> QED BY <1>1, <2>2 DEF LInv, Opened, Top
<1> HIDE DEF l, j
<1>6. /\ ir'.labels = b1.labels /\ LabelsOf(ir') = Append(LabelsOf(b1), l)
      /\ Branched(ir') = Branched(b1) \cup {j}
  BY <1>1, <1>2, <1>3, ClosedAndOpened
<1>7. /\ ir'.labels = ir.labels /\ LabelsOf(ir') = Append(LabelsOf(ir), l)
      /\ Branched(ir') \subseteq Branched(ir) \cup Seen(LabelsOf(ir)) \cup {l}
  BY <1>3, <1>5, <1>6 DEF Grows, SameLabels
<1> QED BY <1>1, <1>2, <1>4, <1>7, PopOpenStep

LEMMA EndFunctionLabels ==
  ASSUME IInv, LInv, EndFunction
  PROVE  LInv'
<1>1. Ready(ir) /\ frames' = frames /\ <<>> \in Seq(Nat)
  BY Before DEF EndFunction
<1>2. ir' = buildRet(ir, <<>>)
  BY <1>1, ReadyNotTerminated DEF EndFunction
<1>3. Grows(ir, ir', {})
  BY <1>1, <1>2, RetGrows
<1> QED BY <1>1, <1>3, StayStep

LEMMA UnchangedLabels ==
  ASSUME IInv, LInv, ir' = ir, frames' = frames
  PROVE  LInv'
<1>1. Grows(ir, ir', {})
  BY DEF Grows, SameLabels
<1> QED BY <1>1, StayStep

LEMMA EndArmLabels ==
  ASSUME IInv, LInv, NEW wild \in BOOLEAN, NEW last \in BOOLEAN, NEW scoped \in BOOLEAN,
         EndArm(wild, last, scoped)
  PROVE  LInv'
<1> DEFINE b1   == OpenBlock(BranchIfOpen(ir, Top.join), Top.next)
           arm  == Arm(b1, Top.reg, Top.join, wild, last)
           body == newLabel(b1, "match_arm", 0)
           e    == IF Top.scoped THEN Top.env ELSE env
           h    == IF Top.scoped THEN Top.here ELSE here
           kind == IF wild THEN "wild" ELSE "arm"
           f == [Top EXCEPT !.kind = kind, !.next = arm.next, !.env = e, !.here = h,
                            !.scoped = scoped, !.at = stmts, !.arms = @ + 1]
<1>1. /\ Ending({"arm"}) /\ ir' = arm.ir /\ frames' = Append(Pop, f)
      /\ frames # <<>> /\ Top.kind = "arm" /\ Top.next # Top.join
      /\ ArmAllowed(Top.arms + 1, wild, last)
  BY DEF EndArm, Ending
<1>2. /\ Ready(ir) /\ Top \in Frame /\ Top.next \in Label /\ Top.join \in Label
      /\ Top.reg \in Nat /\ ir.labels \in Nat
  BY <1>1, AtEnd, Before
<1>3. /\ Ready(b1) /\ b1.labels = ir.labels /\ LabelsOf(b1) = Append(LabelsOf(ir), Top.next)
      /\ Branched(b1) = Branched(ir) \cup {Top.join}
  BY <1>2, ClosedAndOpened
<1> HIDE DEF b1
<1>4. /\ arm.ir.labels \in Nat /\ ir.labels <= arm.ir.labels
      /\ body \in Label /\ Later(body, ir.labels, arm.ir.labels)
      /\ LabelsOf(arm.ir) = Append(LabelsOf(b1), body)
      /\ Branched(arm.ir) \subseteq Branched(b1) \cup {body, arm.next}
      /\ wild => Branched(arm.ir) \subseteq Branched(b1) \cup {body}
      /\ arm.next \in Label
      /\ last => arm.next = Top.join
      /\ ~last => Later(arm.next, ir.labels, arm.ir.labels) /\ arm.next # body
  <2>1. ArmOpened(b1, arm, body, Top.join, wild, last)
    BY <1>2, <1>3, ArmGrows
  <2> HIDE DEF arm, body
  <2> QED BY <1>2, <1>3, <2>1 DEF ArmOpened
<1> HIDE DEF arm, body
<1>5. e \in [Names -> Binding] /\ h \in SUBSET Names
  BY <1>2, NextScope
<1> HIDE DEF e, h
<1>6. /\ f \in Frame /\ f.kind = kind /\ f.next = arm.next /\ f.join = Top.join
  <2>1. stmts \in Nat /\ kind \in Kinds
    BY DEF IInv, Typed, Kinds
  <2> HIDE DEF Top, kind
  <2>2. f \in Frame
    BY <1>2, <1>4, <1>5, <2>1, ArmFrame
  <2>3. f.kind = kind /\ f.next = arm.next /\ f.join = Top.join
    BY <1>2 DEF Frame
  <2> QED BY <2>2, <2>3
<1> HIDE DEF f
<1>7. /\ Pending(Top) = {Top.next, Top.join}
      /\ wild => f.kind = "wild" /\ Pending(f) = {Top.join}
      /\ ~wild => f.kind = "arm" /\ Pending(f) = {arm.next, Top.join}
  <2>1. (wild => f.kind = "wild") /\ (~wild => f.kind = "arm")
    BY <1>6
  <2> HIDE DEF kind
  <2> QED BY <1>1, <1>2, <1>6, <2>1, PendingOf
<1>8. Top.join \in Pending(f) /\ f.kind \in {"arm", "wild"}
  BY <1>7
<1>9. \A p \in Pending(f) \ {Top.join} : Later(p, ir.labels, ir'.labels) /\ p # body
  BY <1>1, <1>4, <1>7
<1>10. "partial" \notin Lang /\ f.kind = "arm" => f.next # f.join
  <2> SUFFICES ASSUME "partial" \notin Lang, f.kind = "arm"
               PROVE  f.next # f.join
    OBVIOUS
  <2>1. ~wild
    BY <1>7
  <2>2. ~last
    BY <1>1, <2>1 DEF ArmAllowed
  <2>3. Distinct(LabelsOf(ir), ir.labels, frames)
    BY DEF LInv
  <2>4. Top.join \in Pending(frames[Len(frames)]) /\ Len(frames) \in DOMAIN frames
    BY <1>1, <1>7, Before, PoppedFrame DEF Top
  <2>5. Old(Top.join, ir.labels)
    BY <2>3, <2>4 DEF Distinct
  <2>6. ~Old(arm.next, ir.labels)
    <3>1. /\ Later(arm.next, ir.labels, arm.ir.labels) /\ arm.next \in Label
          /\ ir.labels \in Nat /\ arm.ir.labels \in Nat
      BY <1>2, <1>4, <2>2
    <3> QED BY <2>3, <3>1, LaterFree
  <2> QED BY <1>6, <2>5, <2>6
<1>11. LabelsOf(ir') = Append(Append(LabelsOf(ir), Top.next), body)
  BY <1>1, <1>3, <1>4
<1>12. Branched(ir') \subseteq Branched(ir) \cup {Top.join, body} \cup Pending(f)
  BY <1>1, <1>3, <1>4, <1>7
<1>13. /\ ir'.labels \in Nat /\ ir.labels <= ir'.labels
       /\ Later(body, ir.labels, ir'.labels) /\ body \in Label
  BY <1>1, <1>4
<1> HIDE DEF kind
<1> QED BY <1>1, <1>2, <1>6, <1>7, <1>8, <1>9, <1>10, <1>11, <1>12, <1>13, NextArmStep

LEMMA EndMatchLabels ==
  ASSUME IInv, LInv, EndMatch
  PROVE  LInv'
<1> DEFINE l  == Top.join
           b1 == BranchIfOpen(ir, l)
           b2 == IF Top.kind = "wild" THEN b1 ELSE OpenBlock(b1, Top.next)
<1>1. /\ Ending({"arm", "wild"}) /\ ir' = OpenBlock(BranchIfOpen(b2, l), l)
      /\ frames' = Pop /\ frames # <<>> /\ Top.kind \in {"arm", "wild"}
      /\ Top.kind = "arm" => Top.next = l
  BY DEF EndMatch, Ending
<1>2. Ready(ir) /\ Top \in Frame /\ l \in Label
  BY <1>1, AtEnd
<1>3. Pending(Top) = {l}
  BY <1>1, <1>2, PendingOf
<1>4. CASE Top.kind = "wild"
  <2>1. Shut(b1)
    BY <1>2, BranchIfOpenGrows
  <2>2. BranchIfOpen(b1, l) = b1
    <3> HIDE DEF b1
    <3> QED BY <2>1, ShutTerminated DEF BranchIfOpen
  <2>3. ir' = OpenBlock(b1, l)
    BY <1>1, <1>4, <2>2
  <2>4. /\ ir'.labels = ir.labels /\ LabelsOf(ir') = Append(LabelsOf(ir), l)
        /\ Branched(ir') = Branched(ir) \cup {l}
    BY <1>2, <2>3, ClosedAndOpened
  <2> HIDE DEF l
  <2> QED BY <1>1, <1>2, <1>3, <2>4, PopOpenStep
<1>5. CASE Top.kind = "arm"
  <2> DEFINE b == OpenBlock(b1, l)
  <2>1. ir' = OpenBlock(BranchIfOpen(b, l), l)
    BY <1>1, <1>5
  <2>2. /\ Ready(b) /\ b.labels = ir.labels /\ LabelsOf(b) = Append(LabelsOf(ir), l)
        /\ Branched(b) = Branched(ir) \cup {l}
    BY <1>2, ClosedAndOpened
  <2> HIDE DEF b
  <2>3. /\ ir'.labels = b.labels /\ LabelsOf(ir') = Append(LabelsOf(b), l)
        /\ Branched(ir') = Branched(b) \cup {l}
    BY <1>2, <2>1, <2>2, ClosedAndOpened
  <2>4. "partial" \in Lang
    <3> SUFFICES ASSUME "partial" \notin Lang PROVE FALSE
      OBVIOUS
    <3>1. Len(frames) \in DOMAIN frames
      BY <1>1, Before, PoppedFrame
    <3> QED BY <1>1, <1>5, <3>1 DEF LInv, Distinct, Top
  <2>5. /\ LabelsOf(ir') = Append(Append(LabelsOf(ir), l), l)
        /\ Branched(ir') \subseteq Branched(ir) \cup {l}
    BY <2>2, <2>3
  <2> HIDE DEF l
  <2> QED BY <1>1, <1>2, <1>3, <2>4, <2>5, PopTwiceStep
<1> QED BY <1>1, <1>4, <1>5

-----------------------------------------------------------------------------
(***************************************************************************)
(* The invariant.                                                          *)
(***************************************************************************)
LEMMA EmptyBuilderLabels ==
  /\ Ready(EmptyBuilder) /\ LabelsOf(EmptyBuilder) = <<Entry>> /\ Branched(EmptyBuilder) = {}
<1>1. Entry \in Label
  BY DEF Entry, Label, Prefixes
<1>2. Ready(EmptyBuilder)
  BY <1>1 DEF EmptyBuilder, Ready, Wellformed, NoTerminator, Builder, Block, NoReg
<1>3. LabelsOf(EmptyBuilder) = <<Entry>>
  BY DEF EmptyBuilder, LabelsOf
<1>4. Branched(EmptyBuilder) = {}
  BY DEF EmptyBuilder, Branched, BranchTargets
<1> QED BY <1>2, <1>3, <1>4

LEMMA ParamGrows ==
  ASSUME NEW b, Ready(b)
  PROVE  Grows(b, Param(b), {})
<1> DEFINE b1 == buildAlloca(b)
           b2 == Value(b1, "param", <<>>)
<1>1. Ready(b1) /\ b1.val \in Nat /\ Grows(b, b1, {})
  BY AllocaGrows
<1> HIDE DEF b1
<1>2. Ready(b2) /\ b2.val \in Nat /\ Grows(b1, b2, {})
  <2>1. "param" \in Ops /\ "param" \notin Terminators /\ <<>> \in Seq(Nat)
    BY DEF Ops, Terminators
  <2> QED BY <1>1, <2>1, ValueGrows
<1> HIDE DEF b2
<1>3. Grows(b2, buildStore(b2, b2.val, b1.val), {})
  BY <1>1, <1>2, StoreGrows
<1>4. Param(b) = buildStore(b2, b2.val, b1.val)
  BY DEF Param, b1, b2
<1> QED BY <1>1, <1>2, <1>3, <1>4 DEF Grows, SameLabels

LEMMA InitLInv == Init => LInv
<1> SUFFICES ASSUME Init PROVE LInv
  OBVIOUS
<1>1. Grows(EmptyBuilder, ir, {}) /\ frames = <<>>
  <2>1. (ir = EmptyBuilder \/ ir = Param(EmptyBuilder)) /\ frames = <<>>
    BY DEF Init
  <2>2. Grows(EmptyBuilder, EmptyBuilder, {})
    BY DEF Grows, SameLabels
  <2> QED BY <2>1, <2>2, EmptyBuilderLabels, ParamGrows
<1>2. LabelsOf(ir) = <<Entry>> /\ Branched(ir) = {}
  BY <1>1, EmptyBuilderLabels DEF Grows, SameLabels
<1>3. Opened(Seen(LabelsOf(ir)), Branched(ir), frames)
  BY <1>1, <1>2 DEF Opened
<1>4. Distinct(LabelsOf(ir), ir.labels, frames)
  <2>1. \A l \in Seen(<<Entry>>) : l = Entry
    BY DEF Seen
  <2> QED BY <1>1, <1>2, <2>1 DEF Distinct, Old
<1> QED BY <1>3, <1>4 DEF LInv

LEMMA NextLInv == IInv /\ LInv /\ [Next]_vars => LInv'
<1> SUFFICES ASSUME IInv, LInv, [Next]_vars PROVE LInv'
  OBVIOUS
<1>1. ASSUME NEW x \in Names, NEW e \in Exprs \cup {None}, VisitVarDecl(x, e)
      PROVE  LInv'
  BY <1>1, VarDeclLabels
<1>2. CASE (\E e \in Exprs : VisitExprStmt(e)) \/ VisitExit
  BY <1>2, ExprStmtLabels
<1>3. ASSUME NEW x \in Names, NEW e \in Exprs, NEW compound \in BOOLEAN,
             VisitAssign(x, e, compound)
      PROVE  LInv'
  BY <1>3, AssignLabels
<1>4. ASSUME NEW e \in Exprs \cup {None}, VisitReturn(e)
      PROVE  LInv'
  BY <1>4, ReturnLabels
<1>5. CASE VisitBreak \/ VisitContinue
  BY <1>5, UnchangedLabels DEF VisitBreak, VisitContinue, irVars
<1>6. CASE VisitBlock
  BY <1>6, BlockLabelsStep
<1>7. ASSUME NEW e \in Exprs, NEW hasElse \in BOOLEAN, NEW scoped \in BOOLEAN,
             VisitIf(e, hasElse, scoped)
      PROVE  LInv'
  BY <1>7, IfLabels
<1>8. ASSUME NEW e \in Exprs, NEW kind \in {"while", "vloop"}, VisitLoop(e, kind)
      PROVE  LInv'
  BY <1>8, LoopLabels
<1>9. CASE VisitCountedVloop
  BY <1>9, CountLabels
<1>10. ASSUME NEW x \in Names, NEW e \in Exprs, VisitFor(x, e)
       PROVE  LInv'
  BY <1>10, ForLabels
<1>11. ASSUME NEW e \in Exprs, NEW wild \in BOOLEAN, NEW last \in BOOLEAN,
              NEW scoped \in BOOLEAN, VisitMatch(e, wild, last, scoped)
       PROVE  LInv'
  BY <1>11, MatchLabels
<1>12. ASSUME NEW e \in Exprs, VisitEmptyMatch(e)
       PROVE  LInv'
  BY <1>12, EmptyMatchLabels
<1>13. CASE EndBlock
  BY <1>13, EndBlockLabels
<1>14. ASSUME NEW scoped \in BOOLEAN, EndThen(scoped)
       PROVE  LInv'
  BY <1>14, EndThenLabels
<1>15. CASE EndIf
  BY <1>15, EndIfLabels
<1>16. CASE EndLoop
  BY <1>16, EndLoopLabels
<1>17. ASSUME NEW wild \in BOOLEAN, NEW last \in BOOLEAN, NEW scoped \in BOOLEAN,
              EndArm(wild, last, scoped)
       PROVE  LInv'
  BY <1>17, EndArmLabels
<1>18. CASE EndMatch
  BY <1>18, EndMatchLabels
<1>19. CASE EndFunction
  BY <1>19, EndFunctionLabels
<1>20. CASE UNCHANGED vars
  BY <1>20, UnchangedLabels DEF vars
<1> QED
  BY <1>1, <1>2, <1>3, <1>4, <1>5, <1>6, <1>7, <1>8, <1>9, <1>10, <1>11, <1>12,
     <1>13, <1>14, <1>15, <1>16, <1>17, <1>18, <1>19, <1>20
     DEF Next, Finished

LEMMA LabelsInvariant == Spec => [](IInv /\ LInv)
BY InitIInv, NextIInv, InitLInv, NextLInv, PTL DEF Spec

\* Every label a branch names is the label of a block, or of one that a
\* suspended visitor still opens, however statements are nested: the blocks
\* that FunctionLowering::emit looks up with blocks.at exist when IRGen is
\* done with the function.
THEOREM EveryTargetOpens == Spec => []TargetsOpened
<1>1. IInv /\ LInv => TargetsOpened
  <2> SUFFICES ASSUME IInv, LInv PROVE TargetsOpened
    OBVIOUS
  <2>1. Branched(ir) \subseteq Seen(LabelsOf(ir)) \cup Claimed(frames)
    BY DEF LInv, Opened
  <2>2. Seen(LabelsOf(ir)) = BlockLabels
    <3>1. ir.blocks \in Seq(Block)
      BY LastBlock DEF IInv, Discipline, Ready, Shut
    <3>2. LabelsOf(ir) = [k \in DOMAIN ir.blocks |-> ir.blocks[k].label]
      BY <3>1 DEF LabelsOf
    <3>3. \A k \in DOMAIN ir.blocks : LabelsOf(ir)[k] = ir.blocks[k].label
      BY <3>2
    <3>4. DOMAIN LabelsOf(ir) = DOMAIN ir.blocks
      BY <3>2
    <3> QED BY <3>3, <3>4 DEF Seen, BlockLabels
  <2> QED BY <2>1, <2>2 DEF Branched, Claimed, TargetsOpened
<1> QED BY <1>1, LabelsInvariant, PTL

\* No two blocks of a function have the same label, although the labels of
\* pending blocks wait in suspended visitors while the statements between
\* issue labels of their own: for every function whose matches end in a
\* wildcard arm.  Without one, visit(MatchStmt) adds the exit block twice.
THEOREM EveryLabelUnique == "partial" \notin Lang => (Spec => []LabelsUnique)
<1>1. "partial" \notin Lang /\ IInv /\ LInv => LabelsUnique
  <2> SUFFICES ASSUME "partial" \notin Lang, IInv, LInv PROVE LabelsUnique
    OBVIOUS
  <2>1. ir.blocks \in Seq(Block)
    BY LastBlock DEF IInv, Discipline, Ready, Shut
  <2>2. \A j, k \in DOMAIN LabelsOf(ir) : LabelsOf(ir)[j] = LabelsOf(ir)[k] => j = k
    BY DEF LInv, Distinct
  <2>3. LabelsOf(ir) = [k \in DOMAIN ir.blocks |-> ir.blocks[k].label]
    BY <2>1 DEF LabelsOf
  <2>4. /\ \A k \in DOMAIN ir.blocks : LabelsOf(ir)[k] = ir.blocks[k].label
        /\ DOMAIN LabelsOf(ir) = DOMAIN ir.blocks
    BY <2>3
  <2> QED BY <2>2, <2>4 DEF LabelsUnique
<1>2. ASSUME "partial" \notin Lang PROVE Spec => []LabelsUnique
  <2>1. IInv /\ LInv => LabelsUnique
    BY <1>1, <1>2
  <2> QED BY <2>1, LabelsInvariant, PTL
<1> QED BY <1>2
-----------------------------------------------------------------------------
(***************************************************************************)
(* Where control goes between blocks, while the function is being built.   *)
(* OpenTo(b, fs, i) are the blocks that whatever follows comes behind, as  *)
(* long as the first i visitors of fs are suspended: no branch from before *)
(* such a block leads past it, but to a label that one of these visitors   *)
(* keeps.  When visitor i resumes, the blocks from d up to the one it      *)
(* leaves are Sealed: control enters them through d alone, for good.       *)
(***************************************************************************)
UpTo(b, d) == {b.blocks[k].label : k \in 1 .. d}
LoopKinds == {"loop", "count"}
PendingTo(fs, i) == UNION {Pending(fs[m]) : m \in 1 .. i}
Back(fs, i) == {fs[m].join : m \in {n \in 1 .. i : fs[n].kind \in LoopKinds}}
OpenAt(b, fs, d, i) ==
  /\ \A j \in 1 .. d - 1 : BranchTargets(b.blocks[j]) \subseteq UpTo(b, d) \cup PendingTo(fs, i)
  /\ Back(fs, i) \subseteq UpTo(b, d)
OpenTo(b, fs, i) == {d \in 1 .. Len(b.blocks) : \E m \in 0 .. i : OpenAt(b, fs, d, m)}

\* The labels that branches still to come may name.
Fresh(n) == {l \in Label : l[1] # "entry" /\ n <= l[2]}
Known(fs, i) == PendingTo(fs, i) \cup Back(fs, i)

Sealed(b, d, e, K) ==
  \A m \in d + 1 .. e :
    /\ b.blocks[m].label \notin K
    /\ \A j \in 1 .. Len(b.blocks) : j \notin d .. e =>
         b.blocks[m].label \notin BranchTargets(b.blocks[j])

\* Every register is used behind its definition in its block, or behind the
\* block that defines it, which is open (in O) or sealed.
Served(b, O, K, k, a) ==
  \E d \in 1 .. k - 1 : /\ a \in Defines(b.blocks[d])
                        /\ d \in O \/ \E e \in k .. Len(b.blocks) - 1 : Sealed(b, d, e, K)
Uses(b, O, K) ==
  \A k \in 1 .. Len(b.blocks) : \A i \in 1 .. Len(b.blocks[k].instrs) :
    \A a \in Args(b.blocks[k].instrs[i]) \ {NoReg} :
      (\E j \in 1 .. i - 1 : b.blocks[k].instrs[j].dest = a) \/ Served(b, O, K, k, a)

\* The registers that the next instruction may use.
Avail(b, O) == {r \in UNION {Defines(b.blocks[d]) : d \in O} : r # NoReg}
Holds(b, O) == {NoReg} \cup Defines(b.blocks[Len(b.blocks)]) \cup Avail(b, O)

\* c has the blocks of b, but for what has been added at their end.
Ext(b, c) ==
  /\ Len(b.blocks) <= Len(c.blocks)
  /\ \A k \in 1 .. Len(b.blocks) - 1 : c.blocks[k] = b.blocks[k]
  /\ \A k \in 1 .. Len(b.blocks) :
       /\ c.blocks[k].label = b.blocks[k].label
       /\ Len(b.blocks[k].instrs) <= Len(c.blocks[k].instrs)
       /\ \A i \in 1 .. Len(b.blocks[k].instrs) : c.blocks[k].instrs[i] = b.blocks[k].instrs[i]

LEMMA BlocksOf ==
  ASSUME NEW b, Wellformed(b)
  PROVE  /\ b \in Builder /\ b.blocks \in Seq(Block) /\ Len(b.blocks) \in Nat \ {0}
         /\ DOMAIN b.blocks = 1 .. Len(b.blocks)
         /\ \A k \in 1 .. Len(b.blocks) :
              /\ b.blocks[k] \in Block /\ b.blocks[k].label \in Label
              /\ b.blocks[k].instrs \in Seq(Instr) /\ Len(b.blocks[k].instrs) \in Nat
              /\ DOMAIN b.blocks[k].instrs = 1 .. Len(b.blocks[k].instrs)
              /\ \A i \in 1 .. Len(b.blocks[k].instrs) : b.blocks[k].instrs[i] \in Instr
<1>1. /\ b \in Builder /\ b.blocks \in Seq(Block) /\ Len(b.blocks) \in Nat \ {0}
      /\ DOMAIN b.blocks = 1 .. Len(b.blocks)
  BY LastBlock
<1>2. ASSUME NEW k \in 1 .. Len(b.blocks)
      PROVE  /\ b.blocks[k] \in Block /\ b.blocks[k].label \in Label
             /\ b.blocks[k].instrs \in Seq(Instr)
  <2>1. b.blocks[k] \in Block
    BY <1>1
  <2> QED BY <2>1 DEF Block
<1> QED BY <1>1, <1>2

LEMMA ExtRefl ==
  ASSUME NEW b, Wellformed(b)
  PROVE  Ext(b, b)
BY BlocksOf DEF Ext

LEMMA ExtTrans ==
  ASSUME NEW a, NEW b, NEW c, Wellformed(a), Wellformed(b), Wellformed(c), Ext(a, b), Ext(b, c)
  PROVE  Ext(a, c)
<1>1. /\ Len(a.blocks) \in Nat \ {0} /\ Len(b.blocks) \in Nat /\ Len(c.blocks) \in Nat
      /\ Len(a.blocks) <= Len(b.blocks) /\ Len(b.blocks) <= Len(c.blocks)
  BY BlocksOf DEF Ext
<1>2. /\ \A k \in 1 .. Len(a.blocks) - 1 : k \in 1 .. Len(b.blocks) - 1
      /\ \A k \in 1 .. Len(a.blocks) : k \in 1 .. Len(b.blocks) /\ k \in 1 .. Len(c.blocks)
  BY <1>1
<1>3. ASSUME NEW k \in 1 .. Len(a.blocks)
      PROVE  /\ c.blocks[k].label = a.blocks[k].label
             /\ Len(a.blocks[k].instrs) <= Len(c.blocks[k].instrs)
             /\ \A i \in 1 .. Len(a.blocks[k].instrs) : c.blocks[k].instrs[i] = a.blocks[k].instrs[i]
  <2>1. /\ Len(a.blocks[k].instrs) \in Nat /\ Len(b.blocks[k].instrs) \in Nat
        /\ Len(c.blocks[k].instrs) \in Nat
    BY <1>2, BlocksOf
  <2>2. /\ Len(a.blocks[k].instrs) <= Len(b.blocks[k].instrs)
        /\ Len(b.blocks[k].instrs) <= Len(c.blocks[k].instrs)
    BY <1>2 DEF Ext
  <2>3. \A i \in 1 .. Len(a.blocks[k].instrs) : i \in 1 .. Len(b.blocks[k].instrs)
    BY <2>1, <2>2
  <2>4. \A i \in 1 .. Len(a.blocks[k].instrs) : c.blocks[k].instrs[i] = a.blocks[k].instrs[i]
    BY <1>2, <2>3 DEF Ext
  <2>5. c.blocks[k].label = b.blocks[k].label /\ b.blocks[k].label = a.blocks[k].label
    BY <1>2 DEF Ext
  <2>6. Len(a.blocks[k].instrs) <= Len(c.blocks[k].instrs)
    <3>1. \A x, y, z \in Nat : x <= y /\ y <= z => x <= z
      OBVIOUS
    <3> QED BY <2>1, <2>2, <3>1, Zenon
  <2> QED BY <2>4, <2>5, <2>6, Zenon
<1>4. \A k \in 1 .. Len(a.blocks) - 1 : c.blocks[k] = a.blocks[k]
  BY <1>2 DEF Ext
<1> QED BY <1>1, <1>3, <1>4 DEF Ext

LEMMA ExtDefines ==
  ASSUME NEW b, NEW c, Wellformed(b), Wellformed(c), Ext(b, c), NEW k \in 1 .. Len(b.blocks)
  PROVE  Defines(b.blocks[k]) \subseteq Defines(c.blocks[k])
<1>1. k \in 1 .. Len(c.blocks)
  BY BlocksOf DEF Ext
<1>2. /\ Len(b.blocks[k].instrs) \in Nat /\ Len(c.blocks[k].instrs) \in Nat
      /\ DOMAIN b.blocks[k].instrs = 1 .. Len(b.blocks[k].instrs)
      /\ DOMAIN c.blocks[k].instrs = 1 .. Len(c.blocks[k].instrs)
      /\ Len(b.blocks[k].instrs) <= Len(c.blocks[k].instrs)
      /\ \A i \in 1 .. Len(b.blocks[k].instrs) : c.blocks[k].instrs[i] = b.blocks[k].instrs[i]
  BY <1>1, BlocksOf DEF Ext
<1>3. \A i \in 1 .. Len(b.blocks[k].instrs) : i \in 1 .. Len(c.blocks[k].instrs)
  BY <1>2
<1> QED BY <1>2, <1>3 DEF Defines

LEMMA ExtAvail ==
  ASSUME NEW b, NEW c, Wellformed(b), Wellformed(c), Ext(b, c),
         NEW O, O \subseteq 1 .. Len(b.blocks), NEW P, O \subseteq P
  PROVE  Avail(b, O) \subseteq Avail(c, P)
<1>1. ASSUME NEW d \in O PROVE Defines(b.blocks[d]) \subseteq Defines(c.blocks[d]) /\ d \in P
  <2>1. d \in 1 .. Len(b.blocks) /\ d \in P
    BY <1>1, Zenon
  <2> QED BY <2>1, ExtDefines
<1>2. ASSUME NEW r \in Avail(b, O) PROVE r \in Avail(c, P)
  <2>1. PICK d \in O : r \in Defines(b.blocks[d]) /\ r # NoReg
    BY <1>2 DEF Avail
  <2>2. d \in P /\ r \in Defines(c.blocks[d])
    BY <1>1, <2>1
  <2> QED BY <2>1, <2>2 DEF Avail
<1> QED BY <1>2

-----------------------------------------------------------------------------
(***************************************************************************)
(* What the builder's operations do to the uses: Doing(a, b, O, K) says    *)
(* that b has been made from a and its uses are in order.                  *)
(***************************************************************************)
Doing(a, b, O, K) ==
  /\ Wellformed(a) /\ O \subseteq 1 .. Len(a.blocks) /\ Ext(a, b) /\ Uses(b, O, K)

LEMMA EmitExt ==
  ASSUME NEW b, Wellformed(b), NEW instr \in Instr
  PROVE  LET c == Emit(b, instr)
             n == Len(b.blocks)
         IN  /\ Ext(b, c) /\ Len(c.blocks) = n
             /\ c.blocks[n].instrs = Append(b.blocks[n].instrs, instr)
             /\ Defines(c.blocks[n]) = Defines(b.blocks[n]) \cup {instr.dest}
             /\ BranchTargets(c.blocks[n]) = BranchTargets(b.blocks[n]) \cup Elements(instr.to)
<1> DEFINE c == Emit(b, instr)
           n == Len(b.blocks)
           code == b.blocks[n].instrs
           new == Append(code, instr)
<1>1. /\ n \in Nat \ {0} /\ code \in Seq(Instr) /\ Len(c.blocks) = n
      /\ \A k \in 1 .. n - 1 : c.blocks[k] = b.blocks[k]
      /\ c.blocks[n].label = b.blocks[n].label
      /\ c.blocks[n].instrs = new
  BY LastBlock, EmitShape
<1>2. /\ DOMAIN new = 1 .. Len(code) + 1 /\ DOMAIN code = 1 .. Len(code)
      /\ Len(code) \in Nat /\ \A i \in 1 .. Len(code) : new[i] = code[i]
      /\ new[Len(code) + 1] = instr /\ Len(new) = Len(code) + 1
  BY <1>1
<1> HIDE DEF c, new, code
<1>3. /\ \A i \in DOMAIN new : (i \in DOMAIN code /\ new[i] = code[i]) \/ new[i] = instr
      /\ \A i \in DOMAIN code : i \in DOMAIN new /\ new[i] = code[i]
      /\ Len(code) + 1 \in DOMAIN new
  BY <1>2
<1>4. c.blocks[n].instrs = new /\ b.blocks[n].instrs = code
  BY <1>1 DEF code
<1>5. {new[i].dest : i \in DOMAIN new} = {code[i].dest : i \in DOMAIN code} \cup {instr.dest}
  BY <1>2, <1>3
<1>6. UNION {Elements(new[i].to) : i \in DOMAIN new}
        = (UNION {Elements(code[i].to) : i \in DOMAIN code}) \cup Elements(instr.to)
  BY <1>2, <1>3
<1>7. \A blk : BranchTargets(blk) = UNION {Elements(blk.instrs[i].to) : i \in DOMAIN blk.instrs}
  BY Zenon DEF BranchTargets, Elements
<1>8. Ext(b, c)
  <2>1. ASSUME NEW k \in 1 .. n
        PROVE  /\ c.blocks[k].label = b.blocks[k].label
               /\ Len(b.blocks[k].instrs) <= Len(c.blocks[k].instrs)
               /\ \A i \in 1 .. Len(b.blocks[k].instrs) :
                    c.blocks[k].instrs[i] = b.blocks[k].instrs[i]
    <3>1. CASE k = n
      BY <1>1, <1>2, <1>4, <3>1
    <3>2. CASE k # n
      <4>1. k \in 1 .. n - 1
        BY <1>1, <3>2
      <4>2. Len(b.blocks[k].instrs) \in Nat
        BY BlocksOf
      <4> QED BY <1>1, <4>1, <4>2
    <3> QED BY <3>1, <3>2
  <2> QED BY <1>1, <2>1 DEF Ext
<1>9. Defines(c.blocks[n]) = Defines(b.blocks[n]) \cup {instr.dest}
  BY <1>4, <1>5, Zenon DEF Defines
<1>10. BranchTargets(c.blocks[n]) = BranchTargets(b.blocks[n]) \cup Elements(instr.to)
  BY <1>4, <1>6, <1>7, Zenon
<1> HIDE DEF n
<1> QED BY <1>1, <1>4, <1>8, <1>9, <1>10 DEF c, n, new, code

\* What is sealed stays so while branches name labels of K alone.
LEMMA SealedStays ==
  ASSUME NEW b, NEW c, Wellformed(b), Wellformed(c), Ext(b, c),
         NEW K, NEW d \in Nat, NEW e \in 1 .. Len(b.blocks), Sealed(b, d, e, K),
         \A j \in 1 .. Len(c.blocks) :
           BranchTargets(c.blocks[j])
             \subseteq K \cup (IF j <= Len(b.blocks) THEN BranchTargets(b.blocks[j]) ELSE {})
  PROVE  Sealed(c, d, e, K)
<1>1. Len(b.blocks) \in Nat /\ Len(c.blocks) \in Nat /\ Len(b.blocks) <= Len(c.blocks)
  BY BlocksOf DEF Ext
<1>2. SUFFICES ASSUME NEW m \in d + 1 .. e
               PROVE  /\ c.blocks[m].label \notin K
                      /\ \A j \in 1 .. Len(c.blocks) : j \notin d .. e =>
                           c.blocks[m].label \notin BranchTargets(c.blocks[j])
  BY DEF Sealed
<1>3. m \in 1 .. Len(b.blocks)
  BY <1>1
<1>4. c.blocks[m].label = b.blocks[m].label
  BY <1>3 DEF Ext
<1>5. b.blocks[m].label \notin K
  BY DEF Sealed
<1>6. \A j \in 1 .. Len(b.blocks) : j \notin d .. e =>
        b.blocks[m].label \notin BranchTargets(b.blocks[j])
  BY DEF Sealed
<1>7. ASSUME NEW j \in 1 .. Len(c.blocks), j \notin d .. e
      PROVE  b.blocks[m].label \notin BranchTargets(c.blocks[j])
  <2>1. CASE j <= Len(b.blocks)
    <3>1. j \in 1 .. Len(b.blocks)
      BY <1>1, <2>1
    <3> QED BY <1>5, <1>6, <1>7, <2>1, <3>1
  <2>2. CASE ~(j <= Len(b.blocks))
    BY <1>5, <2>2
  <2> QED BY <2>1, <2>2
<1> QED BY <1>4, <1>5, <1>7

LEMMA ServedStays ==
  ASSUME NEW b, NEW c, Wellformed(b), Wellformed(c), Ext(b, c), NEW O, NEW K,
         NEW k \in 1 .. Len(b.blocks), NEW a, Served(b, O, K, k, a),
         \A j \in 1 .. Len(c.blocks) :
           BranchTargets(c.blocks[j])
             \subseteq K \cup (IF j <= Len(b.blocks) THEN BranchTargets(b.blocks[j]) ELSE {})
  PROVE  Served(c, O, K, k, a)
<1>1. Len(b.blocks) \in Nat \ {0} /\ Len(c.blocks) \in Nat /\ Len(b.blocks) <= Len(c.blocks)
  BY BlocksOf DEF Ext
<1>2. PICK d \in 1 .. k - 1 :
        /\ a \in Defines(b.blocks[d])
        /\ d \in O \/ \E e \in k .. Len(b.blocks) - 1 : Sealed(b, d, e, K)
  BY DEF Served
<1>3. d \in 1 .. Len(b.blocks) /\ d \in Nat
  BY <1>1
<1>4. a \in Defines(c.blocks[d])
  BY <1>2, <1>3, ExtDefines
<1>5. ASSUME NEW e \in k .. Len(b.blocks) - 1, Sealed(b, d, e, K)
      PROVE  e \in k .. Len(c.blocks) - 1 /\ Sealed(c, d, e, K)
  <2>1. e \in 1 .. Len(b.blocks) /\ e \in k .. Len(c.blocks) - 1
    BY <1>1
  <2> QED BY <1>3, <1>5, <2>1, SealedStays
<1> QED BY <1>2, <1>4, <1>5 DEF Served

LEMMA UsesStay ==
  ASSUME NEW b, NEW c, Wellformed(b), Wellformed(c), Ext(b, c), NEW O, NEW K, Uses(b, O, K),
         \A j \in 1 .. Len(c.blocks) :
           BranchTargets(c.blocks[j])
             \subseteq K \cup (IF j <= Len(b.blocks) THEN BranchTargets(b.blocks[j]) ELSE {}),
         \A k \in 1 .. Len(c.blocks) : \A i \in 1 .. Len(c.blocks[k].instrs) :
           \/ k \in 1 .. Len(b.blocks) /\ i \in 1 .. Len(b.blocks[k].instrs)
           \/ \A r \in Args(c.blocks[k].instrs[i]) \ {NoReg} :
                \/ \E j \in 1 .. i - 1 : c.blocks[k].instrs[j].dest = r
                \/ Served(c, O, K, k, r)
  PROVE  Uses(c, O, K)
<1> SUFFICES ASSUME NEW k \in 1 .. Len(c.blocks), NEW i \in 1 .. Len(c.blocks[k].instrs),
                    NEW r \in Args(c.blocks[k].instrs[i]) \ {NoReg}
             PROVE  \/ \E j \in 1 .. i - 1 : c.blocks[k].instrs[j].dest = r
                    \/ Served(c, O, K, k, r)
  BY DEF Uses
<1>1. CASE k \in 1 .. Len(b.blocks) /\ i \in 1 .. Len(b.blocks[k].instrs)
  <2>1. /\ c.blocks[k].instrs[i] = b.blocks[k].instrs[i]
        /\ \A j \in 1 .. Len(b.blocks[k].instrs) : c.blocks[k].instrs[j] = b.blocks[k].instrs[j]
    BY <1>1 DEF Ext
  <2>2. Len(b.blocks[k].instrs) \in Nat
    BY <1>1, BlocksOf
  <2>3. \A j \in 1 .. i - 1 : j \in 1 .. Len(b.blocks[k].instrs)
    BY <1>1, <2>2
  <2>4. \/ \E j \in 1 .. i - 1 : b.blocks[k].instrs[j].dest = r
        \/ Served(b, O, K, k, r)
    BY <1>1, <2>1 DEF Uses
  <2>5. Served(b, O, K, k, r) => Served(c, O, K, k, r)
    BY <1>1, ServedStays
  <2> QED BY <2>1, <2>3, <2>4, <2>5
<1> QED BY <1>1

\* More blocks are open, and fewer labels are known.
LEMMA UsesWiden ==
  ASSUME NEW b, Wellformed(b), NEW O, NEW P, NEW K, NEW J, Uses(b, O, K), O \subseteq P, J \subseteq K
  PROVE  Uses(b, P, J)
<1>1. ASSUME NEW d, NEW e, Sealed(b, d, e, K) PROVE Sealed(b, d, e, J)
  BY <1>1 DEF Sealed
<1>2. ASSUME NEW k, NEW r, Served(b, O, K, k, r) PROVE Served(b, P, J, k, r)
  BY <1>1, <1>2 DEF Served
<1> QED BY <1>2 DEF Uses

\* op has been emitted with this result and these operands.
Has(b, op, dest, args) ==
  \E k \in 1 .. Len(b.blocks) : \E i \in 1 .. Len(b.blocks[k].instrs) :
    LET instr == b.blocks[k].instrs[i]
    IN  instr.op = op /\ instr.dest = dest /\ instr.args = args

LEMMA ExtHas ==
  ASSUME NEW b, NEW c, Wellformed(b), Wellformed(c), Ext(b, c),
         NEW op, NEW dest, NEW args, Has(b, op, dest, args)
  PROVE  Has(c, op, dest, args)
<1> DEFINE It(instr) == instr.op = op /\ instr.dest = dest /\ instr.args = args
<1>0. PICK k \in 1 .. Len(b.blocks) : \E i \in 1 .. Len(b.blocks[k].instrs) : It(b.blocks[k].instrs[i])
  BY DEF Has
<1>1. PICK i \in 1 .. Len(b.blocks[k].instrs) : It(b.blocks[k].instrs[i])
  BY <1>0
<1>2. k \in 1 .. Len(c.blocks) /\ Len(b.blocks[k].instrs) <= Len(c.blocks[k].instrs)
      /\ c.blocks[k].instrs[i] = b.blocks[k].instrs[i]
  BY BlocksOf DEF Ext
<1>3. Len(b.blocks[k].instrs) \in Nat /\ Len(c.blocks[k].instrs) \in Nat
  BY <1>2, BlocksOf
<1>4. i \in 1 .. Len(c.blocks[k].instrs)
  BY <1>2, <1>3
<1> QED BY <1>1, <1>2, <1>4 DEF Has

LEMMA EmitUses ==
  ASSUME NEW a, NEW b, Wellformed(b), NEW O, NEW K, Doing(a, b, O, K), NEW instr \in Instr,
         Wellformed(Emit(b, instr)), Elements(instr.args) \subseteq Holds(b, O),
         Elements(instr.to) \subseteq K
  PROVE  LET c == Emit(b, instr)
         IN  /\ Doing(a, c, O, K) /\ Holds(b, O) \subseteq Holds(c, O)
             /\ Len(c.blocks) = Len(b.blocks)
             /\ instr.dest \in Defines(c.blocks[Len(c.blocks)])
             /\ Has(c, instr.op, instr.dest, instr.args)
<1> DEFINE c == Emit(b, instr)
           n == Len(b.blocks)
           s == b.blocks[n].instrs
<1>1. /\ Ext(b, c) /\ Len(c.blocks) = n /\ c.blocks[n].instrs = Append(s, instr)
      /\ Defines(c.blocks[n]) = Defines(b.blocks[n]) \cup {instr.dest}
      /\ BranchTargets(c.blocks[n]) = BranchTargets(b.blocks[n]) \cup Elements(instr.to)
  BY EmitExt
<1>2. Wellformed(c)
  OBVIOUS
<1> HIDE DEF c
<1>3. /\ n \in Nat \ {0} /\ s \in Seq(Instr) /\ Len(s) \in Nat /\ DOMAIN s = 1 .. Len(s)
      /\ n \in 1 .. n
  BY BlocksOf
<1>4. /\ Len(c.blocks[n].instrs) = Len(s) + 1
      /\ \A i \in 1 .. Len(s) : c.blocks[n].instrs[i] = s[i]
      /\ c.blocks[n].instrs[Len(s) + 1] = instr
  BY <1>1, <1>3
<1>5. Wellformed(a) /\ O \subseteq 1 .. Len(a.blocks) /\ Ext(a, b) /\ Uses(b, O, K)
  BY DEF Doing
<1>6. Ext(a, c) /\ O \subseteq 1 .. n
  <2>1. Ext(a, c)
    BY <1>1, <1>2, <1>5, ExtTrans
  <2>2. Len(a.blocks) \in Nat /\ Len(a.blocks) <= n
    BY <1>5, BlocksOf DEF Ext
  <2> QED BY <1>3, <1>5, <2>1, <2>2
<1>7. Holds(b, O) \subseteq Holds(c, O)
  <2>1. Avail(b, O) \subseteq Avail(c, O)
    BY <1>1, <1>2, <1>6, ExtAvail
  <2> HIDE DEF n
  <2> QED BY <1>1, <2>1 DEF Holds, n
<1>8. \A j \in 1 .. n : BranchTargets(c.blocks[j]) \subseteq K \cup BranchTargets(b.blocks[j])
  <2> SUFFICES ASSUME NEW j \in 1 .. n
               PROVE  BranchTargets(c.blocks[j]) \subseteq K \cup BranchTargets(b.blocks[j])
    OBVIOUS
  <2>1. CASE j = n
    BY <1>1, <2>1
  <2>2. CASE j # n
    <3>1. j \in 1 .. n - 1
      BY <1>3, <2>2
    <3>2. c.blocks[j] = b.blocks[j]
      BY <1>1, <3>1 DEF Ext
    <3> QED BY <3>2
  <2> QED BY <2>1, <2>2
<1>9. ASSUME NEW k \in 1 .. n, NEW i \in 1 .. Len(c.blocks[k].instrs),
             ~(i \in 1 .. Len(b.blocks[k].instrs)),
             NEW r \in Args(c.blocks[k].instrs[i]) \ {NoReg}
      PROVE  \/ \E j \in 1 .. i - 1 : c.blocks[k].instrs[j].dest = r
             \/ Served(c, O, K, k, r)
  <2>1. k = n
    <3> SUFFICES ASSUME k # n PROVE FALSE
      OBVIOUS
    <3>1. k \in 1 .. n - 1
      BY <1>3
    <3>2. c.blocks[k] = b.blocks[k]
      BY <1>1, <3>1 DEF Ext
    <3> QED BY <1>9, <3>2
  <2>2. i = Len(s) + 1
    BY <1>3, <1>4, <1>9, <2>1
  <2>3. r \in Elements(instr.args) /\ r # NoReg
    BY <1>4, <2>1, <2>2 DEF Args, Elements
  <2>4. r \in Defines(b.blocks[n]) \/ r \in Avail(b, O)
    BY <2>3 DEF Holds
  <2>5. ASSUME r \in Defines(b.blocks[n])
        PROVE  \E j \in 1 .. i - 1 : c.blocks[k].instrs[j].dest = r
    <3>1. PICK j \in 1 .. Len(s) : s[j].dest = r
      BY <1>3, <2>5 DEF Defines
    <3>2. j \in 1 .. i - 1
      BY <1>3, <2>2
    <3> QED BY <1>4, <2>1, <3>1, <3>2
  <2>6. ASSUME r \in Avail(b, O), r \notin Defines(b.blocks[n])
        PROVE  Served(c, O, K, k, r)
    <3>1. PICK d \in O : r \in Defines(b.blocks[d])
      BY <2>6 DEF Avail
    <3>2. d \in 1 .. n /\ d # n
      BY <1>6, <2>6, <3>1
    <3>3. d \in 1 .. k - 1
      BY <1>3, <2>1, <3>2
    <3>4. r \in Defines(c.blocks[d])
      BY <1>1, <1>2, <3>1, <3>2, ExtDefines
    <3> QED BY <3>3, <3>4 DEF Served
  <2> QED BY <2>4, <2>5, <2>6
<1>10. Uses(c, O, K)
  <2>1. \A j \in 1 .. Len(c.blocks) :
          BranchTargets(c.blocks[j])
            \subseteq K \cup (IF j <= n THEN BranchTargets(b.blocks[j]) ELSE {})
    BY <1>1, <1>3, <1>8
  <2>2. \A k \in 1 .. Len(c.blocks) : \A i \in 1 .. Len(c.blocks[k].instrs) :
           \/ k \in 1 .. n /\ i \in 1 .. Len(b.blocks[k].instrs)
           \/ \A r \in Args(c.blocks[k].instrs[i]) \ {NoReg} :
                \/ \E j \in 1 .. i - 1 : c.blocks[k].instrs[j].dest = r
                \/ Served(c, O, K, k, r)
    BY <1>1, <1>9
  <2> HIDE DEF s
  <2> QED BY <1>1, <1>2, <1>5, <2>1, <2>2, UsesStay
<1>11. Has(c, instr.op, instr.dest, instr.args)
  <2>1. Len(s) + 1 \in 1 .. Len(c.blocks[n].instrs) /\ n \in 1 .. Len(c.blocks)
    BY <1>1, <1>3, <1>4
  <2> HIDE DEF s, n
  <2> QED BY <1>4, <2>1 DEF Has
<1> HIDE DEF n, s
<1> QED BY <1>1, <1>5, <1>6, <1>7, <1>10, <1>11 DEF Doing, c, n

-----------------------------------------------------------------------------
(***************************************************************************)
(* The same for each operation of the builder.  Made(a, b, c, O, K): c has *)
(* been made from b by instructions alone, and b from a.                   *)
(***************************************************************************)
Made(a, b, c, O, K) ==
  /\ Doing(a, c, O, K) /\ Ext(b, c) /\ Holds(b, O) \subseteq Holds(c, O)
  /\ Len(c.blocks) = Len(b.blocks) /\ c.labels = b.labels
Result(c) == c.val \in Nat /\ c.val # NoReg /\ c.val \in Defines(c.blocks[Len(c.blocks)])

LEMMA MadeDoing ==
  ASSUME NEW a, NEW b, NEW c, NEW O, NEW K, Made(a, b, c, O, K)
  PROVE  /\ Doing(a, c, O, K) /\ Ext(b, c) /\ Holds(b, O) \subseteq Holds(c, O)
         /\ Len(c.blocks) = Len(b.blocks) /\ c.labels = b.labels
BY DEF Made

LEMMA SameBlocks ==
  ASSUME NEW a, NEW b, NEW c, NEW O, NEW K, c.blocks = b.blocks
  PROVE  /\ Doing(a, b, O, K) => Doing(a, c, O, K)
         /\ Holds(c, O) = Holds(b, O)
         /\ Ext(a, b) => Ext(a, c)
         /\ \A op, dest, args : Has(b, op, dest, args) => Has(c, op, dest, args)
<1>1. Ext(a, b) => Ext(a, c)
  BY DEF Ext
<1>2. Uses(b, O, K) => Uses(c, O, K)
  <2>1. \A d, e : Sealed(b, d, e, K) => Sealed(c, d, e, K)
    BY DEF Sealed
  <2>2. \A k, r : Served(b, O, K, k, r) => Served(c, O, K, k, r)
    BY <2>1 DEF Served
  <2> QED BY <2>2 DEF Uses
<1>3. \A op, dest, args : Has(b, op, dest, args) => Has(c, op, dest, args)
  BY DEF Has
<1>4. Holds(c, O) = Holds(b, O)
  BY DEF Holds, Avail
<1> QED BY <1>1, <1>2, <1>3, <1>4 DEF Doing

LEMMA ResultHeld ==
  ASSUME NEW c, Result(c), NEW O
  PROVE  c.val \in Holds(c, O) /\ (Len(c.blocks) \in O => c.val \in Avail(c, O))
BY DEF Result, Holds, Avail

LEMMA ValueUses ==
  ASSUME NEW a, NEW b, Ready(b), NEW O, NEW K, Doing(a, b, O, K),
         NEW op \in Ops, op \notin Terminators, NEW args \in Seq(Nat),
         Elements(args) \subseteq Holds(b, O)
  PROVE  LET c == Value(b, op, args)
         IN  Ready(c) /\ Made(a, b, c, O, K) /\ Result(c) /\ Has(c, op, c.val, args)
<1> DEFINE r == b.regs + 1
           instr == [op |-> op, dest |-> r, args |-> args, to |-> <<>>]
           e == Emit(b, instr)
           c == Value(b, op, args)
<1>1. r \in Nat /\ r # NoReg /\ Wellformed(b)
  BY ReadyWellformed DEF NoReg
<1>2. /\ instr \in Instr /\ instr.to = <<>> /\ instr.dest = r /\ instr.op = op
      /\ instr.args = args
  BY <1>1 DEF Instr
<1>3. Elements(instr.to) = {}
  BY <1>2 DEF Elements
<1>4. c = [e EXCEPT !.regs = r, !.val = r]
  BY DEF Value
<1> HIDE DEF instr
<1>5. e \in Builder /\ Wellformed(e) /\ e.labels = b.labels
  <2>1. Ready(e)
    BY <1>1, <1>2, EmitReady
  <2> HIDE DEF e
  <2> QED BY <1>1, <1>2, <2>1, EmitShape DEF Ready, e
<1>6. /\ Doing(a, e, O, K) /\ Holds(b, O) \subseteq Holds(e, O)
      /\ Len(e.blocks) = Len(b.blocks)
      /\ r \in Defines(e.blocks[Len(e.blocks)]) /\ Has(e, op, r, args) /\ Ext(b, e)
  <2>1. Elements(instr.args) \subseteq Holds(b, O) /\ Elements(instr.to) \subseteq K
    BY <1>2, <1>3
  <2> HIDE DEF r
  <2>2. Wellformed(Emit(b, instr))
    BY <1>5
  <2> QED BY <1>1, <1>2, <2>1, <2>2, EmitUses, EmitExt
<1> HIDE DEF e, r
<1>7. c.blocks = e.blocks /\ c.val = r /\ c.labels = e.labels
  BY <1>4, <1>5 DEF Builder
<1>8. Ready(c)
  BY ValueReady
<1> HIDE DEF c
<1>9. Doing(a, c, O, K) /\ Holds(c, O) = Holds(e, O) /\ Has(c, op, r, args) /\ Ext(b, c)
  BY <1>6, <1>7, SameBlocks
<1>10. Made(a, b, c, O, K)
  BY <1>5, <1>6, <1>7, <1>9 DEF Made
<1>11. Result(c)
  BY <1>1, <1>6, <1>7 DEF Result
<1> QED BY <1>7, <1>8, <1>9, <1>10, <1>11 DEF c

LEMMA EffectUses ==
  ASSUME NEW a, NEW b, Ready(b), NEW O, NEW K, Doing(a, b, O, K),
         NEW op \in Ops, NEW args \in Seq(Nat), NEW to \in Seq(Label),
         Elements(args) \subseteq Holds(b, O), Elements(to) \subseteq K,
         Wellformed(Effect(b, op, args, to))
  PROVE  LET c == Effect(b, op, args, to)
         IN  Made(a, b, c, O, K) /\ Has(c, op, NoReg, args)
<1> DEFINE instr == [op |-> op, dest |-> NoReg, args |-> args, to |-> to]
           c == Emit(b, instr)
<1>1. /\ instr \in Instr /\ instr.to = to /\ instr.args = args /\ instr.op = op
      /\ instr.dest = NoReg
  BY EffectInstr
<1>2. Wellformed(b) /\ Effect(b, op, args, to) = c
  BY DEF Effect, Ready
<1> HIDE DEF instr
<1>3. /\ Doing(a, c, O, K) /\ Holds(b, O) \subseteq Holds(c, O)
      /\ Len(c.blocks) = Len(b.blocks) /\ Has(c, op, NoReg, args)
      /\ Ext(b, c) /\ c.labels = b.labels
  BY <1>1, <1>2, EmitUses, EmitExt, EmitShape
<1> HIDE DEF c
<1> QED BY <1>2, <1>3 DEF Made

LEMMA AllocaUses ==
  ASSUME NEW a, NEW b, Ready(b), NEW O, NEW K, Doing(a, b, O, K)
  PROVE  LET c == buildAlloca(b) IN Ready(c) /\ Made(a, b, c, O, K) /\ Result(c)
<1>1. /\ "alloca" \in Ops /\ "alloca" \notin Terminators /\ <<>> \in Seq(Nat)
      /\ Elements(<<>>) = {}
  BY DEF Terminators, Ops, Elements
<1> QED BY <1>1, ValueUses DEF buildAlloca

LEMMA StoreUses ==
  ASSUME NEW a, NEW b, Ready(b), NEW O, NEW K, Doing(a, b, O, K),
         NEW v \in Nat, NEW slot \in Nat, v \in Holds(b, O), slot \in Holds(b, O)
  PROVE  LET c == buildStore(b, v, slot)
         IN  Ready(c) /\ Made(a, b, c, O, K) /\ Has(c, "store", NoReg, <<v, slot>>)
<1>1. /\ "store" \in Ops /\ <<v, slot>> \in Seq(Nat) /\ <<>> \in Seq(Label)
      /\ Elements(<<v, slot>>) = {v, slot} /\ Elements(<<>>) = {}
  BY DEF Terminators, Ops, Elements
<1>2. Ready(buildStore(b, v, slot))
  BY BuildStore
<1> QED BY <1>1, <1>2, EffectUses DEF buildStore, Ready

LEMMA RetUses ==
  ASSUME NEW a, NEW b, Ready(b), NEW O, NEW K, Doing(a, b, O, K),
         NEW args \in Seq(Nat), Elements(args) \subseteq Holds(b, O)
  PROVE  LET c == buildRet(b, args) IN Shut(c) /\ Made(a, b, c, O, K)
<1>1. "ret" \in Ops /\ <<>> \in Seq(Label) /\ Elements(<<>>) = {}
  BY DEF Terminators, Ops, Elements
<1>2. Shut(buildRet(b, args))
  BY BuildRet
<1> QED BY <1>1, <1>2, EffectUses DEF buildRet, Shut

LEMMA BranchUses ==
  ASSUME NEW a, NEW b, Ready(b), NEW O, NEW K, Doing(a, b, O, K), NEW l \in Label, l \in K
  PROVE  LET c == buildBranch(b, l) IN Shut(c) /\ Made(a, b, c, O, K)
<1>1. /\ "br" \in Ops /\ <<>> \in Seq(Nat) /\ <<l>> \in Seq(Label)
      /\ Elements(<<>>) = {} /\ Elements(<<l>>) = {l}
  BY DEF Terminators, Ops, Elements
<1>2. Shut(buildBranch(b, l))
  BY BuildBranch
<1> QED BY <1>1, <1>2, EffectUses DEF buildBranch, Shut

LEMMA CondBranchUses ==
  ASSUME NEW a, NEW b, Ready(b), NEW O, NEW K, Doing(a, b, O, K),
         NEW cond \in Nat, cond \in Holds(b, O), NEW yes \in Label, NEW no \in Label,
         yes \in K, no \in K
  PROVE  LET c == buildCondBranch(b, cond, yes, no) IN Shut(c) /\ Made(a, b, c, O, K)
<1>1. /\ "condbr" \in Ops /\ <<cond>> \in Seq(Nat) /\ <<yes, no>> \in Seq(Label)
      /\ Elements(<<cond>>) = {cond} /\ Elements(<<yes, no>>) = {yes, no}
  BY DEF Terminators, Ops, Elements
<1>2. Shut(buildCondBranch(b, cond, yes, no))
  BY BuildCondBranch
<1> QED BY <1>1, <1>2, EffectUses DEF buildCondBranch, Shut

LEMMA BranchIfOpenUses ==
  ASSUME NEW a, NEW b, Ready(b), NEW O, NEW K, Doing(a, b, O, K), NEW l \in Label, l \in K
  PROVE  LET c == BranchIfOpen(b, l) IN Shut(c) /\ Made(a, b, c, O, K)
BY ReadyNotTerminated, BranchUses DEF BranchIfOpen

LEMMA EvalUses ==
  ASSUME NEW a, NEW b, Ready(b), NEW O, NEW K, Doing(a, b, O, K),
         NEW slots \in [Names -> Nat], NEW e \in Exprs,
         e \in Names => slots[e] \in Holds(b, O)
  PROVE  LET c == Eval(b, slots, e)
         IN  /\ Ready(c) /\ Made(a, b, c, O, K) /\ Result(c)
             /\ e \in Names /\ slots[e] # NoReg => Has(c, "load", c.val, <<slots[e]>>)
<1>1. /\ {"eval", "named", "load"} \subseteq Ops
      /\ {"eval", "named", "load"} \cap Terminators = {}
      /\ <<>> \in Seq(Nat) /\ Elements(<<>>) = {}
  BY DEF Terminators, Ops, Elements
<1>2. Lit \notin Names
  BY NamesAssumption DEF Lit
<1>3. CASE e = Lit
  BY <1>1, <1>2, <1>3, ValueUses DEF Eval
<1>4. CASE e # Lit
  <2>1. e \in Names /\ slots[e] \in Nat
    BY <1>4 DEF Exprs
  <2>2. <<slots[e]>> \in Seq(Nat) /\ Elements(<<slots[e]>>) = {slots[e]}
    BY <2>1 DEF Elements
  <2> QED BY <1>1, <1>4, <2>1, <2>2, ValueUses DEF Eval
<1> QED BY <1>3, <1>4

\* A block is opened behind a terminator.
LEMMA OpenUses ==
  ASSUME NEW a, NEW b, Shut(b), NEW O, NEW K, Doing(a, b, O, K), NEW l \in Label
  PROVE  LET c == OpenBlock(b, l)
         IN  /\ Ready(c) /\ Doing(a, c, O, K) /\ Ext(b, c) /\ c.labels = b.labels
             /\ Len(c.blocks) = Len(b.blocks) + 1
             /\ c.blocks[Len(c.blocks)].instrs = <<>>
             /\ BranchTargets(c.blocks[Len(c.blocks)]) = {}
             /\ Avail(b, O) \subseteq Avail(c, O)
<1> DEFINE n == Len(b.blocks)
           new == [label |-> l, instrs |-> <<>>]
           c == OpenBlock(b, l)
<1>1. b \in Builder /\ b.blocks \in Seq(Block) /\ n \in Nat \ {0} /\ Wellformed(b)
  BY LastBlock DEF Shut
<1>2. c.blocks = Append(b.blocks, new)
  BY <1>1 DEF OpenBlock, Builder
<1>3. Ready(c) /\ Wellformed(c) /\ c.labels = b.labels
  BY OpenBlockReady DEF Ready
<1>4. /\ BranchTargets(new) = {} /\ new.instrs = <<>> /\ Len(new.instrs) = 0
  BY DEF BranchTargets
<1> HIDE DEF new, c
<1>5. /\ Len(c.blocks) = n + 1 /\ \A k \in 1 .. n : c.blocks[k] = b.blocks[k]
      /\ c.blocks[n + 1] = new
  BY <1>1, <1>2
<1>6. Ext(b, c)
  <2>1. \A k \in 1 .. n - 1 : k \in 1 .. n
    BY <1>1
  <2>2. \A k \in 1 .. n : Len(b.blocks[k].instrs) \in Nat
    BY <1>1, BlocksOf
  <2> QED BY <1>1, <1>5, <2>1, <2>2 DEF Ext
<1>7. Wellformed(a) /\ O \subseteq 1 .. Len(a.blocks) /\ Ext(a, b) /\ Uses(b, O, K)
  BY DEF Doing
<1>8. Ext(a, c) /\ O \subseteq 1 .. n
  <2>1. Ext(a, c)
    BY <1>1, <1>3, <1>6, <1>7, ExtTrans
  <2>2. Len(a.blocks) \in Nat /\ Len(a.blocks) <= n
    BY <1>7, BlocksOf DEF Ext
  <2> QED BY <1>1, <1>7, <2>1, <2>2
<1>9. \A k \in 1 .. n + 1 : k \in 1 .. n \/ k = n + 1
  BY <1>1
<1>10. Uses(c, O, K)
  <2>1. \A j \in 1 .. Len(c.blocks) :
          BranchTargets(c.blocks[j])
            \subseteq K \cup (IF j <= n THEN BranchTargets(b.blocks[j]) ELSE {})
    <3>1. \A j \in 1 .. n : j <= n
      BY <1>1
    <3> QED BY <1>4, <1>5, <1>9, <3>1
  <2>2. \A k \in 1 .. Len(c.blocks) : \A i \in 1 .. Len(c.blocks[k].instrs) :
           \/ k \in 1 .. n /\ i \in 1 .. Len(b.blocks[k].instrs)
           \/ \A r \in Args(c.blocks[k].instrs[i]) \ {NoReg} :
                \/ \E j \in 1 .. i - 1 : c.blocks[k].instrs[j].dest = r
                \/ Served(c, O, K, k, r)
    <3>1. \A i \in 1 .. Len(new.instrs) : FALSE
      BY <1>4
    <3> QED BY <1>5, <1>9, <3>1
  <2> QED BY <1>1, <1>3, <1>6, <1>7, <2>1, <2>2, UsesStay
<1>11. Avail(b, O) \subseteq Avail(c, O)
  BY <1>1, <1>3, <1>6, <1>8, ExtAvail
<1>12. Doing(a, c, O, K)
  BY <1>7, <1>8, <1>10 DEF Doing
<1> QED BY <1>3, <1>4, <1>5, <1>6, <1>11, <1>12 DEF c, n

\* What the block left behind holds is at hand in the next one, if it is open.
LEMMA HoldsOn ==
  ASSUME NEW b, NEW c, NEW O, Len(b.blocks) \in O, Avail(b, O) \subseteq Avail(c, O)
  PROVE  Holds(b, O) \subseteq Holds(c, O)
<1>1. Defines(b.blocks[Len(b.blocks)]) \subseteq {NoReg} \cup Avail(b, O)
  BY DEF Avail
<1> QED BY <1>1 DEF Holds

LEMMA IssuedUses ==
  ASSUME NEW a, NEW b, Ready(b), NEW O, NEW K, Doing(a, b, O, K), NEW n \in Nat
  PROVE  LET c == Issued(b, n)
         IN  /\ Ready(c) /\ Doing(a, c, O, K) /\ Ext(b, c) /\ c.labels = b.labels + n
             /\ c.blocks = b.blocks /\ c.val = b.val
             /\ Holds(c, O) = Holds(b, O) /\ Avail(c, O) = Avail(b, O)
             /\ \A op, dest, args : Has(b, op, dest, args) => Has(c, op, dest, args)
<1>1. Wellformed(b) /\ b \in Builder
  BY DEF Ready, Wellformed
<1>2. Issued(b, n).blocks = b.blocks
  BY <1>1 DEF Issued, Builder
<1>3. Ext(b, b)
  BY <1>1, ExtRefl
<1>4. Ready(Issued(b, n)) /\ Issued(b, n).labels = b.labels + n /\ Issued(b, n).val = b.val
  BY IssuedReady
<1> HIDE DEF Issued
<1> QED BY <1>2, <1>3, <1>4, SameBlocks DEF Avail

\* The next block, with its labels issued.
LEMMA NextBlockUses ==
  ASSUME NEW a, NEW b, Shut(b), NEW O, NEW K, Doing(a, b, O, K), NEW l \in Label, NEW n \in Nat
  PROVE  LET c == Issued(OpenBlock(b, l), n)
         IN  /\ Ready(c) /\ Doing(a, c, O, K) /\ Ext(b, c) /\ c.labels = b.labels + n
             /\ Avail(b, O) \subseteq Avail(c, O)
<1> DEFINE d == OpenBlock(b, l)
<1>1. /\ Ready(d) /\ Doing(a, d, O, K) /\ Ext(b, d) /\ d.labels = b.labels
      /\ Avail(b, O) \subseteq Avail(d, O)
  BY OpenUses
<1> HIDE DEF d
<1>2. LET c == Issued(d, n)
      IN  /\ Ready(c) /\ Doing(a, c, O, K) /\ Ext(d, c) /\ c.labels = d.labels + n
          /\ c.blocks = d.blocks /\ Avail(c, O) = Avail(d, O)
  BY <1>1, IssuedUses
<1>3. Ext(b, Issued(d, n))
  BY <1>1, <1>2 DEF Ext
<1> QED BY <1>1, <1>2, <1>3 DEF d

\* The blocks from d on are left behind for good.
LEMMA CloseUses ==
  ASSUME NEW a, NEW b, Wellformed(b), NEW O, NEW K, Doing(a, b, O, K),
         b.blocks[Len(b.blocks)].instrs = <<>>,
         NEW P, P \subseteq 1 .. Len(a.blocks), NEW J, J \subseteq K,
         \A d \in O : d \in P \/ Sealed(b, d, Len(b.blocks) - 1, J)
  PROVE  Doing(a, b, P, J)
<1> DEFINE n == Len(b.blocks)
<1>1. n \in Nat \ {0} /\ Uses(b, O, K)
  BY BlocksOf DEF Doing
<1>2. ASSUME NEW k \in 1 .. n, NEW r, Served(b, O, K, k, r), k # n
      PROVE  Served(b, P, J, k, r)
  <2>1. PICK d \in 1 .. k - 1 :
          /\ r \in Defines(b.blocks[d])
          /\ d \in O \/ \E e \in k .. n - 1 : Sealed(b, d, e, K)
    BY <1>2 DEF Served
  <2>2. \A e : Sealed(b, d, e, K) => Sealed(b, d, e, J)
    BY DEF Sealed
  <2>3. n - 1 \in k .. n - 1
    BY <1>1, <1>2
  <2>4. d \in O => d \in P \/ \E e \in k .. n - 1 : Sealed(b, d, e, J)
    BY <2>3
  <2> QED BY <2>1, <2>2, <2>4 DEF Served
<1>3. \A k \in 1 .. n : \A i \in 1 .. Len(b.blocks[k].instrs) : k # n
  <2>1. \A i \in 1 .. Len(<<>>) : FALSE
    OBVIOUS
  <2> QED BY <2>1
<1>4. Uses(b, P, J)
  <2> HIDE DEF n
  <2> QED BY <1>1, <1>2, <1>3 DEF Uses, n
<1> QED BY <1>4 DEF Doing

-----------------------------------------------------------------------------
(***************************************************************************)
(* The blocks that are open, from one state to the next.                   *)
(***************************************************************************)
Depth == Len(frames)
Open == OpenTo(ir, frames, Depth)
Nameable == Known(frames, Depth) \cup Fresh(ir.labels)
UsesInOrder == Uses(ir, Open, Nameable)

LEMMA OpenWithin ==
  ASSUME NEW b, NEW fs, NEW i \in Nat, NEW m \in Nat, m <= i
  PROVE  OpenTo(b, fs, m) \subseteq OpenTo(b, fs, i) /\ OpenTo(b, fs, i) \subseteq 1 .. Len(b.blocks)
<1>1. \A n \in 0 .. m : n \in 0 .. i
  OBVIOUS
<1> QED BY <1>1 DEF OpenTo

\* What is open stays so, while the visitors it is open to are suspended.
LEMMA OpenGrows2 ==
  ASSUME NEW b, NEW c, Wellformed(b), Wellformed(c), Ext(b, c),
         NEW fs, NEW gs, NEW i \in Nat, \A m \in 1 .. i : gs[m] = fs[m]
  PROVE  OpenTo(b, fs, i) \subseteq OpenTo(c, gs, i)
<1> SUFFICES ASSUME NEW d \in 1 .. Len(b.blocks), NEW n \in 0 .. i, OpenAt(b, fs, d, n)
             PROVE  d \in 1 .. Len(c.blocks) /\ OpenAt(c, gs, d, n)
  BY DEF OpenTo
<1>1. /\ Len(b.blocks) \in Nat /\ Len(c.blocks) \in Nat /\ Len(b.blocks) <= Len(c.blocks)
  BY BlocksOf DEF Ext
<1>2. /\ d \in 1 .. Len(c.blocks) /\ \A k \in 1 .. d : k \in 1 .. Len(b.blocks)
      /\ \A j \in 1 .. d - 1 : j \in 1 .. Len(b.blocks) - 1
  BY <1>1
<1>3. UpTo(c, d) = UpTo(b, d)
  <2>1. \A k \in 1 .. d : c.blocks[k].label = b.blocks[k].label
    BY <1>2 DEF Ext
  <2> QED BY <2>1 DEF UpTo
<1>4. \A m \in 1 .. n : gs[m] = fs[m]
  OBVIOUS
<1>5. PendingTo(gs, n) = PendingTo(fs, n) /\ Back(gs, n) = Back(fs, n)
  BY <1>4 DEF PendingTo, Back
<1>6. \A j \in 1 .. d - 1 : c.blocks[j] = b.blocks[j]
  BY <1>2 DEF Ext
<1> QED BY <1>2, <1>3, <1>5, <1>6 DEF OpenAt

\* The facts of the other invariants, in the terms used here.
LEMMA AtLabels ==
  ASSUME IInv, LInv, "partial" \notin Lang
  PROVE  /\ Wellformed(ir) /\ frames \in Seq(Frame) /\ Depth \in Nat
         /\ DOMAIN frames = 1 .. Depth /\ ir.labels \in Nat
         /\ \A j \in 1 .. Len(ir.blocks) :
              BranchTargets(ir.blocks[j]) \subseteq UpTo(ir, Len(ir.blocks)) \cup PendingTo(frames, Depth)
         /\ Back(frames, Depth) \subseteq UpTo(ir, Len(ir.blocks))
         /\ \A j, k \in 1 .. Len(ir.blocks) : ir.blocks[j].label = ir.blocks[k].label => j = k
         /\ \A k \in 1 .. Len(ir.blocks) :
              /\ ir.blocks[k].label \notin PendingTo(frames, Depth)
              /\ ir.blocks[k].label \notin Fresh(ir.labels)
<1> DEFINE s == LabelsOf(ir)
           n == Len(ir.blocks)
<1>1. Wellformed(ir) /\ frames \in Seq(Frame) /\ ir.labels \in Nat
  BY Before DEF IInv, Discipline, Ready, Shut
<1>2. Depth \in Nat /\ DOMAIN frames = 1 .. Depth
  BY <1>1 DEF Depth
<1>3. /\ DOMAIN s = 1 .. n /\ DOMAIN ir.blocks = 1 .. n
      /\ \A k \in 1 .. n : s[k] = ir.blocks[k].label /\ s[k] \in Label
  BY <1>1, BlocksOf DEF LabelsOf
<1>4. Seen(s) = UpTo(ir, n)
  BY <1>3 DEF Seen, UpTo
<1>5. Claimed(frames) = PendingTo(frames, Depth)
  BY <1>2 DEF Claimed, PendingTo
<1>6. Opened(Seen(s), Branched(ir), frames) /\ Distinct(s, ir.labels, frames)
  BY DEF LInv
<1> HIDE DEF s, n
<1>7. \A j \in 1 .. n : BranchTargets(ir.blocks[j]) \subseteq UpTo(ir, n) \cup PendingTo(frames, Depth)
  BY <1>3, <1>4, <1>5, <1>6 DEF Opened, Branched
<1>8. Back(frames, Depth) \subseteq UpTo(ir, n)
  BY <1>2, <1>4, <1>6 DEF Opened, Back, LoopKinds
<1>9. \A j, k \in 1 .. n : ir.blocks[j].label = ir.blocks[k].label => j = k
  BY <1>3, <1>6 DEF Distinct
<1>10. \A k \in 1 .. n : ir.blocks[k].label \notin PendingTo(frames, Depth)
  BY <1>2, <1>3, <1>6 DEF Distinct, PendingTo, Seen
<1>11. ASSUME NEW k \in 1 .. n PROVE ir.blocks[k].label \notin Fresh(ir.labels)
  <2>1. Old(s[k], ir.labels) /\ s[k] \in Label
    BY <1>3, <1>6 DEF Distinct, Seen
  <2>2. Entry[1] = "entry"
    BY DEF Entry
  <2>3. s[k][2] \in Nat
    BY <2>1 DEF Label
  <2> QED BY <1>1, <1>3, <2>1, <2>2, <2>3 DEF Old, Fresh
<1> QED BY <1>1, <1>2, <1>7, <1>8, <1>9, <1>10, <1>11 DEF n

LEMMA CurrentOpen ==
  ASSUME IInv, LInv, "partial" \notin Lang
  PROVE  /\ Len(ir.blocks) \in Open /\ Open \subseteq 1 .. Len(ir.blocks)
         /\ UsesInOrder => Doing(ir, ir, Open, Nameable)
<1> DEFINE n == Len(ir.blocks)
<1>1. /\ n \in Nat \ {0} /\ Depth \in Nat /\ Wellformed(ir)
      /\ \A j \in 1 .. n :
           BranchTargets(ir.blocks[j]) \subseteq UpTo(ir, n) \cup PendingTo(frames, Depth)
      /\ Back(frames, Depth) \subseteq UpTo(ir, n)
  BY AtLabels, BlocksOf
<1>2. \A j \in 1 .. n - 1 : j \in 1 .. n
  BY <1>1
<1>3. OpenAt(ir, frames, n, Depth)
  BY <1>1, <1>2 DEF OpenAt
<1>4. n \in 1 .. n /\ Depth \in 0 .. Depth
  BY <1>1
<1>5. n \in Open /\ Open \subseteq 1 .. n
  BY <1>3, <1>4 DEF Open, OpenTo
<1>6. Ext(ir, ir)
  BY <1>1, ExtRefl
<1> QED BY <1>1, <1>5, <1>6 DEF Doing, UsesInOrder

\* When a body ends, the blocks from one that was open to its visitor on are
\* sealed.
LEMMA SealedBehind ==
  ASSUME IInv, LInv, "partial" \notin Lang,
         NEW d \in 1 .. Len(ir.blocks), OpenAt(ir, frames, d, Depth),
         NEW c, Wellformed(c), Ext(ir, c), Len(c.blocks) = Len(ir.blocks) + 1,
         BranchTargets(c.blocks[Len(c.blocks)]) = {}
  PROVE  Sealed(c, d, Len(ir.blocks), Nameable)
<1> DEFINE n == Len(ir.blocks)
<1>1. /\ n \in Nat \ {0} /\ Wellformed(ir)
      /\ \A j, k \in 1 .. n : ir.blocks[j].label = ir.blocks[k].label => j = k
      /\ \A k \in 1 .. n :
           /\ ir.blocks[k].label \notin PendingTo(frames, Depth)
           /\ ir.blocks[k].label \notin Fresh(ir.labels)
  BY AtLabels, BlocksOf
<1> SUFFICES ASSUME NEW m \in d + 1 .. n
             PROVE  /\ c.blocks[m].label \notin Nameable
                    /\ \A j \in 1 .. Len(c.blocks) : j \notin d .. n =>
                         c.blocks[m].label \notin BranchTargets(c.blocks[j])
  BY DEF Sealed
<1> DEFINE l == ir.blocks[m].label
<1>2. m \in 1 .. n /\ c.blocks[m].label = l
  <2>1. m \in 1 .. n
    BY <1>1
  <2> QED BY <2>1 DEF Ext
<1>3. l \notin UpTo(ir, d)
  <2>1. \A k \in 1 .. d : k \in 1 .. n /\ k # m
    BY <1>1
  <2> QED BY <1>1, <1>2, <2>1 DEF UpTo
<1>4. l \notin Nameable
  BY <1>1, <1>2, <1>3 DEF Nameable, Known, OpenAt
<1>5. ASSUME NEW j \in 1 .. Len(c.blocks), j \notin d .. n
      PROVE  l \notin BranchTargets(c.blocks[j])
  <2>1. CASE j = Len(c.blocks)
    BY <2>1
  <2>2. CASE j # Len(c.blocks)
    <3>1. j \in 1 .. d - 1 /\ j \in 1 .. n - 1
      BY <1>1, <1>5, <2>2
    <3>2. c.blocks[j] = ir.blocks[j]
      BY <3>1 DEF Ext
    <3>3. l \notin PendingTo(frames, Depth)
      BY <1>1, <1>2
    <3> HIDE DEF l
    <3> QED BY <1>3, <3>1, <3>2, <3>3 DEF OpenAt
  <2> QED BY <2>1, <2>2
<1> QED BY <1>2, <1>4, <1>5

\* The end of a body, once the next block has been opened.
LEMMA BodyUses ==
  ASSUME IInv, LInv, "partial" \notin Lang, Depth # 0,
         NEW c, Wellformed(c), Doing(ir, c, Open, Nameable),
         Len(c.blocks) = Len(ir.blocks) + 1, c.blocks[Len(c.blocks)].instrs = <<>>,
         BranchTargets(c.blocks[Len(c.blocks)]) = {}
  PROVE  Doing(ir, c, OpenTo(ir, frames, Depth - 1), Nameable)
<1> DEFINE n == Len(ir.blocks)
           P == OpenTo(ir, frames, Depth - 1)
<1>1. n \in Nat \ {0} /\ Depth \in Nat \ {0} /\ Ext(ir, c) /\ Depth - 1 \in Nat
  BY AtLabels, BlocksOf DEF Doing
<1>2. P \subseteq 1 .. n
  BY <1>1, OpenWithin
<1>3. Len(c.blocks) - 1 = n
  BY <1>1
<1>4. ASSUME NEW d \in Open PROVE d \in P \/ Sealed(c, d, Len(c.blocks) - 1, Nameable)
  <2>1. PICK m \in 0 .. Depth : OpenAt(ir, frames, d, m)
    BY <1>4 DEF Open, OpenTo
  <2>2. d \in 1 .. n
    BY <1>4 DEF Open, OpenTo
  <2>3. CASE m = Depth
    BY <1>1, <1>3, <2>1, <2>2, <2>3, SealedBehind
  <2>4. CASE m # Depth
    <3>1. m \in 0 .. Depth - 1
      BY <1>1, <2>4
    <3> QED BY <2>1, <2>2, <3>1 DEF OpenTo
  <2> QED BY <2>3, <2>4
<1> HIDE DEF P
<1>5. Doing(ir, c, P, Nameable)
  BY <1>2, <1>4, CloseUses
<1> QED BY <1>5 DEF P

\* The next state, in which the first i visitors are still suspended.
LEMMA UsesNext ==
  ASSUME IInv, LInv, Wellformed(ir'), NEW i \in Nat, i <= Depth', Depth' \in Nat,
         Doing(ir, ir', OpenTo(ir, frames, i), Nameable),
         \A m \in 1 .. i : frames'[m] = frames[m],
         Nameable' \subseteq Nameable
  PROVE  UsesInOrder'
<1>1. OpenTo(ir, frames, i) \subseteq OpenTo(ir', frames', i)
  BY OpenGrows2 DEF Doing
<1>2. OpenTo(ir', frames', i) \subseteq Open'
  BY OpenWithin DEF Open
<1>3. Uses(ir', OpenTo(ir, frames, i), Nameable)
  BY DEF Doing
<1>4. Uses(ir', Open', Nameable')
  BY <1>1, <1>2, <1>3, UsesWiden
<1> QED BY <1>4 DEF UsesInOrder

LEMMA NameableNext ==
  ASSUME NEW i \in Nat, i <= Depth, Depth \in Nat, Depth' \in Nat,
         \A m \in 1 .. i : frames'[m] = frames[m],
         \A m \in i + 1 .. Depth' :
           /\ Pending(frames'[m]) \subseteq Nameable
           /\ frames'[m].kind \in LoopKinds => frames'[m].join \in Nameable,
         ir.labels \in Nat, ir'.labels \in Nat, ir.labels <= ir'.labels
  PROVE  Nameable' \subseteq Nameable
<1>1. \A l \in Fresh(ir'.labels) : l \in Fresh(ir.labels)
  <2>1. \A l \in Label : l[2] \in Nat
    BY DEF Label
  <2> QED BY <2>1 DEF Fresh
<1>2. ASSUME NEW m \in 1 .. Depth'
      PROVE  /\ Pending(frames'[m]) \subseteq Nameable
             /\ frames'[m].kind \in LoopKinds => frames'[m].join \in Nameable
  <2>1. CASE m \in 1 .. i
    <3>1. m \in 1 .. Depth /\ frames'[m] = frames[m]
      BY <2>1
    <3>2. Pending(frames[m]) \subseteq PendingTo(frames, Depth)
      BY <3>1 DEF PendingTo
    <3>3. frames[m].kind \in LoopKinds => frames[m].join \in Back(frames, Depth)
      BY <3>1 DEF Back
    <3> QED BY <3>1, <3>2, <3>3 DEF Nameable, Known
  <2>2. CASE m \notin 1 .. i
    <3>1. m \in i + 1 .. Depth'
      BY <2>2
    <3> QED BY <3>1
  <2> QED BY <2>1, <2>2
<1>3. PendingTo(frames', Depth') \subseteq Nameable
  BY <1>2 DEF PendingTo
<1>4. Back(frames', Depth') \subseteq Nameable
  BY <1>2 DEF Back
<1>5. Fresh(ir'.labels) \subseteq Nameable
  BY <1>1 DEF Nameable
<1>6. Nameable' = PendingTo(frames', Depth') \cup Back(frames', Depth') \cup Fresh(ir'.labels)
  BY DEF Nameable, Known
<1> QED BY <1>3, <1>4, <1>5, <1>6

LEMMA UsesStaying ==
  ASSUME IInv, LInv, "partial" \notin Lang, Wellformed(ir'), frames' = frames,
         Doing(ir, ir', Open, Nameable), ir.labels <= ir'.labels
  PROVE  UsesInOrder'
<1>1. Depth' = Depth /\ Depth \in Nat /\ ir.labels \in Nat
  BY AtLabels DEF Depth
<1>2. ir'.labels \in Nat
  BY DEF Wellformed, Builder
<1>3. \A m \in Depth + 1 .. Depth : FALSE
  BY <1>1
<1>4. Nameable' \subseteq Nameable
  BY <1>1, <1>2, <1>3, NameableNext
<1> QED BY <1>1, <1>4, UsesNext DEF Open

LEMMA UsesPushing ==
  ASSUME IInv, LInv, "partial" \notin Lang, Wellformed(ir'),
         NEW f \in Frame, frames' = Append(frames, f),
         Doing(ir, ir', Open, Nameable), ir.labels <= ir'.labels,
         Pending(f) \subseteq Fresh(ir.labels), f.kind \in LoopKinds => f.join \in Fresh(ir.labels)
  PROVE  UsesInOrder'
<1>1. Depth \in Nat /\ ir.labels \in Nat /\ frames \in Seq(Frame)
  BY AtLabels
<1>2. ir'.labels \in Nat
  BY DEF Wellformed, Builder
<1>3. /\ Depth' = Depth + 1 /\ \A m \in 1 .. Depth : frames'[m] = frames[m]
      /\ frames'[Depth + 1] = f
  BY <1>1 DEF Depth
<1>4. \A m \in Depth + 1 .. Depth + 1 : m = Depth + 1
  BY <1>1
<1>5. Fresh(ir.labels) \subseteq Nameable
  BY DEF Nameable
<1>6. \A m \in Depth + 1 .. Depth' :
           /\ Pending(frames'[m]) \subseteq Nameable
           /\ frames'[m].kind \in LoopKinds => frames'[m].join \in Nameable
  BY <1>3, <1>4, <1>5
<1>7. Depth' \in Nat /\ Depth <= Depth' /\ Depth <= Depth
  BY <1>1, <1>3
<1>8. Nameable' \subseteq Nameable
  BY <1>1, <1>2, <1>3, <1>6, <1>7, NameableNext
<1> QED BY <1>1, <1>3, <1>7, <1>8, UsesNext DEF Open

LEMMA FrontFrames ==
  ASSUME NEW fs \in Seq(Frame), fs # <<>>
  PROVE  LET t == SubSeq(fs, 1, Len(fs) - 1)
         IN  /\ Len(fs) \in Nat \ {0} /\ t \in Seq(Frame) /\ Len(t) = Len(fs) - 1
             /\ \A i \in 1 .. Len(fs) - 1 : t[i] = fs[i]
<1> DEFINE t == SubSeq(fs, 1, Len(fs) - 1)
           n == Len(fs)
<1>1. /\ t \in Seq(Frame) /\ n \in Nat \ {0}
      /\ DOMAIN t = 1 .. n - 1 /\ \A i \in 1 .. n - 1 : t[i] = fs[i]
  OBVIOUS
<1> HIDE DEF t, n
<1>2. Len(t) = n - 1
  <2>1. Len(t) \in Nat /\ DOMAIN t = 1 .. Len(t)
    BY <1>1
  <2> QED BY <1>1, <2>1
<1> QED BY <1>1, <1>2 DEF t, n

LEMMA UsesPopping ==
  ASSUME IInv, LInv, "partial" \notin Lang, Wellformed(ir'), Depth # 0, frames' = Pop,
         Doing(ir, ir', OpenTo(ir, frames, Depth - 1), Nameable), ir.labels <= ir'.labels
  PROVE  UsesInOrder'
<1>1. Depth \in Nat \ {0} /\ ir.labels \in Nat /\ frames \in Seq(Frame)
  BY AtLabels
<1>2. ir'.labels \in Nat
  BY DEF Wellformed, Builder
<1>3. Depth' = Depth - 1 /\ \A m \in 1 .. Depth - 1 : frames'[m] = frames[m]
  <2>1. frames # <<>>
    BY DEF Depth
  <2> QED BY <1>1, <2>1, FrontFrames DEF Depth, Pop
<1>4. \A m \in Depth - 1 + 1 .. Depth - 1 : FALSE
  BY <1>1
<1>5. Depth - 1 \in Nat /\ Depth - 1 <= Depth /\ Depth' \in Nat /\ Depth - 1 <= Depth'
  BY <1>1, <1>3
<1>6. Nameable' \subseteq Nameable
  BY <1>1, <1>2, <1>3, <1>4, <1>5, NameableNext
<1> QED BY <1>1, <1>3, <1>5, <1>6, UsesNext

LEMMA UsesReplacing ==
  ASSUME IInv, LInv, "partial" \notin Lang, Wellformed(ir'), Depth # 0,
         NEW f \in Frame, frames' = Append(Pop, f),
         Doing(ir, ir', OpenTo(ir, frames, Depth - 1), Nameable), ir.labels <= ir'.labels,
         Pending(f) \subseteq Nameable, f.kind \notin LoopKinds
  PROVE  UsesInOrder'
<1>1. Depth \in Nat \ {0} /\ ir.labels \in Nat /\ frames \in Seq(Frame)
  BY AtLabels
<1>2. ir'.labels \in Nat
  BY DEF Wellformed, Builder
<1>3. /\ Depth' = Depth /\ \A m \in 1 .. Depth - 1 : frames'[m] = frames[m]
      /\ frames'[Depth] = f
  <2>1. /\ Pop \in Seq(Frame) /\ Len(Pop) = Depth - 1
        /\ \A m \in 1 .. Depth - 1 : Pop[m] = frames[m]
    <3>1. frames # <<>>
      BY DEF Depth
    <3> QED BY <1>1, <3>1, FrontFrames DEF Depth, Pop
  <2> HIDE DEF Pop
  <2> QED BY <1>1, <2>1 DEF Depth
<1>4. \A m \in Depth - 1 + 1 .. Depth : m = Depth
  BY <1>1
<1>5. \A m \in Depth - 1 + 1 .. Depth' :
           /\ Pending(frames'[m]) \subseteq Nameable
           /\ frames'[m].kind \in LoopKinds => frames'[m].join \in Nameable
  BY <1>3, <1>4
<1>6. Depth - 1 \in Nat /\ Depth - 1 <= Depth /\ Depth' \in Nat /\ Depth - 1 <= Depth'
  BY <1>1, <1>3
<1>7. Nameable' \subseteq Nameable
  BY <1>1, <1>2, <1>3, <1>5, <1>6, NameableNext
<1> QED BY <1>1, <1>3, <1>6, <1>7, UsesNext

-----------------------------------------------------------------------------
(***************************************************************************)
(* The scopes.  EnvAt(fs, ev, i) is what names are bound to in the code    *)
(* that the i-th visitor goes on with: a name that is bound there has its  *)
(* slot in varSlots, defined in a block that is open to that code, and so  *)
(* is the register that a visitor keeps for the rest of its work.          *)
(***************************************************************************)
EnvAt(fs, ev, i) == IF i = Len(fs) THEN ev ELSE fs[i + 1].env
BoundOpen(b, fs, ev, slots, i) ==
  \A x \in Names : EnvAt(fs, ev, i)[x] # Unbound =>
    EnvAt(fs, ev, i)[x].slot = slots[x] /\ slots[x] \in Avail(b, OpenTo(b, fs, i))
BoundInside(fs, ev) ==
  \A i, j \in 0 .. Len(fs) : i <= j =>
    \A x \in Names : EnvAt(fs, ev, i)[x] # Unbound => EnvAt(fs, ev, j)[x] # Unbound
Keepers == {"count", "arm", "wild"}
KeptOpen(b, fs, i) == fs[i].kind \in Keepers => fs[i].reg \in Avail(b, OpenTo(b, fs, i - 1))
Scoped(b, fs, ev, slots) ==
  /\ \A i \in 0 .. Len(fs) : BoundOpen(b, fs, ev, slots, i)
  /\ BoundInside(fs, ev)
  /\ \A i \in 1 .. Len(fs) :
       /\ KeptOpen(b, fs, i)
       /\ ~fs[i].scoped => EnvAt(fs, ev, i) = EnvAt(fs, ev, i - 1)

LEMMA AvailGrows ==
  ASSUME NEW b, NEW c, Wellformed(b), Wellformed(c), Ext(b, c),
         NEW fs, NEW gs, NEW i \in Nat, \A m \in 1 .. i : gs[m] = fs[m]
  PROVE  Avail(b, OpenTo(b, fs, i)) \subseteq Avail(c, OpenTo(c, gs, i))
<1>1. OpenTo(b, fs, i) \subseteq OpenTo(c, gs, i) /\ OpenTo(b, fs, i) \subseteq 1 .. Len(b.blocks)
  BY OpenGrows2 DEF OpenTo
<1> QED BY <1>1, ExtAvail

\* Code is added, and the scopes stay what they are.
LEMMA ScopedStay ==
  ASSUME NEW b, NEW c, Wellformed(b), Wellformed(c), Ext(b, c),
         NEW fs \in Seq(Frame), NEW ev, NEW slots, Scoped(b, fs, ev, slots)
  PROVE  Scoped(c, fs, ev, slots)
<1>1. \A i \in 0 .. Len(fs) : Avail(b, OpenTo(b, fs, i)) \subseteq Avail(c, OpenTo(c, fs, i))
  BY AvailGrows
<1>2. \A i \in 0 .. Len(fs) : BoundOpen(c, fs, ev, slots, i)
  BY <1>1 DEF Scoped, BoundOpen
<1>3. ASSUME NEW i \in 1 .. Len(fs) PROVE KeptOpen(c, fs, i)
  <2>1. i - 1 \in 0 .. Len(fs)
    OBVIOUS
  <2> QED BY <1>1, <2>1 DEF Scoped, KeptOpen
<1> QED BY <1>2, <1>3 DEF Scoped

\* A name that was bound nowhere gets a slot in the current block.
LEMMA ScopedDeclare ==
  ASSUME NEW b, NEW fs \in Seq(Frame), NEW ev \in [Names -> Binding],
         NEW slots \in [Names -> Nat], Scoped(b, fs, ev, slots),
         NEW x \in Names, ev[x] = Unbound, NEW r \in Nat, NEW mut \in BOOLEAN,
         r \in Avail(b, OpenTo(b, fs, Len(fs))),
         fs # <<>> => fs[Len(fs)].scoped
  PROVE  Scoped(b, fs, [ev EXCEPT ![x] = [slot |-> r, mut |-> mut]], [slots EXCEPT ![x] = r])
<1> DEFINE ev2 == [ev EXCEPT ![x] = [slot |-> r, mut |-> mut]]
           slots2 == [slots EXCEPT ![x] = r]
<1>1. /\ ev2[x] # Unbound /\ ev2[x].slot = r /\ slots2[x] = r
      /\ \A y \in Names : y # x => ev2[y] = ev[y] /\ slots2[y] = slots[y]
  BY DEF Unbound
<1> HIDE DEF ev2, slots2
<1>2. Len(fs) \in Nat
  OBVIOUS
<1>3. \A i \in 0 .. Len(fs) : i # Len(fs) => EnvAt(fs, ev2, i) = EnvAt(fs, ev, i)
  BY DEF EnvAt
<1>4. EnvAt(fs, ev2, Len(fs)) = ev2 /\ EnvAt(fs, ev, Len(fs)) = ev
  BY DEF EnvAt
<1>5. \A i \in 0 .. Len(fs) : EnvAt(fs, ev, i)[x] = Unbound
  <2>1. \A i \in 0 .. Len(fs) : i <= Len(fs) /\ Len(fs) \in 0 .. Len(fs)
    BY <1>2
  <2>2. BoundInside(fs, ev)
    BY DEF Scoped
  <2> QED BY <1>4, <2>1, <2>2 DEF BoundInside
<1>6. ASSUME NEW i \in 0 .. Len(fs) PROVE BoundOpen(b, fs, ev2, slots2, i)
  <2> SUFFICES ASSUME NEW y \in Names, EnvAt(fs, ev2, i)[y] # Unbound
               PROVE  /\ EnvAt(fs, ev2, i)[y].slot = slots2[y]
                      /\ slots2[y] \in Avail(b, OpenTo(b, fs, i))
    BY DEF BoundOpen
  <2>1. CASE i = Len(fs) /\ y = x
    BY <1>1, <1>4, <2>1
  <2>2. CASE y # x
    <3>1. EnvAt(fs, ev2, i)[y] = EnvAt(fs, ev, i)[y] /\ slots2[y] = slots[y]
      BY <1>1, <1>3, <1>4, <2>2
    <3>2. BoundOpen(b, fs, ev, slots, i)
      BY DEF Scoped
    <3> QED BY <3>1, <3>2 DEF BoundOpen
  <2>3. CASE i # Len(fs) /\ y = x
    BY <1>3, <1>5, <2>3
  <2> QED BY <2>1, <2>2, <2>3
<1>7. BoundInside(fs, ev2)
  <2> SUFFICES ASSUME NEW i \in 0 .. Len(fs), NEW j \in 0 .. Len(fs), i <= j, NEW y \in Names,
                      EnvAt(fs, ev2, i)[y] # Unbound
               PROVE  EnvAt(fs, ev2, j)[y] # Unbound
    BY DEF BoundInside
  <2>1. CASE y = x
    <3>1. i = Len(fs)
      BY <1>3, <1>5, <2>1
    <3>2. j = Len(fs)
      BY <1>2, <3>1
    <3> QED BY <3>1, <3>2
  <2>2. CASE y # x
    <3>1. \A m \in 0 .. Len(fs) : EnvAt(fs, ev2, m)[y] = EnvAt(fs, ev, m)[y]
      BY <1>1, <1>3, <1>4, <2>2
    <3>2. BoundInside(fs, ev)
      BY DEF Scoped
    <3> QED BY <3>1, <3>2 DEF BoundInside
  <2> QED BY <2>1, <2>2
<1>8. ASSUME NEW i \in 1 .. Len(fs)
      PROVE  /\ KeptOpen(b, fs, i)
             /\ ~fs[i].scoped => EnvAt(fs, ev2, i) = EnvAt(fs, ev2, i - 1)
  <2>1. KeptOpen(b, fs, i) /\ (~fs[i].scoped => EnvAt(fs, ev, i) = EnvAt(fs, ev, i - 1))
    BY DEF Scoped
  <2>2. ~fs[i].scoped => i # Len(fs)
    BY <1>2
  <2>3. i \in 0 .. Len(fs) /\ i - 1 \in 0 .. Len(fs) /\ i - 1 # Len(fs)
    BY <1>2
  <2> QED BY <1>3, <2>1, <2>2, <2>3
<1> QED BY <1>6, <1>7, <1>8 DEF Scoped, ev2, slots2

\* A visitor is suspended.
LEMMA ScopedPush ==
  ASSUME NEW b, Wellformed(b), NEW fs \in Seq(Frame), NEW ev, NEW slots,
         Scoped(b, fs, ev, slots), NEW f \in Frame, f.env = ev,
         f.kind \in Keepers => f.reg \in Avail(b, OpenTo(b, fs, Len(fs)))
  PROVE  Scoped(b, Append(fs, f), ev, slots)
<1> DEFINE gs == Append(fs, f)
           n == Len(fs)
<1>1. /\ n \in Nat /\ Len(gs) = n + 1 /\ gs[n + 1] = f
      /\ \A i \in 1 .. n : gs[i] = fs[i]
  OBVIOUS
<1> HIDE DEF gs
<1>2. Ext(b, b)
  BY ExtRefl
<1>3. /\ \A i \in 0 .. n : EnvAt(gs, ev, i) = EnvAt(fs, ev, i)
      /\ EnvAt(gs, ev, n + 1) = ev /\ EnvAt(fs, ev, n) = ev
  <2>1. EnvAt(gs, ev, n + 1) = ev /\ EnvAt(fs, ev, n) = ev
    BY <1>1 DEF EnvAt
  <2>2. ASSUME NEW i \in 0 .. n PROVE EnvAt(gs, ev, i) = EnvAt(fs, ev, i)
    <3>1. CASE i = n
      BY <1>1, <3>1 DEF EnvAt
    <3>2. CASE i # n
      <4>1. i + 1 \in 1 .. n /\ i # n + 1
        BY <1>1, <3>2
      <4> QED BY <1>1, <3>2, <4>1 DEF EnvAt
    <3> QED BY <3>1, <3>2
  <2> QED BY <2>1, <2>2
<1>4. /\ \A i \in 0 .. n + 1 : i \in 0 .. n \/ i = n + 1
      /\ \A i \in 1 .. n + 1 : i \in 1 .. n \/ i = n + 1
      /\ \A i \in 1 .. n : i \in 0 .. n /\ i - 1 \in 0 .. n
      /\ n \in 0 .. n /\ n + 1 - 1 = n
  BY <1>1
<1>5. \A i \in 0 .. n : Avail(b, OpenTo(b, fs, i)) \subseteq Avail(b, OpenTo(b, gs, i))
  <2> SUFFICES ASSUME NEW i \in 0 .. n
               PROVE  Avail(b, OpenTo(b, fs, i)) \subseteq Avail(b, OpenTo(b, gs, i))
    OBVIOUS
  <2>1. \A m \in 1 .. i : gs[m] = fs[m]
    BY <1>1
  <2> QED BY <1>2, <2>1, AvailGrows
<1>6. Avail(b, OpenTo(b, fs, n)) \subseteq Avail(b, OpenTo(b, gs, n + 1))
  <2>1. OpenTo(b, gs, n) \subseteq OpenTo(b, gs, n + 1)
    BY <1>1, OpenWithin
  <2>2. Avail(b, OpenTo(b, gs, n)) \subseteq Avail(b, OpenTo(b, gs, n + 1))
    BY <2>1 DEF Avail
  <2> QED BY <1>4, <1>5, <2>2
<1>7. \A i \in 0 .. n : BoundOpen(b, fs, ev, slots, i)
  BY DEF Scoped
<1>8. ASSUME NEW i \in 0 .. n + 1 PROVE BoundOpen(b, gs, ev, slots, i)
  <2>1. CASE i \in 0 .. n
    BY <1>3, <1>5, <1>7, <2>1 DEF BoundOpen
  <2>2. CASE i = n + 1
    BY <1>3, <1>4, <1>6, <1>7, <2>2 DEF BoundOpen
  <2> QED BY <1>4, <2>1, <2>2
<1>9. BoundInside(gs, ev)
  <2> SUFFICES ASSUME NEW i \in 0 .. n + 1, NEW j \in 0 .. n + 1, i <= j, NEW y \in Names,
                      EnvAt(gs, ev, i)[y] # Unbound
               PROVE  EnvAt(gs, ev, j)[y] # Unbound
    BY <1>1 DEF BoundInside
  <2>1. BoundInside(fs, ev)
    BY DEF Scoped
  <2>2. CASE j \in 0 .. n
    <3>1. i \in 0 .. n
      BY <1>1, <2>2
    <3> QED BY <1>3, <2>1, <2>2, <3>1 DEF BoundInside
  <2>3. CASE j = n + 1 /\ i \in 0 .. n
    <3>1. i <= n
      BY <1>1, <2>3
    <3> QED BY <1>3, <1>4, <2>1, <2>3, <3>1 DEF BoundInside
  <2>4. CASE j = n + 1 /\ i = n + 1
    BY <2>4
  <2> QED BY <1>4, <2>2, <2>3, <2>4
<1>10. ASSUME NEW i \in 1 .. n + 1
       PROVE  /\ KeptOpen(b, gs, i)
              /\ ~gs[i].scoped => EnvAt(gs, ev, i) = EnvAt(gs, ev, i - 1)
  <2>1. CASE i \in 1 .. n
    <3>1. KeptOpen(b, fs, i) /\ (~fs[i].scoped => EnvAt(fs, ev, i) = EnvAt(fs, ev, i - 1))
      BY <2>1 DEF Scoped
    <3> QED BY <1>1, <1>3, <1>4, <1>5, <2>1, <3>1 DEF KeptOpen
  <2>2. CASE i = n + 1
    BY <1>1, <1>3, <1>4, <1>5, <2>2 DEF KeptOpen
  <2> QED BY <1>4, <2>1, <2>2
<1> QED BY <1>1, <1>8, <1>9, <1>10 DEF Scoped, gs

\* A visitor goes on, in the scope it was suspended in.
LEMMA ScopedPop ==
  ASSUME NEW b, Wellformed(b), NEW fs \in Seq(Frame), fs # <<>>, NEW ev, NEW slots,
         Scoped(b, fs, ev, slots)
  PROVE  LET gs == SubSeq(fs, 1, Len(fs) - 1)
             f  == fs[Len(fs)]
         IN  /\ Scoped(b, gs, f.env, slots)
             /\ ~f.scoped => ev = f.env
             /\ f.kind \in Keepers => f.reg \in Avail(b, OpenTo(b, gs, Len(gs)))
<1> DEFINE gs == SubSeq(fs, 1, Len(fs) - 1)
           n == Len(fs)
           f == fs[n]
           now == f.env
<1>1. /\ n \in Nat \ {0} /\ Len(gs) = n - 1 /\ gs \in Seq(Frame)
      /\ \A i \in 1 .. n - 1 : gs[i] = fs[i]
  BY FrontFrames
<1> HIDE DEF gs
<1>2. Ext(b, b)
  BY ExtRefl
<1>3. /\ \A i \in 0 .. n - 1 : EnvAt(gs, now, i) = EnvAt(fs, ev, i)
      /\ EnvAt(fs, ev, n - 1) = now /\ EnvAt(fs, ev, n) = ev
  <2>1. EnvAt(fs, ev, n - 1) = now /\ EnvAt(fs, ev, n) = ev
    BY <1>1 DEF EnvAt
  <2>2. ASSUME NEW i \in 0 .. n - 1 PROVE EnvAt(gs, now, i) = EnvAt(fs, ev, i)
    <3>1. CASE i = n - 1
      BY <1>1, <2>1, <3>1 DEF EnvAt
    <3>2. CASE i # n - 1
      <4>1. i + 1 \in 1 .. n - 1 /\ i # n
        BY <1>1, <3>2
      <4> QED BY <1>1, <3>2, <4>1 DEF EnvAt
    <3> QED BY <3>1, <3>2
  <2> QED BY <2>1, <2>2
<1> HIDE DEF f, now
<1>4. /\ \A i \in 0 .. n - 1 : i \in 0 .. n
      /\ \A i \in 1 .. n - 1 : i \in 1 .. n /\ i \in 0 .. n - 1 /\ i - 1 \in 0 .. n - 1
      /\ n \in 1 .. n /\ n - 1 \in 0 .. n - 1
  BY <1>1
<1>5. \A i \in 0 .. n - 1 : Avail(b, OpenTo(b, fs, i)) \subseteq Avail(b, OpenTo(b, gs, i))
  <2> SUFFICES ASSUME NEW i \in 0 .. n - 1
               PROVE  Avail(b, OpenTo(b, fs, i)) \subseteq Avail(b, OpenTo(b, gs, i))
    OBVIOUS
  <2>1. \A m \in 1 .. i : gs[m] = fs[m]
    BY <1>1
  <2> QED BY <1>2, <2>1, AvailGrows
<1>6. ASSUME NEW i \in 0 .. n - 1 PROVE BoundOpen(b, gs, now, slots, i)
  <2>1. BoundOpen(b, fs, ev, slots, i)
    BY <1>4 DEF Scoped
  <2> QED BY <1>3, <1>5, <2>1 DEF BoundOpen
<1>7. BoundInside(gs, now)
  <2>1. BoundInside(fs, ev)
    BY DEF Scoped
  <2> QED BY <1>1, <1>3, <1>4, <2>1 DEF BoundInside
<1>8. ASSUME NEW i \in 1 .. n - 1
      PROVE  /\ KeptOpen(b, gs, i)
             /\ ~gs[i].scoped => EnvAt(gs, now, i) = EnvAt(gs, now, i - 1)
  <2>1. KeptOpen(b, fs, i) /\ (~fs[i].scoped => EnvAt(fs, ev, i) = EnvAt(fs, ev, i - 1))
    BY <1>4 DEF Scoped
  <2>2. gs[i] = fs[i] /\ EnvAt(gs, now, i) = EnvAt(fs, ev, i)
        /\ EnvAt(gs, now, i - 1) = EnvAt(fs, ev, i - 1)
        /\ Avail(b, OpenTo(b, fs, i - 1)) \subseteq Avail(b, OpenTo(b, gs, i - 1))
    BY <1>1, <1>3, <1>4, <1>5
  <2> QED BY <2>1, <2>2 DEF KeptOpen
<1>9. /\ ~f.scoped => ev = now
      /\ f.kind \in Keepers => f.reg \in Avail(b, OpenTo(b, gs, n - 1))
  <2>1. KeptOpen(b, fs, n) /\ (~fs[n].scoped => EnvAt(fs, ev, n) = EnvAt(fs, ev, n - 1))
    BY <1>4 DEF Scoped
  <2> QED BY <1>3, <1>4, <1>5, <2>1 DEF KeptOpen, f
<1>10. Scoped(b, gs, now, slots)
  BY <1>1, <1>6, <1>7, <1>8 DEF Scoped
<1> QED BY <1>1, <1>9, <1>10 DEF gs, f, now

-----------------------------------------------------------------------------
(***************************************************************************)
(* The invariant behind uses and names, for functions that give no name a  *)
(* second declaration, assign no undeclared name, end their matches in a   *)
(* wildcard and declare nothing in a bare body.                            *)
(***************************************************************************)
Plain == Lang \cap {"shadow", "implicit", "partial", "baredecl"} = {}
Loads(b, rs) == \A r \in rs : Has(b, "load", r[1], <<r[2]>>)
Stores(b, ws) == \A w \in ws : Has(b, "store", NoReg, w)
Named(b, rs, ws) == Loads(b, rs) /\ Stores(b, ws)
UInv == UsesInOrder /\ Scoped(ir, frames, env, varSlots) /\ Named(ir, reads, writes)
Sure == IInv /\ LInv /\ UInv /\ Plain

LEMMA ExtNamed ==
  ASSUME NEW b, NEW c, Wellformed(b), Wellformed(c), Ext(b, c), NEW rs, NEW ws
  PROVE  (Loads(b, rs) => Loads(c, rs)) /\ (Stores(b, ws) => Stores(c, ws))
BY ExtHas DEF Loads, Stores

LEMMA AtSure ==
  ASSUME Sure
  PROVE  /\ IInv /\ LInv /\ Plain /\ "partial" \notin Lang /\ Wellformed(ir)
         /\ Len(ir.blocks) \in Open /\ Open \subseteq 1 .. Len(ir.blocks)
         /\ Doing(ir, ir, Open, Nameable) /\ Scoped(ir, frames, env, varSlots)
         /\ Named(ir, reads, writes) /\ frames \in Seq(Frame) /\ ir.labels \in Nat
         /\ varSlots \in [Names -> Nat] /\ env \in [Names -> Binding] /\ Depth \in Nat
<1>1. IInv /\ LInv /\ UInv /\ Plain
  BY DEF Sure
<1>2. "partial" \notin Lang
  BY <1>1 DEF Plain
<1>3. varSlots \in [Names -> Nat] /\ env \in [Names -> Binding]
  BY <1>1 DEF IInv, Typed
<1> QED BY <1>1, <1>2, <1>3, AtLabels, CurrentOpen DEF UInv

\* A name in scope is bound to its slot, and the slot is at hand.
LEMMA AtName ==
  ASSUME Sure, NEW x \in Names, env[x] # Unbound
  PROVE  env[x].slot = varSlots[x] /\ varSlots[x] \in Avail(ir, Open) /\ varSlots[x] # NoReg
<1>1. Scoped(ir, frames, env, varSlots) /\ Len(frames) \in 0 .. Len(frames)
  BY AtSure
<1>2. BoundOpen(ir, frames, env, varSlots, Len(frames))
  BY <1>1 DEF Scoped
<1>3. EnvAt(frames, env, Len(frames)) = env
  BY DEF EnvAt
<1>4. env[x].slot = varSlots[x] /\ varSlots[x] \in Avail(ir, Open)
  BY <1>2, <1>3 DEF BoundOpen, Open, Depth
<1> QED BY <1>4 DEF Avail

\* What a builder made from ir holds.
LEMMA HeldFrom ==
  ASSUME Sure, NEW b, Wellformed(b), Doing(ir, b, Open, Nameable)
  PROVE  /\ Avail(ir, Open) \subseteq Holds(b, Open) /\ Ext(ir, b)
         /\ Avail(ir, Open) \subseteq Avail(b, Open)
<1>1. Open \subseteq 1 .. Len(ir.blocks) /\ Wellformed(ir)
  BY AtSure
<1>2. Avail(ir, Open) \subseteq Avail(b, Open)
  BY <1>1, ExtAvail DEF Doing
<1> QED BY <1>2 DEF Doing, Holds

\* The value of an expression, as SemanticAnalyzer resolved it.
LEMMA EvalSure ==
  ASSUME Sure, NEW b, Ready(b), Doing(ir, b, Open, Nameable),
         NEW slots \in [Names -> Nat], NEW e \in Exprs, Bound(e),
         e \in Names => slots[e] = varSlots[e]
  PROVE  LET c == Eval(b, slots, e)
         IN  /\ Ready(c) /\ Made(ir, b, c, Open, Nameable) /\ Result(c)
             /\ Loads(c, ReadOf(e, c.val))
<1> DEFINE c == Eval(b, slots, e)
<1>1. Avail(ir, Open) \subseteq Holds(b, Open)
  BY HeldFrom DEF Ready
<1>2. e \in Names => /\ slots[e] \in Holds(b, Open) /\ slots[e] # NoReg
                     /\ env[e].slot = slots[e]
  BY <1>1, AtName DEF Bound
<1>3. /\ Ready(c) /\ Made(ir, b, c, Open, Nameable) /\ Result(c)
      /\ e \in Names /\ slots[e] # NoReg => Has(c, "load", c.val, <<slots[e]>>)
  BY <1>2, EvalUses
<1> HIDE DEF c
<1>4. Loads(c, ReadOf(e, c.val))
  <2>1. CASE e \in Names
    <3>1. ReadOf(e, c.val) = {<<c.val, slots[e]>>}
      BY <1>2, <2>1 DEF ReadOf
    <3> QED BY <1>2, <1>3, <2>1, <3>1 DEF Loads
  <2>2. CASE e \notin Names
    BY <2>2 DEF ReadOf, Loads
  <2> QED BY <2>1, <2>2
<1> QED BY <1>3, <1>4 DEF c

\* What is kept of ir when more is made of it, and what is defined on the way.
LEMMA MadeOn ==
  ASSUME Sure, NEW b, NEW c, Wellformed(b), Wellformed(c), Ext(b, c),
         Doing(ir, b, Open, Nameable), Doing(ir, c, Open, Nameable)
  PROVE  /\ Avail(b, Open) \subseteq Avail(c, Open)
         /\ \A rs : Loads(b, rs) => Loads(c, rs)
         /\ \A ws : Stores(b, ws) => Stores(c, ws)
<1>1. Open \subseteq 1 .. Len(b.blocks)
  <2>1. Open \subseteq 1 .. Len(ir.blocks) /\ Wellformed(ir)
    BY AtSure
  <2>2. Len(ir.blocks) \in Nat /\ Len(b.blocks) \in Nat /\ Len(ir.blocks) <= Len(b.blocks)
    BY <2>1, BlocksOf DEF Doing, Ext
  <2> QED BY <2>1, <2>2
<1> QED BY <1>1, ExtAvail, ExtNamed

LEMMA OpenStays ==
  ASSUME Sure, Wellformed(ir'), Ext(ir, ir'), NEW gs, \A m \in 1 .. Depth : gs[m] = frames[m]
  PROVE  /\ Open \subseteq OpenTo(ir', gs, Depth)
         /\ Avail(ir', Open) \subseteq Avail(ir', OpenTo(ir', gs, Depth))
<1>1. Open \subseteq OpenTo(ir', gs, Depth)
  BY AtSure, OpenGrows2 DEF Open
<1> QED BY <1>1 DEF Avail

\* A statement without a body that declares nothing.
LEMMA StayUInv ==
  ASSUME Sure, Ready(ir') \/ Shut(ir'), UNCHANGED <<frames, env, varSlots>>,
         Doing(ir, ir', Open, Nameable), ir.labels <= ir'.labels,
         NEW rs, NEW ws, reads' = reads \cup rs, writes' = writes \cup ws,
         Loads(ir', rs), Stores(ir', ws)
  PROVE  UInv'
<1>1. Wellformed(ir') /\ Wellformed(ir) /\ Ext(ir, ir') /\ frames \in Seq(Frame)
  BY AtSure DEF Ready, Shut, Doing
<1>2. UsesInOrder'
  BY <1>1, AtSure, UsesStaying
<1>3. Scoped(ir', frames, env, varSlots)
  BY <1>1, AtSure, ScopedStay
<1>4. Named(ir', reads', writes')
  <2>1. Loads(ir', reads) /\ Stores(ir', writes)
    BY <1>1, AtSure, ExtNamed DEF Named
  <2> QED BY <2>1 DEF Named, Loads, Stores
<1> QED BY <1>2, <1>3, <1>4 DEF UInv

LEMMA VarDeclUses ==
  ASSUME Sure, NEW x \in Names, NEW e \in Exprs \cup {None}, VisitVarDecl(x, e)
  PROVE  UInv'
<1> DEFINE b1 == buildAlloca(ir)
           slots == [varSlots EXCEPT ![x] = b1.val]
           b2 == Eval(b1, slots, e)
           b3 == buildStore(b2, b2.val, b1.val)
<1>1. Ready(ir)
  BY AtVisit, AtSure DEF VisitVarDecl
<1>2. /\ env[x] = Unbound
      /\ frames # <<>> => frames[Len(frames)].scoped
      /\ e # None => e \in Exprs /\ Bound(e) /\ e # x
  BY AtSure DEF VisitVarDecl, Plain, InBareBody, Top, Usable, Bound
<1>3. Ready(b1) /\ Made(ir, ir, b1, Open, Nameable) /\ Result(b1)
  BY <1>1, AtSure, AllocaUses
<1>4. /\ varSlots' = slots /\ frames' = frames
      /\ ir' = IF e = None THEN b1 ELSE b3
      /\ reads' = IF e = None THEN reads ELSE reads \cup ReadOf(e, b2.val)
      /\ writes' = IF e = None THEN writes ELSE writes \cup {<<b2.val, b1.val>>}
      /\ env' = [env EXCEPT ![x] = [slot |-> b1.val, mut |-> TRUE]]
  BY DEF VisitVarDecl
<1> HIDE DEF b1
<1>5. slots \in [Names -> Nat] /\ (e \in Names /\ e # x => slots[e] = varSlots[e])
  BY <1>3, AtSure DEF Result
<1>6. b1.val \in Avail(b1, Open)
  BY <1>3, AtSure, ResultHeld DEF Made
<1> HIDE DEF slots
<1>7. ASSUME e # None
      PROVE  /\ Ready(b2) /\ Made(ir, b1, b2, Open, Nameable) /\ Result(b2)
             /\ Loads(b2, ReadOf(e, b2.val))
  BY <1>2, <1>3, <1>5, <1>7, EvalSure DEF Made
<1> HIDE DEF b2
<1>8. ASSUME e # None
      PROVE  /\ Ready(b3) /\ Made(ir, b2, b3, Open, Nameable)
             /\ Stores(b3, {<<b2.val, b1.val>>})
  <2>1. b1.val \in Holds(b2, Open) /\ b2.val \in Holds(b2, Open) /\ b1.val \in Nat /\ b2.val \in Nat
    BY <1>3, <1>6, <1>7, <1>8, ResultHeld DEF Made, Holds, Result
  <2>2. /\ Ready(b3) /\ Made(ir, b2, b3, Open, Nameable)
        /\ Has(b3, "store", NoReg, <<b2.val, b1.val>>)
    BY <1>7, <1>8, <2>1, StoreUses DEF Made
  <2> HIDE DEF b3
  <2> QED BY <2>2 DEF Stores
<1> HIDE DEF b3
<1>9. ASSUME e # None
      PROVE  Ext(b1, b3) /\ Loads(b3, ReadOf(e, b2.val))
  <2>1. Ext(b1, b2) /\ Ext(b2, b3) /\ Wellformed(b1) /\ Wellformed(b2) /\ Wellformed(b3)
    BY <1>3, <1>7, <1>8, <1>9 DEF Made, Ready
  <2> QED BY <2>1, <1>7, <1>9, ExtTrans, ExtNamed
<1>10. /\ Ready(ir') /\ Doing(ir, ir', Open, Nameable) /\ Ext(b1, ir') /\ ir'.labels = ir.labels
  <2>1. Ext(b1, b1)
    BY <1>3, ExtRefl DEF Ready
  <2> QED BY <1>3, <1>4, <1>7, <1>8, <1>9, <2>1 DEF Made
<1>11. /\ Wellformed(ir') /\ Ext(ir, ir') /\ Wellformed(ir) /\ Wellformed(b1)
       /\ frames \in Seq(Frame) /\ ir.labels <= ir'.labels
  BY <1>3, <1>10, AtSure DEF Ready, Doing
<1>12. UsesInOrder'
  BY <1>4, <1>10, <1>11, AtSure, UsesStaying
<1>13. Scoped(ir', frames, env', varSlots')
  <2>1. Scoped(ir', frames, env, varSlots)
    BY <1>11, AtSure, ScopedStay
  <2>2. b1.val \in Avail(ir', OpenTo(ir', frames, Len(frames)))
    BY <1>3, <1>6, <1>10, <1>11, MadeOn, OpenStays DEF Made, Depth
  <2>3. b1.val \in Nat /\ TRUE \in BOOLEAN /\ env \in [Names -> Binding] /\ varSlots \in [Names -> Nat]
    BY <1>3, AtSure DEF Result
  <2>4. Scoped(ir', frames, [env EXCEPT ![x] = [slot |-> b1.val, mut |-> TRUE]],
               [varSlots EXCEPT ![x] = b1.val])
    BY <1>2, <1>11, <2>1, <2>2, <2>3, ScopedDeclare
  <2> QED BY <1>4, <2>4 DEF slots
<1>14. Named(ir', reads', writes')
  <2>1. Loads(ir', reads) /\ Stores(ir', writes)
    BY <1>11, AtSure, ExtNamed DEF Named
  <2>2. CASE e = None
    BY <1>4, <2>1, <2>2 DEF Named
  <2>3. CASE e # None
    <3>1. Loads(ir', ReadOf(e, b2.val)) /\ Stores(ir', {<<b2.val, b1.val>>})
      BY <1>4, <1>8, <1>9, <2>3
    <3> QED BY <1>4, <2>1, <2>3, <3>1 DEF Named, Loads, Stores
  <2> QED BY <2>2, <2>3
<1> QED BY <1>4, <1>12, <1>13, <1>14 DEF UInv

LEMMA FreshLabel ==
  ASSUME NEW b, Wellformed(b), NEW n \in Nat, n <= b.labels, NEW p \in Prefixes \ {"entry"}, NEW k \in Nat
  PROVE  newLabel(b, p, k) \in Label /\ newLabel(b, p, k) \in Fresh(n)
<1>1. b.labels \in Nat
  BY DEF Wellformed, Builder
<1>2. newLabel(b, p, k)[1] = p /\ newLabel(b, p, k)[2] = b.labels + k
  BY DEF newLabel
<1>3. n <= b.labels + k
  BY <1>1
<1> QED BY <1>2, <1>3, NewLabelType DEF Fresh

LEMMA NothingMore == \A b : Loads(b, {}) /\ Stores(b, {})
BY DEF Loads, Stores

LEMMA ExprStmtUses ==
  ASSUME Sure, NEW e \in Exprs, VisitExprStmt(e)
  PROVE  UInv'
<1>1. Ready(ir)
  BY AtVisit, AtSure DEF VisitExprStmt
<1>2. /\ ir' = Eval(ir, varSlots, e) /\ reads' = reads \cup ReadOf(e, ir'.val)
      /\ UNCHANGED <<frames, env, varSlots>> /\ writes' = writes \cup {} /\ Bound(e)
  BY DEF VisitExprStmt, Usable
<1>3. Ready(ir') /\ Made(ir, ir, ir', Open, Nameable) /\ Loads(ir', ReadOf(e, ir'.val))
  BY <1>1, <1>2, AtSure, EvalSure
<1>4. ir.labels <= ir'.labels
  BY <1>3, AtSure DEF Made
<1> QED BY <1>2, <1>3, <1>4, NothingMore, StayUInv DEF Made

LEMMA ExitUses ==
  ASSUME Sure, VisitExit
  PROVE  UInv'
<1>1. Ready(ir)
  BY AtVisit, AtSure DEF VisitExit
<1>2. /\ ir' = Value(ir, "exit", <<>>) /\ UNCHANGED <<frames, env, varSlots>>
      /\ reads' = reads \cup {} /\ writes' = writes \cup {}
  BY DEF VisitExit, semVars
<1>3. "exit" \in Ops /\ "exit" \notin Terminators /\ <<>> \in Seq(Nat) /\ Elements(<<>>) = {}
  BY DEF Ops, Terminators, Elements
<1>4. Ready(ir') /\ Made(ir, ir, ir', Open, Nameable)
  BY <1>1, <1>2, <1>3, AtSure, ValueUses
<1>5. ir.labels <= ir'.labels
  BY <1>4, AtSure DEF Made
<1> QED BY <1>2, <1>4, <1>5, NothingMore, StayUInv DEF Made

LEMMA AssignUses ==
  ASSUME Sure, NEW x \in Names, NEW e \in Exprs, NEW compound \in BOOLEAN,
         VisitAssign(x, e, compound)
  PROVE  UInv'
<1> DEFINE bnd == IF env[x] = Unbound THEN [slot |-> NoSlot, mut |-> TRUE] ELSE env[x]
           t1 == Eval(ir, varSlots, x)
           b1 == IF compound THEN t1 ELSE ir
           b2 == Eval(b1, varSlots, e)
           t3 == Value(b2, "eval", <<b1.val, b2.val>>)
           b3 == IF compound THEN t3 ELSE b2
           b4 == buildStore(b3, b3.val, varSlots[x])
<1>1. Ready(ir)
  BY AtVisit, AtSure DEF VisitAssign
<1>2. /\ env[x] # Unbound /\ bnd = env[x] /\ bnd.slot = varSlots[x] /\ varSlots[x] # NoReg
      /\ varSlots[x] \in Avail(ir, Open) /\ varSlots[x] \in Nat /\ Bound(e) /\ Bound(x)
      /\ x \in Exprs
  <2>1. env[x] # Unbound
    BY AtSure DEF VisitAssign, Plain
  <2> QED BY <2>1, AtName, AtSure DEF VisitAssign, Usable, Bound, Exprs
<1>3. /\ ir' = b4 /\ UNCHANGED <<frames, varSlots>>
      /\ reads' = reads \cup (ReadOf(e, b2.val)
                       \cup (IF compound THEN {<<b1.val, varSlots[x]>>} ELSE {}))
      /\ writes' = writes \cup {<<b3.val, varSlots[x]>>}
      /\ env' = [env EXCEPT ![x] = env[x]]
  BY <1>2 DEF VisitAssign
<1>4. env' = env
  BY <1>3, AtSure
<1> HIDE DEF bnd
<1>5. ASSUME compound
      PROVE  /\ Ready(t1) /\ Made(ir, ir, t1, Open, Nameable) /\ Result(t1)
             /\ Loads(t1, {<<t1.val, varSlots[x]>>})
  <2>1. /\ Ready(t1) /\ Made(ir, ir, t1, Open, Nameable) /\ Result(t1)
        /\ Loads(t1, ReadOf(x, t1.val))
    BY <1>1, <1>2, AtSure, EvalSure
  <2>2. ReadOf(x, t1.val) = {<<t1.val, varSlots[x]>>}
    BY <1>2, AtName DEF ReadOf
  <2> QED BY <2>1, <2>2
<1> HIDE DEF t1
<1>6. /\ Ready(b1) /\ Doing(ir, b1, Open, Nameable) /\ b1.labels = ir.labels
      /\ compound => /\ Result(b1) /\ b1.val \in Holds(b1, Open)
                     /\ Loads(b1, {<<b1.val, varSlots[x]>>})
  BY <1>1, <1>5, AtSure, ResultHeld DEF Made
<1> HIDE DEF b1
<1>7. /\ Ready(b2) /\ Made(ir, b1, b2, Open, Nameable) /\ Result(b2)
      /\ Loads(b2, ReadOf(e, b2.val))
  BY <1>2, <1>6, AtSure, EvalSure
<1> HIDE DEF b2
<1>8. /\ Ready(b3) /\ Made(ir, b2, b3, Open, Nameable) /\ Result(b3)
  <2>1. CASE compound
    <3>1. /\ "eval" \in Ops /\ "eval" \notin Terminators
      BY DEF Ops, Terminators
    <3>2. /\ b1.val \in Holds(b2, Open) /\ b2.val \in Holds(b2, Open)
          /\ b1.val \in Nat /\ b2.val \in Nat
      BY <1>6, <1>7, <2>1, ResultHeld DEF Made, Result
    <3>3. /\ <<b1.val, b2.val>> \in Seq(Nat)
          /\ Elements(<<b1.val, b2.val>>) = {b1.val, b2.val}
      BY <3>2 DEF Elements
    <3>4. Ready(t3) /\ Made(ir, b2, t3, Open, Nameable) /\ Result(t3)
      <4>1. Doing(ir, b2, Open, Nameable) /\ {b1.val, b2.val} \subseteq Holds(b2, Open)
        BY <1>7, <3>2, MadeDoing
      <4> QED BY <1>7, <3>1, <3>3, <4>1, ValueUses
    <3> HIDE DEF t3
    <3> QED BY <2>1, <3>4
  <2>2. CASE ~compound
    <3>1. Ext(b2, b2)
      BY <1>7, ExtRefl DEF Ready
    <3> QED BY <1>7, <2>2, <3>1 DEF Made
  <2> QED BY <2>1, <2>2
<1> HIDE DEF b3
<1>9. /\ Ready(b4) /\ Made(ir, b3, b4, Open, Nameable)
      /\ Stores(b4, {<<b3.val, varSlots[x]>>})
  <2>1. Doing(ir, b3, Open, Nameable) /\ Wellformed(b3) /\ b3.val \in Nat
    BY <1>8 DEF Made, Ready, Result
  <2>2. varSlots[x] \in Holds(b3, Open) /\ b3.val \in Holds(b3, Open)
    BY <1>2, <1>8, <2>1, HeldFrom, ResultHeld
  <2>3. Ready(b4) /\ Made(ir, b3, b4, Open, Nameable) /\ Has(b4, "store", NoReg, <<b3.val, varSlots[x]>>)
    BY <1>2, <1>8, <2>1, <2>2, StoreUses
  <2> HIDE DEF b4
  <2> QED BY <2>3 DEF Stores
<1> HIDE DEF b4
<1>10. /\ Ext(b1, b2) /\ Ext(b2, b3) /\ Ext(b3, b4)
       /\ Wellformed(b1) /\ Wellformed(b2) /\ Wellformed(b3) /\ Wellformed(b4)
  BY <1>6, <1>7, <1>8, <1>9 DEF Made, Ready
<1>11. Ext(b2, b4) /\ Ext(b1, b4)
  <2>1. Ext(b2, b4)
    BY <1>10, ExtTrans
  <2> QED BY <1>10, <2>1, ExtTrans
<1>12. Loads(b4, ReadOf(e, b2.val) \cup (IF compound THEN {<<b1.val, varSlots[x]>>} ELSE {}))
  <2>1. Loads(b4, ReadOf(e, b2.val))
    BY <1>7, <1>10, <1>11, ExtNamed
  <2>2. compound => Loads(b4, {<<b1.val, varSlots[x]>>})
    BY <1>6, <1>10, <1>11, ExtNamed
  <2> QED BY <2>1, <2>2 DEF Loads
<1>13. ir.labels <= ir'.labels
  BY <1>3, <1>6, <1>7, <1>8, <1>9, AtSure DEF Made
<1> QED BY <1>3, <1>4, <1>9, <1>12, <1>13, StayUInv DEF Made

LEMMA ReturnUses ==
  ASSUME Sure, NEW e \in Exprs \cup {None}, VisitReturn(e)
  PROVE  UInv'
<1> DEFINE v == Eval(ir, varSlots, e)
           r0 == buildRet(ir, <<>>)
           r1 == buildRet(v, <<v.val>>)
           b1 == IF e = None THEN r0 ELSE r1
           l  == newLabel(b1, "after_ret", 0)
           rs == IF e = None THEN {} ELSE ReadOf(e, b1.val)
<1>1. Ready(ir)
  BY AtVisit, AtSure DEF VisitReturn
<1>2. /\ ir' = Issued(OpenBlock(b1, l), 1) /\ reads' = reads \cup rs
      /\ UNCHANGED <<frames, env, varSlots>> /\ writes' = writes \cup {}
      /\ e # None => e \in Exprs /\ Bound(e)
  BY DEF VisitReturn, Usable
<1>3. Shut(r0) /\ Made(ir, ir, r0, Open, Nameable)
  <2>1. <<>> \in Seq(Nat) /\ Elements(<<>>) = {}
    BY DEF Elements
  <2> QED BY <1>1, <2>1, AtSure, RetUses
<1> HIDE DEF r0
<1>4. ASSUME e # None
      PROVE  /\ Ready(v) /\ Made(ir, ir, v, Open, Nameable) /\ Result(v)
             /\ Loads(v, ReadOf(e, v.val))
  BY <1>1, <1>2, <1>4, AtSure, EvalSure
<1> HIDE DEF v
<1>5. ASSUME e # None
      PROVE  Shut(r1) /\ Made(ir, v, r1, Open, Nameable) /\ r1.val = v.val
  <2>1. v.val \in Nat /\ <<v.val>> \in Seq(Nat) /\ v.val \in Holds(v, Open)
        /\ Elements(<<v.val>>) = {v.val}
    BY <1>4, <1>5, ResultHeld DEF Result, Elements
  <2>2. r1.val = v.val
    <3>1. "ret" \in Ops /\ <<>> \in Seq(Label) /\ Wellformed(v)
      BY <1>4, <1>5 DEF Ops, Terminators, Ready
    <3>2. [op |-> "ret", dest |-> NoReg, args |-> <<v.val>>, to |-> <<>>] \in Instr
      BY <2>1, <3>1, EffectInstr
    <3> QED BY <3>1, <3>2, EmitShape DEF buildRet, Effect
  <2>3. Doing(ir, v, Open, Nameable) /\ {v.val} \subseteq Holds(v, Open)
    BY <1>4, <1>5, <2>1, MadeDoing
  <2>4. Shut(r1) /\ Made(ir, v, r1, Open, Nameable)
    BY <1>4, <1>5, <2>1, <2>3, RetUses
  <2> QED BY <2>2, <2>4
<1> HIDE DEF r1
<1>6. /\ Shut(b1) /\ Doing(ir, b1, Open, Nameable) /\ b1.labels = ir.labels
      /\ Loads(b1, rs)
  <2>1. CASE e = None
    BY <1>3, <2>1, NothingMore DEF Made
  <2>2. CASE e # None
    <3>1. Ext(v, r1) /\ Wellformed(v) /\ Wellformed(r1)
      BY <1>4, <1>5, <2>2 DEF Made, Ready, Shut
    <3>2. Loads(r1, ReadOf(e, v.val))
      BY <1>4, <2>2, <3>1, ExtNamed
    <3> QED BY <1>4, <1>5, <2>2, <3>2 DEF Made
  <2> QED BY <2>1, <2>2
<1> HIDE DEF b1, rs
<1>7. l \in Label
  <2>1. "after_ret" \in Prefixes
    BY DEF Prefixes
  <2> QED BY <1>6, <2>1, NewLabelType DEF Shut
<1> HIDE DEF l
<1>8. /\ Ready(ir') /\ Doing(ir, ir', Open, Nameable) /\ Ext(b1, ir') /\ ir'.labels = b1.labels + 1
  <2>1. 1 \in Nat
    OBVIOUS
  <2> QED BY <1>2, <1>6, <1>7, <2>1, NextBlockUses
<1>9. Loads(ir', rs) /\ ir.labels <= ir'.labels
  <2>1. Wellformed(b1) /\ Wellformed(ir') /\ ir.labels \in Nat
    BY <1>6, <1>8, AtSure DEF Ready, Shut
  <2>2. Loads(ir', rs)
    BY <1>6, <1>8, <2>1, ExtNamed
  <2> QED BY <1>6, <1>8, <2>1, <2>2
<1> QED BY <1>2, <1>8, <1>9, NothingMore, StayUInv

LEMMA UnchangedUses ==
  ASSUME Sure, UNCHANGED <<ir, varSlots, frames, env, reads, writes>>
  PROVE  UInv'
<1>1. UInv
  BY DEF Sure
<1> QED BY <1>1 DEF UInv, UsesInOrder, Open, Nameable, Depth

LEMMA EmptyMatchUses ==
  ASSUME Sure, NEW e \in Exprs, VisitEmptyMatch(e)
  PROVE  UInv'
<1> DEFINE b1   == Eval(ir, varSlots, e)
           exit == newLabel(b1, "match_exit", 0)
           b2   == buildBranch(b1, exit)
<1>1. Ready(ir)
  BY AtVisit, AtSure DEF VisitEmptyMatch
<1>2. /\ ir' = Issued(OpenBlock(b2, exit), 1) /\ reads' = reads \cup ReadOf(e, b1.val)
      /\ UNCHANGED <<varSlots, frames, env>> /\ writes' = writes \cup {} /\ Bound(e)
  BY DEF VisitEmptyMatch, Usable
<1>3. /\ Ready(b1) /\ Made(ir, ir, b1, Open, Nameable) /\ Loads(b1, ReadOf(e, b1.val))
  BY <1>1, <1>2, AtSure, EvalSure
<1> HIDE DEF b1
<1>4. exit \in Label /\ exit \in Nameable
  <2>1. "match_exit" \in Prefixes \ {"entry"} /\ 0 \in Nat
    BY DEF Prefixes
  <2>2. Wellformed(b1) /\ b1.labels = ir.labels /\ ir.labels \in Nat /\ ir.labels <= b1.labels
    BY <1>3, AtSure DEF Made, Ready
  <2>3. exit \in Label /\ exit \in Fresh(ir.labels)
    BY <2>1, <2>2, FreshLabel
  <2> QED BY <2>3 DEF Nameable
<1> HIDE DEF exit
<1>5. Shut(b2) /\ Made(ir, b1, b2, Open, Nameable)
  <2>1. Doing(ir, b1, Open, Nameable)
    BY <1>3, MadeDoing
  <2> QED BY <1>3, <1>4, <2>1, BranchUses
<1> HIDE DEF b2
<1>6. /\ Ready(ir') /\ Doing(ir, ir', Open, Nameable) /\ Ext(b2, ir') /\ ir'.labels = b2.labels + 1
  <2>1. 1 \in Nat
    OBVIOUS
  <2>2. Doing(ir, b2, Open, Nameable)
    BY <1>5, MadeDoing
  <2> QED BY <1>2, <1>4, <1>5, <2>1, <2>2, NextBlockUses
<1>7. Loads(ir', ReadOf(e, b1.val)) /\ ir.labels <= ir'.labels
  <2>1. Wellformed(b1) /\ Wellformed(b2) /\ Wellformed(ir') /\ ir.labels \in Nat
    BY <1>3, <1>5, <1>6, AtSure DEF Ready, Shut
  <2>2. Ext(b1, ir')
    BY <1>5, <1>6, <2>1, ExtTrans DEF Made
  <2>3. Loads(ir', ReadOf(e, b1.val))
    BY <1>3, <2>1, <2>2, ExtNamed
  <2>4. ir.labels <= ir'.labels
    BY <1>3, <1>5, <1>6, <2>1 DEF Made
  <2> QED BY <2>3, <2>4
<1> QED BY <1>2, <1>6, <1>7, NothingMore, StayUInv

LEMMA EndFunctionUses ==
  ASSUME Sure, EndFunction
  PROVE  UInv'
<1>1. /\ Ready(ir) /\ <<>> \in Seq(Nat) /\ Elements(<<>>) = {}
      /\ UNCHANGED <<frames, env, varSlots>> /\ reads' = reads \cup {} /\ writes' = writes \cup {}
  BY Before, AtSure DEF EndFunction, semVars, Elements
<1>2. ir' = buildRet(ir, <<>>)
  BY <1>1, ReadyNotTerminated DEF EndFunction
<1>3. Shut(ir') /\ Made(ir, ir, ir', Open, Nameable)
  BY <1>1, <1>2, AtSure, RetUses
<1>4. ir.labels <= ir'.labels
  BY <1>3, AtSure DEF Made
<1> QED BY <1>1, <1>3, <1>4, NothingMore, StayUInv DEF Made

-----------------------------------------------------------------------------
(***************************************************************************)
(* Statements with a body: a visitor is suspended.                         *)
(***************************************************************************)
LEMMA PushFacts ==
  ASSUME Sure, NEW kind, NEW k \in Kinds, NEW next \in Label, NEW join \in Label,
         NEW reg \in Nat, NEW scoped \in BOOLEAN,
         Nesting(kind, NewFrame(k, next, join, reg, scoped))
  PROVE  LET f == NewFrame(k, next, join, reg, scoped)
         IN  /\ f \in Frame /\ f.kind = k /\ f.next = next /\ f.join = join
             /\ f.reg = reg /\ f.scoped = scoped /\ f.env = env
             /\ frames' = Append(frames, f)
BY AtSure, FrameType DEF NewFrame, Nesting

LEMMA PushParts ==
  ASSUME Sure, Ready(ir'), NEW f \in Frame, frames' = Append(frames, f), f.env = env,
         Doing(ir, ir', Open, Nameable), ir.labels <= ir'.labels,
         Pending(f) \subseteq Fresh(ir.labels), f.kind \in LoopKinds => f.join \in Fresh(ir.labels),
         f.kind \in Keepers => f.reg \in Avail(ir', Open),
         NEW rs, reads' = reads \cup rs, writes' = writes, Loads(ir', rs)
  PROVE  /\ UsesInOrder' /\ Scoped(ir', frames', env, varSlots)
         /\ Named(ir', reads', writes')
<1>1. Wellformed(ir') /\ Wellformed(ir) /\ Ext(ir, ir') /\ frames \in Seq(Frame)
  BY AtSure DEF Ready, Doing
<1>2. UsesInOrder'
  BY <1>1, AtSure, UsesPushing
<1>3. Scoped(ir', frames, env, varSlots)
  BY <1>1, AtSure, ScopedStay
<1>4. f.kind \in Keepers => f.reg \in Avail(ir', OpenTo(ir', frames, Len(frames)))
  BY <1>1, OpenStays DEF Depth
<1>5. Scoped(ir', Append(frames, f), env, varSlots)
  BY <1>1, <1>3, <1>4, ScopedPush
<1>6. Named(ir', reads', writes')
  <2>1. Loads(ir', reads) /\ Stores(ir', writes)
    BY <1>1, AtSure, ExtNamed DEF Named
  <2> QED BY <2>1 DEF Named, Loads, Stores
<1> QED BY <1>2, <1>5, <1>6

LEMMA PushUInv ==
  ASSUME Sure, Ready(ir'), NEW f \in Frame, frames' = Append(frames, f), f.env = env,
         Doing(ir, ir', Open, Nameable), ir.labels <= ir'.labels,
         Pending(f) \subseteq Fresh(ir.labels), f.kind \in LoopKinds => f.join \in Fresh(ir.labels),
         f.kind \in Keepers => f.reg \in Avail(ir', Open),
         NEW rs, reads' = reads \cup rs, writes' = writes, Loads(ir', rs),
         env' = env, varSlots' = varSlots
  PROVE  UInv'
<1>1. /\ UsesInOrder' /\ Scoped(ir', frames', env, varSlots)
      /\ Named(ir', reads', writes')
  BY PushParts
<1> QED BY <1>1 DEF UInv

LEMMA BlockUses ==
  ASSUME Sure, VisitBlock
  PROVE  UInv'
<1> DEFINE f == NewFrame("block", Entry, Entry, NoReg, TRUE)
<1>1. /\ Nesting("block", f) /\ env' = env /\ ir' = ir /\ varSlots' = varSlots
      /\ reads' = reads \cup {} /\ writes' = writes
  BY DEF VisitBlock, EnterScope
<1>2. Ready(ir')
  BY <1>1, AtVisit, AtSure DEF Nesting
<1>3. /\ f \in Frame /\ f.kind = "block" /\ f.env = env /\ frames' = Append(frames, f)
  <2>1. "block" \in Kinds /\ NoReg \in Nat /\ Entry \in Label
    BY DEF Kinds, NoReg, Entry, Label, Prefixes
  <2>2. f \in Frame
    BY <1>1, <2>1, AtSure, FrameType
  <2>3. f.kind = "block" /\ f.env = env
    BY DEF NewFrame
  <2> HIDE DEF f
  <2> QED BY <1>1, <2>2, <2>3 DEF Nesting
<1> HIDE DEF f
<1>4. Pending(f) = {} /\ f.kind \notin LoopKinds /\ f.kind \notin Keepers
  BY <1>3, PendingOf DEF LoopKinds, Keepers
<1>5. Doing(ir, ir', Open, Nameable) /\ ir.labels <= ir'.labels
  BY <1>1, AtSure
<1> QED BY <1>1, <1>2, <1>3, <1>4, <1>5, NothingMore, PushUInv

LEMMA IfUses ==
  ASSUME Sure, NEW e \in Exprs, NEW hasElse \in BOOLEAN, NEW scoped \in BOOLEAN,
         VisitIf(e, hasElse, scoped)
  PROVE  UInv'
<1> DEFINE b1    == Eval(ir, varSlots, e)
           n     == IF hasElse THEN 3 ELSE 2
           then  == newLabel(b1, "then", 0)
           else  == newLabel(b1, "else", 1)
           k     == IF hasElse THEN 2 ELSE 1
           merge == newLabel(b1, "merge", k)
           next  == IF hasElse THEN else ELSE merge
           b2    == buildCondBranch(b1, b1.val, then, next)
           f     == NewFrame("if", next, merge, NoReg, scoped)
<1>1. /\ ir' = Issued(OpenBlock(b2, then), n) /\ Nesting("if", f) /\ Bound(e) /\ env' = env
      /\ reads' = reads \cup ReadOf(e, b1.val) /\ UNCHANGED <<varSlots, writes>>
  BY DEF VisitIf, Usable, EnterScope
<1>2. Ready(ir)
  BY <1>1, AtVisit, AtSure DEF Nesting
<1>3. /\ Ready(b1) /\ Made(ir, ir, b1, Open, Nameable) /\ Result(b1)
      /\ Loads(b1, ReadOf(e, b1.val))
  BY <1>1, <1>2, AtSure, EvalSure
<1> HIDE DEF b1
<1>4. /\ {then, else, merge} \subseteq Label /\ {then, else, merge} \subseteq Fresh(ir.labels)
  <2>1. {"then", "else", "merge"} \subseteq Prefixes \ {"entry"} /\ {0, 1, k} \subseteq Nat
    BY DEF Prefixes
  <2>2. Wellformed(b1) /\ b1.labels = ir.labels /\ ir.labels \in Nat /\ ir.labels <= b1.labels
    BY <1>3, AtSure DEF Made, Ready
  <2> HIDE DEF k
  <2> QED BY <2>1, <2>2, FreshLabel
<1> HIDE DEF then, else, merge
<1>5. next \in {else, merge} /\ n \in Nat
  OBVIOUS
<1> HIDE DEF next, n
<1>6. then \in Nameable /\ next \in Nameable /\ then \in Label /\ next \in Label /\ merge \in Label
  BY <1>4, <1>5 DEF Nameable
<1>7. Shut(b2) /\ Made(ir, b1, b2, Open, Nameable)
  <2>1. Doing(ir, b1, Open, Nameable) /\ b1.val \in Holds(b1, Open) /\ b1.val \in Nat
    BY <1>3, MadeDoing, ResultHeld DEF Result
  <2> QED BY <1>3, <1>6, <2>1, CondBranchUses
<1> HIDE DEF b2
<1>8. /\ Ready(ir') /\ Doing(ir, ir', Open, Nameable) /\ Ext(b2, ir') /\ ir'.labels = b2.labels + n
  <2>1. Doing(ir, b2, Open, Nameable)
    BY <1>7, MadeDoing
  <2> QED BY <1>1, <1>5, <1>6, <1>7, <2>1, NextBlockUses
<1>9. Loads(ir', ReadOf(e, b1.val)) /\ ir.labels <= ir'.labels
  <2>1. Wellformed(b1) /\ Wellformed(b2) /\ Wellformed(ir') /\ ir.labels \in Nat
    BY <1>3, <1>7, <1>8, AtSure DEF Ready, Shut
  <2>2. Ext(b1, ir')
    BY <1>7, <1>8, <2>1, ExtTrans DEF Made
  <2>3. Loads(ir', ReadOf(e, b1.val))
    BY <1>3, <2>1, <2>2, ExtNamed
  <2>4. ir.labels <= ir'.labels
    BY <1>3, <1>5, <1>7, <1>8, <2>1 DEF Made
  <2> QED BY <2>3, <2>4
<1>10. /\ f \in Frame /\ f.kind = "if" /\ f.next = next /\ f.join = merge /\ f.env = env
       /\ frames' = Append(frames, f)
  <2>1. "if" \in Kinds /\ NoReg \in Nat
    BY DEF Kinds, NoReg
  <2> QED BY <1>1, <1>6, <2>1, PushFacts
<1> HIDE DEF f
<1>11. Pending(f) \subseteq Fresh(ir.labels) /\ f.kind \notin LoopKinds /\ f.kind \notin Keepers
  BY <1>4, <1>5, <1>10, PendingOf DEF LoopKinds, Keepers
<1> QED BY <1>1, <1>8, <1>9, <1>10, <1>11, PushUInv

LEMMA NextBlockIs ==
  ASSUME NEW a, NEW b, Shut(b), NEW O, NEW K, Doing(a, b, O, K), NEW l \in Label, NEW n \in Nat,
         NEW c, c = Issued(OpenBlock(b, l), n)
  PROVE  Ready(c) /\ Doing(a, c, O, K) /\ Ext(b, c) /\ c.labels = b.labels + n
BY NextBlockUses

\* Closing the current block with a branch, and opening the next one.
LEMMA EnteredUses ==
  ASSUME Sure, NEW b, Ready(b), Doing(ir, b, Open, Nameable), NEW l \in Label, l \in Nameable
  PROVE  LET c == OpenBlock(buildBranch(b, l), l)
         IN  /\ Ready(c) /\ Doing(ir, c, Open, Nameable) /\ Ext(b, c) /\ c.labels = b.labels
<1> DEFINE d == buildBranch(b, l)
           c == OpenBlock(d, l)
<1>1. Shut(d) /\ Made(ir, b, d, Open, Nameable)
  BY BranchUses
<1>2. Doing(ir, d, Open, Nameable) /\ Ext(b, d) /\ d.labels = b.labels
  BY <1>1, MadeDoing
<1> HIDE DEF d
<1>3. /\ Ready(c) /\ Doing(ir, c, Open, Nameable) /\ Ext(d, c) /\ c.labels = d.labels
  BY <1>1, <1>2, OpenUses
<1> HIDE DEF c
<1>4. Ext(b, c)
  <2>1. Wellformed(b) /\ Wellformed(c) /\ Wellformed(d)
    BY <1>1, <1>3 DEF Ready, Shut
  <2> QED BY <1>2, <1>3, <2>1, ExtTrans
<1> QED BY <1>2, <1>3, <1>4 DEF c, d

\* The body of a loop is entered behind the test in its condition's block.
LEMMA TestedUses ==
  ASSUME Sure, NEW b, Ready(b), Doing(ir, b, Open, Nameable), Result(b),
         NEW body \in Label, NEW exit \in Label, body \in Nameable, exit \in Nameable,
         NEW n \in Nat
  PROVE  LET c == Issued(OpenBlock(buildCondBranch(b, b.val, body, exit), body), n)
         IN  /\ Ready(c) /\ Doing(ir, c, Open, Nameable) /\ Ext(b, c)
             /\ c.labels = b.labels + n
<1> DEFINE d == buildCondBranch(b, b.val, body, exit)
           c == Issued(OpenBlock(d, body), n)
<1>1. Shut(d) /\ Made(ir, b, d, Open, Nameable)
  <2>1. b.val \in Holds(b, Open) /\ b.val \in Nat
    BY ResultHeld DEF Result
  <2> QED BY <2>1, CondBranchUses
<1>2. Doing(ir, d, Open, Nameable) /\ Ext(b, d) /\ d.labels = b.labels
  BY <1>1, MadeDoing
<1> HIDE DEF d
<1>3. /\ Ready(c) /\ Doing(ir, c, Open, Nameable) /\ Ext(d, c) /\ c.labels = d.labels + n
  <2>1. c = Issued(OpenBlock(d, body), n)
    OBVIOUS
  <2> HIDE DEF c
  <2> QED BY <1>1, <1>2, <2>1, NextBlockIs
<1> HIDE DEF c
<1>4. Ext(b, c)
  <2>1. Wellformed(b) /\ Wellformed(c) /\ Wellformed(d)
    BY <1>1, <1>3 DEF Ready, Shut
  <2> QED BY <1>2, <1>3, <2>1, ExtTrans
<1> QED BY <1>2, <1>3, <1>4 DEF c, d

LEMMA LoopUses ==
  ASSUME Sure, NEW e \in Exprs, NEW kind \in {"while", "vloop"}, VisitLoop(e, kind)
  PROVE  UInv'
<1> DEFINE cond == newLabel(ir, kind, 0)
           body == newLabel(ir, kind, 1)
           exit == newLabel(ir, kind, 2)
           b1   == OpenBlock(buildBranch(ir, cond), cond)
           b2   == Eval(b1, varSlots, e)
           c    == Issued(OpenBlock(buildCondBranch(b2, b2.val, body, exit), body), 3)
           f    == NewFrame("loop", exit, cond, NoReg, TRUE)
<1>1. /\ ir' = c /\ Nesting(kind, f) /\ Bound(e) /\ env' = env
      /\ reads' = reads \cup ReadOf(e, b2.val) /\ UNCHANGED <<varSlots, writes>>
  BY DEF VisitLoop, Usable, EnterScope
<1>2. Ready(ir) /\ Wellformed(ir) /\ ir.labels \in Nat
  BY <1>1, AtVisit, AtSure DEF Nesting
<1>3. /\ {cond, body, exit} \subseteq Label /\ {cond, body, exit} \subseteq Fresh(ir.labels)
  <2>1. kind \in Prefixes \ {"entry"} /\ {0, 1, 2} \subseteq Nat
    BY DEF Prefixes
  <2> QED BY <1>2, <2>1, FreshLabel
<1> HIDE DEF cond, body, exit
<1>4. {cond, body, exit} \subseteq Nameable
  BY <1>3 DEF Nameable
<1>5. Ready(b1) /\ Doing(ir, b1, Open, Nameable) /\ b1.labels = ir.labels
  BY <1>2, <1>3, <1>4, AtSure, EnteredUses
<1> HIDE DEF b1
<1>6. /\ Ready(b2) /\ Made(ir, b1, b2, Open, Nameable) /\ Result(b2)
      /\ Loads(b2, ReadOf(e, b2.val))
  BY <1>1, <1>5, AtSure, EvalSure
<1> HIDE DEF b2
<1>7. /\ Ready(c) /\ Doing(ir, c, Open, Nameable) /\ Ext(b2, c) /\ c.labels = b2.labels + 3
  <2>1. Doing(ir, b2, Open, Nameable) /\ 3 \in Nat
    BY <1>6, MadeDoing
  <2> QED BY <1>3, <1>4, <1>6, <2>1, TestedUses
<1> HIDE DEF c
<1>8. Loads(ir', ReadOf(e, b2.val)) /\ ir.labels <= ir'.labels
  <2>1. Wellformed(b2) /\ Wellformed(c)
    BY <1>6, <1>7 DEF Ready
  <2>2. Loads(c, ReadOf(e, b2.val))
    BY <1>6, <1>7, <2>1, ExtNamed
  <2>3. ir.labels <= c.labels
    BY <1>2, <1>5, <1>6, <1>7 DEF Made
  <2> QED BY <1>1, <2>2, <2>3
<1>9. /\ f \in Frame /\ f.kind = "loop" /\ f.next = exit /\ f.join = cond /\ f.env = env
      /\ frames' = Append(frames, f)
  <2>1. "loop" \in Kinds /\ NoReg \in Nat
    BY DEF Kinds, NoReg
  <2>2. f \in Frame
    BY <1>1, <1>3, <2>1, AtSure, FrameType
  <2>3. f.kind = "loop" /\ f.next = exit /\ f.join = cond /\ f.env = env
    BY DEF NewFrame
  <2> HIDE DEF f
  <2> QED BY <1>1, <2>2, <2>3 DEF Nesting
<1> HIDE DEF f
<1>10. /\ Pending(f) \subseteq Fresh(ir.labels) /\ f.join \in Fresh(ir.labels)
       /\ f.kind \notin Keepers
  BY <1>3, <1>9, PendingOf DEF Keepers
<1> QED BY <1>1, <1>7, <1>8, <1>9, <1>10, PushUInv

LEMMA CountUses ==
  ASSUME Sure, VisitCountedVloop
  PROVE  UInv'
<1> DEFINE cond == newLabel(ir, "vloop_cond", 1)
           body == newLabel(ir, "vloop_body", 2)
           exit == newLabel(ir, "vloop_exit", 3)
           b1   == buildAlloca(ir)
           b2   == Value(b1, "int", <<>>)
           b3   == buildStore(b2, b2.val, b1.val)
           b4   == OpenBlock(buildBranch(b3, cond), cond)
           b5   == Value(b4, "poll", <<b1.val>>)
           c    == Issued(OpenBlock(buildCondBranch(b5, b5.val, body, exit), body), 4)
           f    == NewFrame("count", exit, cond, b1.val, TRUE)
<1>1. /\ ir' = c /\ Nesting("count", f) /\ env' = env
      /\ reads' = reads \cup {} /\ UNCHANGED <<varSlots, writes>>
  BY DEF VisitCountedVloop, EnterScope
<1>2. Ready(ir) /\ Wellformed(ir) /\ ir.labels \in Nat
  BY <1>1, AtVisit, AtSure DEF Nesting
<1>3. /\ {cond, body, exit} \subseteq Label /\ {cond, body, exit} \subseteq Fresh(ir.labels)
  <2>1. /\ {"vloop_cond", "vloop_body", "vloop_exit"} \subseteq Prefixes \ {"entry"}
        /\ {1, 2, 3} \subseteq Nat
    BY DEF Prefixes
  <2> QED BY <1>2, <2>1, FreshLabel
<1> HIDE DEF cond, body, exit
<1>4. {cond, body, exit} \subseteq Nameable
  BY <1>3 DEF Nameable
<1>5. Ready(b1) /\ Made(ir, ir, b1, Open, Nameable) /\ Result(b1)
  BY <1>2, AtSure, AllocaUses
<1> HIDE DEF b1
<1>6. /\ Doing(ir, b1, Open, Nameable) /\ b1.labels = ir.labels /\ b1.val \in Nat
      /\ b1.val \in Avail(b1, Open)
  <2>1. Doing(ir, b1, Open, Nameable) /\ b1.labels = ir.labels /\ Len(b1.blocks) = Len(ir.blocks)
    BY <1>5, MadeDoing
  <2>2. b1.val \in Avail(b1, Open) /\ b1.val \in Nat
    BY <1>5, <2>1, AtSure, ResultHeld DEF Result
  <2> QED BY <2>1, <2>2
<1>7. Ready(b2) /\ Made(ir, b1, b2, Open, Nameable) /\ Result(b2)
  <2>1. /\ "int" \in Ops /\ "int" \notin Terminators
        /\ <<>> \in Seq(Nat) /\ Elements(<<>>) = {}
    BY DEF Ops, Terminators, Elements
  <2> QED BY <1>5, <1>6, <2>1, ValueUses
<1> HIDE DEF b2
<1>8. /\ Doing(ir, b2, Open, Nameable) /\ Ext(b1, b2) /\ b2.labels = b1.labels
      /\ Wellformed(b1) /\ Wellformed(b2)
  BY <1>5, <1>7, MadeDoing DEF Ready
<1>9. Ready(b3) /\ Made(ir, b2, b3, Open, Nameable)
  <2>1. b2.val \in Holds(b2, Open) /\ b2.val \in Nat
    BY <1>7, ResultHeld DEF Result
  <2>2. b1.val \in Holds(b2, Open)
    BY <1>6, <1>8, MadeOn DEF Holds
  <2> QED BY <1>6, <1>7, <1>8, <2>1, <2>2, StoreUses
<1> HIDE DEF b3
<1>10. /\ Doing(ir, b3, Open, Nameable) /\ Ext(b2, b3) /\ b3.labels = b2.labels
       /\ Wellformed(b3)
  BY <1>9, MadeDoing DEF Ready
<1>11. Ready(b4) /\ Doing(ir, b4, Open, Nameable) /\ Ext(b3, b4) /\ b4.labels = b3.labels
  BY <1>3, <1>4, <1>9, <1>10, EnteredUses
<1> HIDE DEF b4
<1>12. Wellformed(b4) /\ Ext(b1, b4) /\ b1.val \in Avail(b4, Open)
  <2>1. Wellformed(b4)
    BY <1>11 DEF Ready
  <2>2. Ext(b1, b3)
    BY <1>8, <1>10, ExtTrans
  <2>3. Ext(b1, b4)
    BY <1>8, <1>10, <1>11, <2>1, <2>2, ExtTrans
  <2> QED BY <1>6, <1>8, <1>11, <2>1, <2>3, MadeOn
<1>13. Ready(b5) /\ Made(ir, b4, b5, Open, Nameable) /\ Result(b5)
  <2>1. "poll" \in Ops /\ "poll" \notin Terminators
    BY DEF Ops, Terminators
  <2>2. <<b1.val>> \in Seq(Nat) /\ Elements(<<b1.val>>) = {b1.val}
    BY <1>6 DEF Elements
  <2>3. {b1.val} \subseteq Holds(b4, Open)
    BY <1>12 DEF Holds
  <2> QED BY <1>11, <2>1, <2>2, <2>3, ValueUses
<1> HIDE DEF b5
<1>14. Doing(ir, b5, Open, Nameable) /\ Ext(b4, b5) /\ b5.labels = b4.labels /\ Wellformed(b5)
  BY <1>13, MadeDoing DEF Ready
<1>15. /\ Ready(c) /\ Doing(ir, c, Open, Nameable) /\ Ext(b5, c) /\ c.labels = b5.labels + 4
  <2>1. 4 \in Nat
    OBVIOUS
  <2> QED BY <1>3, <1>4, <1>13, <1>14, <2>1, TestedUses
<1> HIDE DEF c
<1>16. b1.val \in Avail(c, Open)
  <2>1. Wellformed(c)
    BY <1>15 DEF Ready
  <2>2. b1.val \in Avail(b5, Open)
    BY <1>11, <1>12, <1>14, MadeOn
  <2> QED BY <1>14, <1>15, <2>1, <2>2, MadeOn
<1>17. ir.labels <= ir'.labels
  BY <1>1, <1>2, <1>6, <1>8, <1>10, <1>11, <1>14, <1>15
<1>18. /\ f \in Frame /\ f.kind = "count" /\ f.next = exit /\ f.join = cond /\ f.env = env
       /\ f.reg = b1.val /\ frames' = Append(frames, f)
  <2>1. "count" \in Kinds
    BY DEF Kinds
  <2>2. f \in Frame
    BY <1>1, <1>3, <1>6, <2>1, AtSure, FrameType
  <2>3. f.kind = "count" /\ f.next = exit /\ f.join = cond /\ f.env = env /\ f.reg = b1.val
    BY DEF NewFrame
  <2> HIDE DEF f
  <2> QED BY <1>1, <2>2, <2>3 DEF Nesting
<1> HIDE DEF f
<1>19. /\ Pending(f) \subseteq Fresh(ir.labels) /\ f.join \in Fresh(ir.labels)
  BY <1>3, <1>18, PendingOf
<1> QED BY <1>1, <1>15, <1>16, <1>17, <1>18, <1>19, NothingMore, PushUInv

LEMMA ForUses ==
  ASSUME Sure, NEW x \in Names, NEW e \in Exprs, VisitFor(x, e)
  PROVE  UInv'
<1> DEFINE b1    == buildAlloca(ir)
           slots == [varSlots EXCEPT ![x] = b1.val]
           inner == [env EXCEPT ![x] = [slot |-> b1.val, mut |-> FALSE]]
           b2    == Eval(b1, slots, e)
           b3    == buildAlloca(b2)
           b4    == buildStore(b3, b2.val, b3.val)
           cond  == newLabel(ir, "for_cond", 0)
           body  == newLabel(ir, "for_body", 1)
           exit  == newLabel(ir, "for_exit", 2)
           b5    == OpenBlock(buildBranch(b4, cond), cond)
           b6    == Value(b5, "poll", <<b3.val>>)
           c     == Issued(OpenBlock(buildCondBranch(b6, b6.val, body, exit), body), 3)
           rs    == IF e \in Names THEN {<<b2.val, inner[e].slot>>} ELSE {}
           f     == NewFrame("loop", exit, cond, NoReg, TRUE)
<1>1. /\ ir' = c /\ Nesting("for", f) /\ env' = inner /\ varSlots' = slots
      /\ reads' = reads \cup rs /\ writes' = writes
      /\ e \in Names => inner[e] # Unbound
  BY DEF VisitFor
<1>2. /\ Ready(ir) /\ Wellformed(ir) /\ ir.labels \in Nat /\ env[x] = Unbound
  BY <1>1, AtVisit, AtSure DEF Nesting, VisitFor, Plain
<1>3. /\ {cond, body, exit} \subseteq Label /\ {cond, body, exit} \subseteq Fresh(ir.labels)
  <2>1. /\ {"for_cond", "for_body", "for_exit"} \subseteq Prefixes \ {"entry"}
        /\ {0, 1, 2} \subseteq Nat
    BY DEF Prefixes
  <2> QED BY <1>2, <2>1, FreshLabel
<1> HIDE DEF cond, body, exit
<1>4. {cond, body, exit} \subseteq Nameable
  BY <1>3 DEF Nameable
<1>5. Ready(b1) /\ Made(ir, ir, b1, Open, Nameable) /\ Result(b1)
  BY <1>2, AtSure, AllocaUses
<1> HIDE DEF b1
<1>6. /\ Doing(ir, b1, Open, Nameable) /\ b1.labels = ir.labels /\ b1.val \in Nat
      /\ b1.val \in Avail(b1, Open) /\ Wellformed(b1) /\ b1.val # NoReg
  <2>1. Doing(ir, b1, Open, Nameable) /\ b1.labels = ir.labels /\ Len(b1.blocks) = Len(ir.blocks)
    BY <1>5, MadeDoing
  <2>2. b1.val \in Avail(b1, Open) /\ b1.val \in Nat /\ b1.val # NoReg
    BY <1>5, <2>1, AtSure, ResultHeld DEF Result
  <2> QED BY <1>5, <2>1, <2>2 DEF Ready
<1>7. /\ slots \in [Names -> Nat]
      /\ e \in Names => slots[e] \in Holds(b1, Open) /\ slots[e] # NoReg /\ inner[e].slot = slots[e]
  <2>1. slots \in [Names -> Nat]
    BY <1>6, AtSure
  <2>2. CASE e = x
    BY <1>6, <2>2, AtSure DEF Holds
  <2>3. ASSUME e \in Names, e # x
        PROVE  slots[e] \in Holds(b1, Open) /\ slots[e] # NoReg /\ inner[e].slot = slots[e]
    <3>1. inner[e] = env[e] /\ slots[e] = varSlots[e]
      BY <2>3, AtSure
    <3>2. env[e] # Unbound
      BY <1>1, <2>3, <3>1
    <3>3. Avail(ir, Open) \subseteq Holds(b1, Open)
      BY <1>6, HeldFrom
    <3> HIDE DEF slots, inner
    <3> QED BY <2>3, <3>1, <3>2, <3>3, AtName
  <2> QED BY <2>1, <2>2, <2>3
<1> HIDE DEF slots
<1>8. /\ Ready(b2) /\ Made(ir, b1, b2, Open, Nameable) /\ Result(b2)
      /\ e \in Names => Has(b2, "load", b2.val, <<slots[e]>>)
  BY <1>5, <1>6, <1>7, EvalUses
<1> HIDE DEF b2
<1>9. Doing(ir, b2, Open, Nameable) /\ Ext(b1, b2) /\ b2.labels = b1.labels /\ Wellformed(b2)
  BY <1>8, MadeDoing DEF Ready
<1>10. Loads(b2, rs)
  BY <1>7, <1>8 DEF Loads
<1> HIDE DEF rs
<1>11. Ready(b3) /\ Made(ir, b2, b3, Open, Nameable) /\ Result(b3)
  BY <1>8, <1>9, AllocaUses
<1> HIDE DEF b3
<1>12. /\ Doing(ir, b3, Open, Nameable) /\ Ext(b2, b3) /\ b3.labels = b2.labels /\ Wellformed(b3)
       /\ b3.val \in Nat /\ b3.val \in Avail(b3, Open) /\ b2.val \in Holds(b3, Open) /\ b2.val \in Nat
       /\ b3.val \in Holds(b3, Open)
  <2>1. /\ Doing(ir, b3, Open, Nameable) /\ Ext(b2, b3) /\ b3.labels = b2.labels
        /\ Wellformed(b3) /\ Len(b3.blocks) = Len(ir.blocks)
        /\ Holds(b2, Open) \subseteq Holds(b3, Open)
    BY <1>5, <1>8, <1>11, MadeDoing DEF Ready
  <2>2. b3.val \in Avail(b3, Open) /\ b3.val \in Nat /\ b3.val \in Holds(b3, Open)
    BY <1>11, <2>1, AtSure, ResultHeld DEF Result
  <2>3. b2.val \in Holds(b2, Open) /\ b2.val \in Nat
    BY <1>8, ResultHeld DEF Result
  <2> QED BY <2>1, <2>2, <2>3
<1>13. Ready(b4) /\ Made(ir, b3, b4, Open, Nameable)
  BY <1>11, <1>12, StoreUses
<1> HIDE DEF b4
<1>14. Doing(ir, b4, Open, Nameable) /\ Ext(b3, b4) /\ b4.labels = b3.labels /\ Wellformed(b4)
  BY <1>13, MadeDoing DEF Ready
<1>15. Ready(b5) /\ Doing(ir, b5, Open, Nameable) /\ Ext(b4, b5) /\ b5.labels = b4.labels
  BY <1>3, <1>4, <1>13, <1>14, EnteredUses
<1> HIDE DEF b5
<1>16. Wellformed(b5) /\ b3.val \in Avail(b5, Open)
  <2>1. Wellformed(b5)
    BY <1>15 DEF Ready
  <2>2. Ext(b3, b5)
    BY <1>12, <1>14, <1>15, <2>1, ExtTrans
  <2> QED BY <1>12, <1>15, <2>1, <2>2, MadeOn
<1>17. Ready(b6) /\ Made(ir, b5, b6, Open, Nameable) /\ Result(b6)
  <2>1. "poll" \in Ops /\ "poll" \notin Terminators
    BY DEF Ops, Terminators
  <2>2. <<b3.val>> \in Seq(Nat) /\ Elements(<<b3.val>>) = {b3.val}
    BY <1>12 DEF Elements
  <2>3. {b3.val} \subseteq Holds(b5, Open)
    BY <1>16 DEF Holds
  <2> QED BY <1>15, <2>1, <2>2, <2>3, ValueUses
<1> HIDE DEF b6
<1>18. Doing(ir, b6, Open, Nameable) /\ Ext(b5, b6) /\ b6.labels = b5.labels /\ Wellformed(b6)
  BY <1>17, MadeDoing DEF Ready
<1>19. /\ Ready(c) /\ Doing(ir, c, Open, Nameable) /\ Ext(b6, c) /\ c.labels = b6.labels + 3
  <2>1. 3 \in Nat
    OBVIOUS
  <2> QED BY <1>3, <1>4, <1>17, <1>18, <2>1, TestedUses
<1> HIDE DEF c
<1>20. /\ Wellformed(c) /\ Ext(b2, c) /\ Ext(b1, c)
  <2>1. Wellformed(c)
    BY <1>19 DEF Ready
  <2>2. Ext(b5, c)
    BY <1>16, <1>18, <1>19, <2>1, ExtTrans
  <2>3. Ext(b4, c)
    BY <1>14, <1>15, <1>16, <2>1, <2>2, ExtTrans
  <2>4. Ext(b3, c)
    BY <1>12, <1>14, <2>1, <2>3, ExtTrans
  <2>5. Ext(b2, c)
    BY <1>9, <1>12, <2>1, <2>4, ExtTrans
  <2> QED BY <1>6, <1>9, <2>1, <2>5, ExtTrans
<1>21. /\ ir.labels <= ir'.labels /\ Loads(ir', rs) /\ b1.val \in Avail(c, Open)
  <2>1. ir.labels <= ir'.labels
    BY <1>1, <1>2, <1>6, <1>9, <1>12, <1>14, <1>15, <1>18, <1>19
  <2>2. Loads(c, rs)
    BY <1>9, <1>10, <1>20, ExtNamed
  <2>3. b1.val \in Avail(c, Open)
    BY <1>6, <1>19, <1>20, MadeOn
  <2> QED BY <1>1, <2>1, <2>2, <2>3
<1>22. /\ f \in Frame /\ f.kind = "loop" /\ f.next = exit /\ f.join = cond /\ f.env = env
       /\ f.scoped /\ frames' = Append(frames, f)
  <2>1. "loop" \in Kinds /\ NoReg \in Nat
    BY DEF Kinds, NoReg
  <2>2. f \in Frame
    BY <1>1, <1>3, <2>1, AtSure, FrameType
  <2>3. f.kind = "loop" /\ f.next = exit /\ f.join = cond /\ f.env = env /\ f.scoped
    BY DEF NewFrame
  <2> HIDE DEF f
  <2> QED BY <1>1, <2>2, <2>3 DEF Nesting
<1> HIDE DEF f
<1>23. /\ Pending(f) \subseteq Fresh(ir.labels) /\ f.join \in Fresh(ir.labels)
       /\ f.kind \notin Keepers
  BY <1>3, <1>22, PendingOf DEF Keepers
<1>24. /\ UsesInOrder' /\ Scoped(ir', frames', env, varSlots) /\ Named(ir', reads', writes')
  BY <1>1, <1>19, <1>21, <1>22, <1>23, PushParts
<1>25. Scoped(ir', frames', env', varSlots')
  <2>1. /\ frames \in Seq(Frame) /\ Depth = Len(frames) /\ Depth \in Nat
    BY AtSure DEF Depth
  <2>2. /\ frames' \in Seq(Frame) /\ Len(frames') = Depth + 1 /\ frames' # <<>>
        /\ frames'[Len(frames')] = f
        /\ \A m \in 1 .. Depth : frames'[m] = frames[m]
    BY <1>22, <2>1
  <2>3. Avail(ir', Open) \subseteq Avail(ir', OpenTo(ir', frames', Depth))
    BY <1>1, <1>19, <1>20, <2>2, OpenStays DEF Doing
  <2>4. OpenTo(ir', frames', Depth) \subseteq OpenTo(ir', frames', Len(frames'))
    <3>1. Depth <= Len(frames') /\ Len(frames') \in Nat
      BY <2>1, <2>2
    <3> QED BY <2>1, <3>1, OpenWithin
  <2>5. b1.val \in Avail(ir', OpenTo(ir', frames', Len(frames')))
    BY <1>1, <1>21, <2>3, <2>4 DEF Avail
  <2>6. Scoped(ir', frames', inner, slots)
    <3>1. FALSE \in BOOLEAN /\ env \in [Names -> Binding] /\ varSlots \in [Names -> Nat]
      BY AtSure
    <3> QED BY <1>2, <1>6, <1>22, <1>24, <2>2, <2>5, <3>1, ScopedDeclare DEF slots
  <2> QED BY <1>1, <2>6
<1> QED BY <1>24, <1>25 DEF UInv

\* One arm of a match, which compares the subject again.
LEMMA ArmUses ==
  ASSUME NEW a, NEW b, Ready(b), NEW O, NEW K, Doing(a, b, O, K),
         NEW subj \in Nat, subj \in Holds(b, O), NEW exit \in Label,
         NEW wild \in BOOLEAN, NEW last \in BOOLEAN,
         newLabel(b, "match_arm", 0) \in K,
         IF last THEN exit \in K ELSE newLabel(b, "match_next", 1) \in K
  PROVE  LET arm == Arm(b, subj, exit, wild, last)
         IN  /\ Ready(arm.ir) /\ Doing(a, arm.ir, O, K) /\ Ext(b, arm.ir)
             /\ b.labels <= arm.ir.labels /\ arm.next \in Label
             /\ arm.next = IF last THEN exit ELSE newLabel(b, "match_next", 1)
<1> DEFINE body == newLabel(b, "match_arm", 0)
           next == IF last THEN exit ELSE newLabel(b, "match_next", 1)
           b1   == Value(b, "test", <<subj>>)
           w    == buildBranch(b, body)
           t    == buildCondBranch(b1, b1.val, body, next)
           b2   == IF wild THEN w ELSE t
           n    == IF last THEN 1 ELSE 2
           c    == Issued(OpenBlock(b2, body), n)
           arm  == Arm(b, subj, exit, wild, last)
<1>1. arm.ir = c /\ arm.next = next
  BY DEF Arm
<1> HIDE DEF arm
<1>2. Wellformed(b) /\ b.labels \in Nat
  BY DEF Ready, Wellformed, Builder
<1>3. body \in Label /\ next \in Label /\ body \in K /\ next \in K /\ n \in Nat
  <2>1. {"match_arm", "match_next"} \subseteq Prefixes /\ 0 \in Nat /\ 1 \in Nat
    BY DEF Prefixes
  <2>2. body \in Label /\ newLabel(b, "match_next", 1) \in Label
    BY <1>2, <2>1, NewLabelType
  <2> QED BY <2>2
<1>4. next = IF last THEN exit ELSE newLabel(b, "match_next", 1)
  OBVIOUS
<1> HIDE DEF body, next, n
<1>5. Ready(b1) /\ Made(a, b, b1, O, K) /\ Result(b1)
  <2>1. "test" \in Ops /\ "test" \notin Terminators
    BY DEF Ops, Terminators
  <2>2. <<subj>> \in Seq(Nat) /\ Elements(<<subj>>) = {subj} /\ {subj} \subseteq Holds(b, O)
    BY DEF Elements
  <2> QED BY <2>1, <2>2, ValueUses
<1> HIDE DEF b1
<1>6. Shut(t) /\ Made(a, b1, t, O, K)
  <2>1. Doing(a, b1, O, K) /\ b1.val \in Holds(b1, O) /\ b1.val \in Nat
    BY <1>5, MadeDoing, ResultHeld DEF Result
  <2> QED BY <1>3, <1>5, <2>1, CondBranchUses
<1> HIDE DEF t
<1>7. Shut(w) /\ Made(a, b, w, O, K)
  BY <1>3, BranchUses
<1> HIDE DEF w
<1>8. /\ Shut(b2) /\ Doing(a, b2, O, K) /\ Ext(b, b2) /\ b2.labels = b.labels
  <2>1. /\ Doing(a, t, O, K) /\ Ext(b1, t) /\ t.labels = b1.labels /\ Ext(b, b1) /\ b1.labels = b.labels
        /\ Doing(a, w, O, K) /\ Ext(b, w) /\ w.labels = b.labels
    BY <1>5, <1>6, <1>7, MadeDoing
  <2>2. Ext(b, t)
    <3>1. Wellformed(b1) /\ Wellformed(t)
      BY <1>5, <1>6 DEF Ready, Shut
    <3> QED BY <1>2, <2>1, <3>1, ExtTrans
  <2> QED BY <1>6, <1>7, <2>1, <2>2
<1> HIDE DEF b2
<1>9. /\ Ready(c) /\ Doing(a, c, O, K) /\ Ext(b2, c) /\ c.labels = b2.labels + n
  <2>1. c = Issued(OpenBlock(b2, body), n)
    OBVIOUS
  <2> HIDE DEF c
  <2> QED BY <1>3, <1>8, <2>1, NextBlockIs
<1> HIDE DEF c
<1>10. Ext(b, c)
  <2>1. Wellformed(b2) /\ Wellformed(c)
    BY <1>8, <1>9 DEF Ready, Shut
  <2> QED BY <1>2, <1>8, <1>9, <2>1, ExtTrans
<1>11. b.labels <= c.labels
  BY <1>2, <1>3, <1>8, <1>9
<1> QED BY <1>1, <1>3, <1>4, <1>9, <1>10, <1>11 DEF arm

LEMMA MatchUses ==
  ASSUME Sure, NEW e \in Exprs, NEW wild \in BOOLEAN, NEW last \in BOOLEAN,
         NEW scoped \in BOOLEAN, VisitMatch(e, wild, last, scoped)
  PROVE  UInv'
<1> DEFINE b1   == Eval(ir, varSlots, e)
           exit == newLabel(b1, "match_exit", 0)
           i1   == Issued(b1, 1)
           arm  == Arm(i1, b1.val, exit, wild, last)
           kind == IF wild THEN "wild" ELSE "arm"
           f    == NewFrame(kind, arm.next, exit, b1.val, scoped)
<1>1. /\ ir' = arm.ir /\ Nesting("match", f) /\ Bound(e) /\ env' = env
      /\ reads' = reads \cup ReadOf(e, b1.val) /\ UNCHANGED <<varSlots, writes>>
  BY DEF VisitMatch, Usable, EnterScope
<1>2. Ready(ir) /\ ir.labels \in Nat
  BY <1>1, AtVisit, AtSure DEF Nesting
<1>3. /\ Ready(b1) /\ Made(ir, ir, b1, Open, Nameable) /\ Result(b1)
      /\ Loads(b1, ReadOf(e, b1.val))
  BY <1>1, <1>2, AtSure, EvalSure
<1> HIDE DEF b1
<1>4. /\ Doing(ir, b1, Open, Nameable) /\ b1.labels = ir.labels /\ b1.val \in Nat
      /\ b1.val \in Avail(b1, Open) /\ Wellformed(b1)
  <2>1. Doing(ir, b1, Open, Nameable) /\ b1.labels = ir.labels /\ Len(b1.blocks) = Len(ir.blocks)
    BY <1>3, MadeDoing
  <2>2. b1.val \in Avail(b1, Open) /\ b1.val \in Nat
    BY <1>3, <2>1, AtSure, ResultHeld DEF Result
  <2> QED BY <1>3, <2>1, <2>2 DEF Ready
<1>5. exit \in Label /\ exit \in Fresh(ir.labels)
  <2>1. "match_exit" \in Prefixes \ {"entry"} /\ 0 \in Nat
    BY DEF Prefixes
  <2>2. ir.labels <= b1.labels
    BY <1>2, <1>4
  <2> QED BY <1>2, <1>4, <2>1, <2>2, FreshLabel
<1> HIDE DEF exit
<1>6. /\ Ready(i1) /\ Doing(ir, i1, Open, Nameable) /\ Ext(b1, i1) /\ i1.labels = ir.labels + 1
      /\ Avail(i1, Open) = Avail(b1, Open) /\ Wellformed(i1)
  <2>1. 1 \in Nat
    OBVIOUS
  <2>2. /\ Ready(i1) /\ Doing(ir, i1, Open, Nameable) /\ Ext(b1, i1) /\ i1.labels = b1.labels + 1
        /\ Avail(i1, Open) = Avail(b1, Open)
    BY <1>3, <1>4, <2>1, IssuedUses
  <2> QED BY <1>4, <2>2 DEF Ready
<1> HIDE DEF i1
<1>7. /\ newLabel(i1, "match_arm", 0) \in Fresh(ir.labels)
      /\ newLabel(i1, "match_next", 1) \in Fresh(ir.labels)
  <2>1. {"match_arm", "match_next"} \subseteq Prefixes \ {"entry"} /\ 0 \in Nat /\ 1 \in Nat
    BY DEF Prefixes
  <2>2. ir.labels <= i1.labels
    BY <1>2, <1>6
  <2> QED BY <1>2, <1>6, <2>1, <2>2, FreshLabel
<1>8. /\ Ready(arm.ir) /\ Doing(ir, arm.ir, Open, Nameable) /\ Ext(i1, arm.ir)
      /\ i1.labels <= arm.ir.labels /\ arm.next \in Label
      /\ arm.next = IF last THEN exit ELSE newLabel(i1, "match_next", 1)
  <2>1. b1.val \in Holds(i1, Open)
    BY <1>4, <1>6 DEF Holds
  <2>2. /\ newLabel(i1, "match_arm", 0) \in Nameable
        /\ IF last THEN exit \in Nameable ELSE newLabel(i1, "match_next", 1) \in Nameable
    BY <1>5, <1>7 DEF Nameable
  <2> QED BY <1>4, <1>5, <1>6, <2>1, <2>2, ArmUses
<1> HIDE DEF arm
<1>9. /\ Wellformed(arm.ir) /\ Ext(b1, arm.ir)
  <2>1. Wellformed(arm.ir)
    BY <1>8 DEF Ready
  <2> QED BY <1>4, <1>6, <1>8, <2>1, ExtTrans
<1>10. /\ Loads(ir', ReadOf(e, b1.val)) /\ b1.val \in Avail(ir', Open)
  <2>1. Loads(arm.ir, ReadOf(e, b1.val))
    BY <1>3, <1>4, <1>9, ExtNamed
  <2>2. b1.val \in Avail(arm.ir, Open)
    BY <1>4, <1>8, <1>9, MadeOn
  <2> QED BY <1>1, <2>1, <2>2
<1>11. ir.labels <= ir'.labels
  <2>1. arm.ir.labels \in Nat
    BY <1>9 DEF Wellformed, Builder
  <2> QED BY <1>1, <1>2, <1>6, <1>8, <2>1
<1>12. kind \in {"wild", "arm"}
  OBVIOUS
<1> HIDE DEF kind
<1>13. /\ f \in Frame /\ f.kind = kind /\ f.next = arm.next /\ f.join = exit /\ f.env = env
       /\ f.reg = b1.val /\ frames' = Append(frames, f)
  <2>1. kind \in Kinds
    BY <1>12 DEF Kinds
  <2>2. f \in Frame
    BY <1>1, <1>4, <1>5, <1>8, <2>1, AtSure, FrameType
  <2>3. /\ f.kind = kind /\ f.next = arm.next /\ f.join = exit /\ f.env = env /\ f.reg = b1.val
    BY DEF NewFrame
  <2> HIDE DEF f
  <2> QED BY <1>1, <2>2, <2>3 DEF Nesting
<1> HIDE DEF f
<1>14. Pending(f) \subseteq Fresh(ir.labels) /\ f.kind \notin LoopKinds
  <2>1. arm.next \in Fresh(ir.labels)
    BY <1>5, <1>7, <1>8
  <2> QED BY <1>5, <1>12, <1>13, <2>1, PendingOf DEF LoopKinds
<1>15. Ready(ir') /\ Doing(ir, ir', Open, Nameable)
  BY <1>1, <1>8
<1> QED BY <1>1, <1>10, <1>11, <1>13, <1>14, <1>15, PushUInv

-----------------------------------------------------------------------------
(***************************************************************************)
(* The ends of bodies: a visitor resumes.                                  *)
(***************************************************************************)
Behind == OpenTo(ir, frames, Depth - 1)

LEMMA EndFacts ==
  ASSUME Sure, NEW kinds, Ending(kinds)
  PROVE  /\ Ready(ir) /\ Wellformed(ir) /\ frames # <<>> /\ Top.kind \in kinds /\ Top \in Frame
         /\ Top.next \in Label /\ Top.join \in Label /\ Top.reg \in Nat
         /\ Depth \in Nat \ {0} /\ Depth - 1 \in Nat
         /\ Pending(Top) \subseteq Nameable
         /\ Top.kind \in LoopKinds => Top.join \in Nameable
         /\ UNCHANGED <<varSlots, reads, writes>>
         /\ Behind \subseteq Open /\ Behind \subseteq 1 .. Len(ir.blocks)
         /\ Top.kind \in Keepers => Top.reg \in Avail(ir, Behind)
<1>1. /\ frames # <<>> /\ Top.kind \in kinds /\ UNCHANGED <<varSlots, reads, writes>>
  BY DEF Ending
<1>2. /\ Ready(ir) /\ Wellformed(ir) /\ Top \in Frame
      /\ Top.next \in Label /\ Top.join \in Label /\ Top.reg \in Nat
  BY AtSure, AtEnd
<1>3. frames \in Seq(Frame) /\ Scoped(ir, frames, env, varSlots)
  BY AtSure
<1>4. Depth \in Nat \ {0} /\ Depth - 1 \in Nat /\ Depth \in 1 .. Depth /\ Depth - 1 <= Depth
  BY <1>1, <1>3 DEF Depth
<1>5. Pending(Top) \subseteq Nameable /\ (Top.kind \in LoopKinds => Top.join \in Nameable)
  BY <1>4 DEF Nameable, Known, PendingTo, Back, Top, Depth
<1>6. Behind \subseteq Open /\ Behind \subseteq 1 .. Len(ir.blocks)
  BY <1>4, OpenWithin DEF Behind, Open
<1>7. Top.kind \in Keepers => Top.reg \in Avail(ir, Behind)
  <2>1. KeptOpen(ir, frames, Depth)
    BY <1>3, <1>4 DEF Scoped, Depth
  <2> QED BY <2>1 DEF KeptOpen, Behind, Top, Depth
<1> QED BY <1>1, <1>2, <1>4, <1>5, <1>6, <1>7

\* The scope that a visitor goes back to.
LEMMA EnvLeft ==
  ASSUME Sure, frames # <<>>
  PROVE  /\ ~Top.scoped => env = Top.env
         /\ LeaveScope(Top) => env' = Top.env
<1>1. frames \in Seq(Frame) /\ Scoped(ir, frames, env, varSlots) /\ Wellformed(ir)
  BY AtSure
<1>2. ~Top.scoped => env = Top.env
  BY <1>1, ScopedPop DEF Top
<1> QED BY <1>2 DEF LeaveScope

LEMMA PopUInv ==
  ASSUME Sure, frames # <<>>, Ready(ir'), frames' = Pop, env' = Top.env,
         UNCHANGED <<varSlots, reads, writes>>,
         Doing(ir, ir', Behind, Nameable), ir.labels <= ir'.labels
  PROVE  UInv'
<1>1. Wellformed(ir') /\ Wellformed(ir) /\ Ext(ir, ir') /\ frames \in Seq(Frame)
  BY AtSure DEF Ready, Doing
<1>2. Depth # 0
  BY <1>1 DEF Depth
<1>3. UsesInOrder'
  BY <1>1, <1>2, AtSure, UsesPopping DEF Behind
<1>4. Scoped(ir', frames', env', varSlots')
  <2>1. Scoped(ir, Pop, Top.env, varSlots)
    BY <1>1, AtSure, ScopedPop DEF Pop, Top
  <2>2. Pop \in Seq(Frame)
    BY <1>1, FrontFrames DEF Pop
  <2>3. Scoped(ir', Pop, Top.env, varSlots)
    BY <1>1, <2>1, <2>2, ScopedStay
  <2> QED BY <2>3
<1>5. Named(ir', reads', writes')
  BY <1>1, AtSure, ExtNamed DEF Named
<1> QED BY <1>3, <1>4, <1>5 DEF UInv

LEMMA ReplaceUInv ==
  ASSUME Sure, frames # <<>>, Ready(ir'), NEW f \in Frame, frames' = Append(Pop, f),
         f.env = Top.env, env' = Top.env, UNCHANGED <<varSlots, reads, writes>>,
         Doing(ir, ir', Behind, Nameable), ir.labels <= ir'.labels,
         Pending(f) \subseteq Nameable, f.kind \notin LoopKinds,
         f.kind \in Keepers => Top.kind \in Keepers /\ f.reg = Top.reg
  PROVE  UInv'
<1>1. Wellformed(ir') /\ Wellformed(ir) /\ Ext(ir, ir') /\ frames \in Seq(Frame)
  BY AtSure DEF Ready, Doing
<1>2. Depth # 0
  BY <1>1 DEF Depth
<1>3. UsesInOrder'
  BY <1>1, <1>2, AtSure, UsesReplacing DEF Behind
<1>4. Scoped(ir', Append(Pop, f), Top.env, varSlots)
  <2>1. /\ Scoped(ir, Pop, Top.env, varSlots)
        /\ Top.kind \in Keepers => Top.reg \in Avail(ir, OpenTo(ir, Pop, Len(Pop)))
    BY <1>1, AtSure, ScopedPop DEF Pop, Top
  <2>2. Pop \in Seq(Frame)
    BY <1>1, FrontFrames DEF Pop
  <2>3. Scoped(ir', Pop, Top.env, varSlots)
    BY <1>1, <2>1, <2>2, ScopedStay
  <2>4. Avail(ir, OpenTo(ir, Pop, Len(Pop))) \subseteq Avail(ir', OpenTo(ir', Pop, Len(Pop)))
    <3>1. Len(Pop) \in Nat
      BY <2>2
    <3> QED BY <1>1, <3>1, AvailGrows
  <2>5. f.kind \in Keepers => f.reg \in Avail(ir', OpenTo(ir', Pop, Len(Pop)))
    BY <2>1, <2>4
  <2> HIDE DEF Pop, Top
  <2> QED BY <1>1, <2>2, <2>3, <2>5, ScopedPush
<1>5. Named(ir', reads', writes')
  BY <1>1, AtSure, ExtNamed DEF Named
<1> QED BY <1>3, <1>4, <1>5 DEF UInv

\* The end of a body that branches on, and the block opened next.
LEMMA ClosedUses ==
  ASSUME Sure, NEW kinds, Ending(kinds),
         NEW b, Ready(b), Doing(ir, b, Open, Nameable), Len(b.blocks) = Len(ir.blocks),
         NEW j \in Label, j \in Nameable, NEW l \in Label
  PROVE  LET c == OpenBlock(BranchIfOpen(b, j), l)
         IN  Ready(c) /\ Doing(ir, c, Behind, Nameable) /\ c.labels = b.labels
<1> DEFINE d == BranchIfOpen(b, j)
           c == OpenBlock(d, l)
<1>1. Shut(d) /\ Made(ir, b, d, Open, Nameable)
  BY BranchIfOpenUses
<1>2. Doing(ir, d, Open, Nameable) /\ d.labels = b.labels /\ Len(d.blocks) = Len(ir.blocks)
  BY <1>1, MadeDoing
<1> HIDE DEF d
<1>3. /\ Ready(c) /\ Doing(ir, c, Open, Nameable) /\ c.labels = d.labels
      /\ Len(c.blocks) = Len(d.blocks) + 1 /\ c.blocks[Len(c.blocks)].instrs = <<>>
      /\ BranchTargets(c.blocks[Len(c.blocks)]) = {}
  BY <1>1, <1>2, OpenUses
<1> HIDE DEF c
<1>4. Doing(ir, c, Behind, Nameable)
  <2>1. Wellformed(c) /\ Depth # 0 /\ Len(c.blocks) = Len(ir.blocks) + 1
    BY <1>2, <1>3, EndFacts DEF Ready
  <2> QED BY <1>3, <2>1, AtSure, BodyUses DEF Behind
<1> QED BY <1>2, <1>3, <1>4 DEF c, d

LEMMA EndBlockUses ==
  ASSUME Sure, EndBlock
  PROVE  UInv'
<1>1. /\ Ending({"block"}) /\ LeaveScope(Top) /\ frames' = Pop /\ ir' = ir
  BY DEF EndBlock
<1>2. /\ Ready(ir) /\ Wellformed(ir) /\ frames # <<>> /\ Top.kind = "block" /\ Top \in Frame
      /\ Depth \in Nat \ {0} /\ UNCHANGED <<varSlots, reads, writes>>
      /\ Behind \subseteq 1 .. Len(ir.blocks)
  BY <1>1, EndFacts
<1>3. Pending(frames[Depth]) = {} /\ frames[Depth].kind \notin LoopKinds
  BY <1>2, PendingOf DEF Top, Depth, LoopKinds
<1>4. /\ PendingTo(frames, Depth) = PendingTo(frames, Depth - 1)
      /\ Back(frames, Depth) = Back(frames, Depth - 1)
  <2>1. \A m \in 1 .. Depth : m = Depth \/ m \in 1 .. Depth - 1
    BY <1>2
  <2>2. \A m \in 1 .. Depth - 1 : m \in 1 .. Depth
    BY <1>2
  <2>3. PendingTo(frames, Depth) = PendingTo(frames, Depth - 1)
    BY <1>3, <2>1, <2>2 DEF PendingTo
  <2>4. Back(frames, Depth) = Back(frames, Depth - 1)
    BY <1>3, <2>1, <2>2 DEF Back
  <2> QED BY <2>3, <2>4
<1>5. Open \subseteq Behind
  <2>1. ASSUME NEW d \in Open PROVE d \in Behind
    <3>1. PICK m \in 0 .. Depth : OpenAt(ir, frames, d, m)
      BY <2>1 DEF Open, OpenTo
    <3>2. d \in 1 .. Len(ir.blocks)
      BY <2>1 DEF Open, OpenTo
    <3>3. CASE m = Depth
      <4>1. OpenAt(ir, frames, d, Depth - 1)
        BY <1>4, <3>1, <3>3 DEF OpenAt
      <4>2. Depth - 1 \in 0 .. Depth - 1
        BY <1>2
      <4> QED BY <3>2, <4>1, <4>2 DEF Behind, OpenTo
    <3>4. CASE m # Depth
      <4>1. m \in 0 .. Depth - 1
        BY <1>2, <3>4
      <4> QED BY <3>1, <3>2, <4>1 DEF Behind, OpenTo
    <3> QED BY <3>3, <3>4
  <2> QED BY <2>1
<1>6. Doing(ir, ir', Behind, Nameable) /\ ir.labels <= ir'.labels
  <2>1. Doing(ir, ir, Open, Nameable) /\ ir.labels \in Nat
    BY AtSure
  <2>2. Uses(ir, Behind, Nameable)
    BY <1>2, <1>5, <2>1, UsesWiden DEF Doing
  <2> QED BY <1>1, <1>2, <2>1, <2>2 DEF Doing
<1> QED BY <1>1, <1>2, <1>6, EnvLeft, PopUInv

LEMMA EndThenUses ==
  ASSUME Sure, NEW scoped \in BOOLEAN, EndThen(scoped)
  PROVE  UInv'
<1> DEFINE e == IF Top.scoped THEN Top.env ELSE env
           h == IF Top.scoped THEN Top.here ELSE here
           f == [Top EXCEPT !.next = Top.join, !.env = e, !.here = h,
                            !.scoped = scoped, !.at = stmts]
<1>1. /\ Ending({"if"}) /\ ir' = OpenBlock(BranchIfOpen(ir, Top.join), Top.next)
      /\ frames' = Append(Pop, f) /\ env' = e
  BY DEF EndThen
<1>2. /\ Ready(ir) /\ frames # <<>> /\ Top.kind = "if" /\ Top \in Frame
      /\ Top.next \in Label /\ Top.join \in Label
      /\ Pending(Top) \subseteq Nameable /\ UNCHANGED <<varSlots, reads, writes>>
  BY <1>1, EndFacts
<1>3. e = Top.env /\ e \in [Names -> Binding] /\ h \in SUBSET Names
  BY <1>2, EnvLeft, AtSure, NextScope
<1> HIDE DEF e, h
<1>4. f \in Frame /\ f.kind = Top.kind /\ f.next = Top.join /\ f.join = Top.join /\ f.env = e
  <2>1. stmts \in Nat
    BY AtSure DEF IInv, Typed
  <2> HIDE DEF Top
  <2> QED BY <1>2, <1>3, <2>1 DEF Frame
<1> HIDE DEF f
<1>5. /\ Pending(f) \subseteq Nameable /\ Top.join \in Nameable
      /\ f.kind \notin LoopKinds /\ f.kind \notin Keepers
  BY <1>2, <1>4, PendingOf DEF LoopKinds, Keepers
<1>6. Ready(ir') /\ Doing(ir, ir', Behind, Nameable) /\ ir'.labels = ir.labels
  <2>1. Doing(ir, ir, Open, Nameable)
    BY AtSure
  <2> QED BY <1>1, <1>2, <1>5, <2>1, ClosedUses
<1>7. ir.labels <= ir'.labels
  BY <1>6, AtSure
<1> QED BY <1>1, <1>2, <1>3, <1>4, <1>5, <1>6, <1>7, ReplaceUInv

LEMMA EndIfUses ==
  ASSUME Sure, EndIf
  PROVE  UInv'
<1>1. /\ Ending({"if"}) /\ ir' = OpenBlock(BranchIfOpen(ir, Top.join), Top.join)
      /\ LeaveScope(Top) /\ frames' = Pop
  BY DEF EndIf
<1>2. /\ Ready(ir) /\ frames # <<>> /\ Top.kind = "if" /\ Top \in Frame /\ Top.join \in Label
      /\ Pending(Top) \subseteq Nameable /\ UNCHANGED <<varSlots, reads, writes>>
  BY <1>1, EndFacts
<1>3. Top.join \in Nameable
  BY <1>2, PendingOf
<1>4. Ready(ir') /\ Doing(ir, ir', Behind, Nameable) /\ ir'.labels = ir.labels
  <2>1. Doing(ir, ir, Open, Nameable)
    BY AtSure
  <2> QED BY <1>1, <1>2, <1>3, <2>1, ClosedUses
<1>5. ir.labels <= ir'.labels
  BY <1>4, AtSure
<1> QED BY <1>1, <1>2, <1>4, <1>5, EnvLeft, PopUInv

LEMMA EndLoopUses ==
  ASSUME Sure, EndLoop
  PROVE  UInv'
<1> DEFINE bumped == Effect(ir, "bump", <<Top.reg>>, <<>>)
           b1 == IF Top.kind = "count" /\ ~isTerminated(ir) THEN bumped ELSE ir
<1>1. /\ Ending({"loop", "count"}) /\ ir' = OpenBlock(BranchIfOpen(b1, Top.join), Top.next)
      /\ LeaveScope(Top) /\ frames' = Pop
  BY DEF EndLoop
<1>2. /\ Ready(ir) /\ frames # <<>> /\ Top.kind \in LoopKinds /\ Top.next \in Label
      /\ Top.join \in Label /\ Top.join \in Nameable /\ Top.reg \in Nat
      /\ UNCHANGED <<varSlots, reads, writes>> /\ Behind \subseteq Open
      /\ Top.kind \in Keepers => Top.reg \in Avail(ir, Behind)
  BY <1>1, EndFacts DEF LoopKinds
<1>3. Doing(ir, ir, Open, Nameable) /\ ir.labels \in Nat
  BY AtSure
<1>4. ASSUME Top.kind = "count"
      PROVE  Ready(bumped) /\ Made(ir, ir, bumped, Open, Nameable)
  <2>1. "bump" \in Ops /\ "bump" \notin Terminators /\ <<>> \in Seq(Label)
    BY DEF Ops, Terminators
  <2>2. <<Top.reg>> \in Seq(Nat) /\ Elements(<<Top.reg>>) = {Top.reg} /\ Elements(<<>>) = {}
    <3> HIDE DEF Top
    <3> QED BY <1>2 DEF Elements
  <2>3. {Top.reg} \subseteq Holds(ir, Open)
    BY <1>2, <1>4 DEF Keepers, Avail, Holds
  <2>4. Ready(bumped)
    BY <1>2, <2>1, <2>2, EffectReady
  <2>5. Wellformed(bumped) /\ {} \subseteq Nameable
    BY <2>4 DEF Ready
  <2> HIDE DEF Top
  <2>6. Made(ir, ir, bumped, Open, Nameable)
    BY <1>2, <1>3, <2>1, <2>2, <2>3, <2>5, EffectUses
  <2> QED BY <2>4, <2>6
<1> HIDE DEF bumped
<1>5. Ready(b1) /\ Doing(ir, b1, Open, Nameable) /\ Len(b1.blocks) = Len(ir.blocks) /\ b1.labels = ir.labels
  <2>1. CASE b1 = ir
    BY <1>2, <1>3, <2>1
  <2>2. CASE Top.kind = "count" /\ b1 = bumped
    BY <1>4, <2>2, MadeDoing
  <2> QED BY <2>1, <2>2
<1> HIDE DEF b1
<1>6. Ready(ir') /\ Doing(ir, ir', Behind, Nameable) /\ ir'.labels = b1.labels
  BY <1>1, <1>2, <1>5, ClosedUses
<1>7. ir.labels <= ir'.labels
  BY <1>3, <1>5, <1>6
<1> QED BY <1>1, <1>2, <1>6, <1>7, EnvLeft, PopUInv

LEMMA EndArmUses ==
  ASSUME Sure, NEW wild \in BOOLEAN, NEW last \in BOOLEAN, NEW scoped \in BOOLEAN,
         EndArm(wild, last, scoped)
  PROVE  UInv'
<1> DEFINE b1   == OpenBlock(BranchIfOpen(ir, Top.join), Top.next)
           arm  == Arm(b1, Top.reg, Top.join, wild, last)
           e    == IF Top.scoped THEN Top.env ELSE env
           h    == IF Top.scoped THEN Top.here ELSE here
           kind == IF wild THEN "wild" ELSE "arm"
           f == [Top EXCEPT !.kind = kind, !.next = arm.next, !.env = e, !.here = h,
                            !.scoped = scoped, !.at = stmts, !.arms = @ + 1]
<1>1. /\ Ending({"arm"}) /\ ir' = arm.ir /\ frames' = Append(Pop, f) /\ env' = e
  BY DEF EndArm
<1>2. /\ Ready(ir) /\ Wellformed(ir) /\ frames # <<>> /\ Top.kind = "arm" /\ Top \in Frame
      /\ Top.next \in Label /\ Top.join \in Label /\ Top.reg \in Nat
      /\ Pending(Top) \subseteq Nameable /\ UNCHANGED <<varSlots, reads, writes>>
      /\ Behind \subseteq 1 .. Len(ir.blocks) /\ Top.reg \in Avail(ir, Behind)
  BY <1>1, EndFacts DEF Keepers
<1>3. Top.join \in Nameable
  BY <1>2, PendingOf
<1>4. Ready(b1) /\ Doing(ir, b1, Behind, Nameable) /\ b1.labels = ir.labels
  <2>1. Doing(ir, ir, Open, Nameable)
    BY AtSure
  <2> QED BY <1>1, <1>2, <1>3, <2>1, ClosedUses
<1> HIDE DEF b1
<1>5. /\ {newLabel(b1, "match_arm", 0), newLabel(b1, "match_next", 1)} \subseteq Nameable
      /\ newLabel(b1, "match_next", 1) \in Label /\ Wellformed(b1) /\ ir.labels \in Nat
  <2>1. {"match_arm", "match_next"} \subseteq Prefixes \ {"entry"} /\ 0 \in Nat /\ 1 \in Nat
    BY DEF Prefixes
  <2>2. Wellformed(b1) /\ ir.labels \in Nat /\ ir.labels <= b1.labels
    BY <1>4, AtSure DEF Ready
  <2>3. /\ newLabel(b1, "match_arm", 0) \in Fresh(ir.labels)
        /\ newLabel(b1, "match_next", 1) \in Fresh(ir.labels)
        /\ newLabel(b1, "match_next", 1) \in Label
    BY <2>1, <2>2, FreshLabel
  <2> QED BY <2>2, <2>3 DEF Nameable
<1>6. Top.reg \in Holds(b1, Behind)
  <2>1. Avail(ir, Behind) \subseteq Avail(b1, Behind)
    BY <1>2, <1>4, <1>5, ExtAvail DEF Doing
  <2> QED BY <1>2, <2>1 DEF Holds
<1>7. /\ Ready(arm.ir) /\ Doing(ir, arm.ir, Behind, Nameable)
      /\ b1.labels <= arm.ir.labels /\ arm.next \in Label
      /\ arm.next = IF last THEN Top.join ELSE newLabel(b1, "match_next", 1)
  <2>1. IF last THEN Top.join \in Nameable ELSE newLabel(b1, "match_next", 1) \in Nameable
    BY <1>3, <1>5
  <2>2. newLabel(b1, "match_arm", 0) \in Nameable
    BY <1>5
  <2> HIDE DEF Top
  <2> QED BY <1>2, <1>4, <1>6, <2>1, <2>2, ArmUses
<1> HIDE DEF arm
<1>8. e = Top.env /\ e \in [Names -> Binding] /\ h \in SUBSET Names
  BY <1>2, EnvLeft, AtSure, NextScope
<1>9. kind \in {"wild", "arm"} /\ kind \in Kinds
  BY DEF Kinds
<1> HIDE DEF e, h, kind
<1>10. /\ f \in Frame /\ f.kind = kind /\ f.next = arm.next /\ f.join = Top.join /\ f.env = e
       /\ f.reg = Top.reg
  <2>1. stmts \in Nat
    BY AtSure DEF IInv, Typed
  <2> HIDE DEF Top
  <2>2. f \in Frame
    BY <1>2, <1>7, <1>8, <1>9, <2>1, ArmFrame
  <2>3. f.kind = kind /\ f.next = arm.next /\ f.join = Top.join /\ f.env = e /\ f.reg = Top.reg
    BY <1>2 DEF Frame
  <2> QED BY <2>2, <2>3
<1> HIDE DEF f
<1>11. Pending(f) \subseteq Nameable /\ f.kind \notin LoopKinds
  <2>1. arm.next \in Nameable
    BY <1>3, <1>5, <1>7
  <2> QED BY <1>3, <1>9, <1>10, <2>1, PendingOf DEF LoopKinds
<1>12. /\ Ready(ir') /\ Doing(ir, ir', Behind, Nameable) /\ ir.labels <= ir'.labels
  BY <1>1, <1>4, <1>7
<1>13. Top.kind \in Keepers
  BY <1>2 DEF Keepers
<1> QED BY <1>1, <1>2, <1>8, <1>10, <1>11, <1>12, <1>13, ReplaceUInv

LEMMA EndMatchUses ==
  ASSUME Sure, EndMatch
  PROVE  UInv'
<1> DEFINE l  == Top.join
           b1 == BranchIfOpen(ir, l)
           b2 == IF Top.kind = "wild" THEN b1 ELSE OpenBlock(b1, Top.next)
<1>1. /\ Ending({"arm", "wild"}) /\ ir' = OpenBlock(BranchIfOpen(b2, l), l)
      /\ LeaveScope(Top) /\ frames' = Pop
  BY DEF EndMatch
<1>2. /\ Ready(ir) /\ frames # <<>> /\ Top.kind \in {"arm", "wild"} /\ Top \in Frame
      /\ l \in Label /\ Pending(Top) \subseteq Nameable
      /\ UNCHANGED <<varSlots, reads, writes>>
  BY <1>1, EndFacts
<1>3. l \in Nameable
  BY <1>2, PendingOf
<1>4. Top.kind = "wild"
  <2>1. Len(frames) \in DOMAIN frames
    BY <1>2, AtSure
  <2>2. Distinct(LabelsOf(ir), ir.labels, frames)
    BY AtSure DEF LInv
  <2>3. Top.kind = "arm" => Top.next # Top.join
    BY <2>1, <2>2 DEF Distinct, Top
  <2>4. Top.kind = "arm" => Top.next = l
    BY DEF EndMatch
  <2> QED BY <1>2, <2>3, <2>4
<1>5. ir' = OpenBlock(b1, l)
  <2>1. Shut(b1)
    BY <1>2, BranchIfOpenGrows
  <2>2. BranchIfOpen(b1, l) = b1
    <3> HIDE DEF b1
    <3> QED BY <2>1, ShutTerminated DEF BranchIfOpen
  <2> QED BY <1>1, <1>4, <2>2
<1>6. Ready(ir') /\ Doing(ir, ir', Behind, Nameable) /\ ir'.labels = ir.labels
  <2>1. Doing(ir, ir, Open, Nameable)
    BY AtSure
  <2> HIDE DEF l
  <2> QED BY <1>1, <1>2, <1>3, <1>5, <2>1, ClosedUses
<1>7. ir.labels <= ir'.labels
  BY <1>6, AtSure
<1> QED BY <1>1, <1>2, <1>6, <1>7, EnvLeft, PopUInv

-----------------------------------------------------------------------------
LEMMA EmptyUses ==
  ASSUME NEW O, O \subseteq {1}, NEW K
  PROVE  Ready(EmptyBuilder) /\ Doing(EmptyBuilder, EmptyBuilder, O, K)
         /\ Len(EmptyBuilder.blocks) = 1 /\ EmptyBuilder.regs = 0
<1>1. Ready(EmptyBuilder)
  BY EmptyBuilderLabels
<1>2. /\ Len(EmptyBuilder.blocks) = 1 /\ EmptyBuilder.blocks[1].instrs = <<>>
      /\ EmptyBuilder.regs = 0
  BY DEF EmptyBuilder
<1>3. Wellformed(EmptyBuilder) /\ Ext(EmptyBuilder, EmptyBuilder)
  BY <1>1, ExtRefl DEF Ready
<1>4. O \subseteq 1 .. Len(EmptyBuilder.blocks)
  BY <1>2
<1>5. Uses(EmptyBuilder, O, K)
  <2>1. \A k \in 1 .. Len(EmptyBuilder.blocks) :
          1 .. Len(EmptyBuilder.blocks[k].instrs) = {}
    BY <1>2
  <2> QED BY <2>1 DEF Uses
<1> QED BY <1>1, <1>2, <1>3, <1>4, <1>5 DEF Doing

\* The entry block of a function with a parameter.
LEMMA ParamUses ==
  ASSUME NEW O, O = {1}, NEW K
  PROVE  LET E == EmptyBuilder
             c == Param(E)
         IN  Doing(E, c, O, K) /\ 1 \in Avail(c, O) /\ Len(c.blocks) = 1
<1> DEFINE E == EmptyBuilder
           b1 == buildAlloca(E)
           b2 == Value(b1, "param", <<>>)
           b3 == buildStore(b2, b2.val, b1.val)
<1>1. Ready(E) /\ Doing(E, E, O, K) /\ Len(E.blocks) = 1 /\ E.regs = 0
  BY EmptyUses
<1>2. Param(E) = b3
  BY DEF Param
<1>3. b1.val = 1
  <2>1. "alloca" \in Ops /\ "alloca" \notin Terminators /\ <<>> \in Seq(Nat)
    BY DEF Ops, Terminators
  <2>2. Value(E, "alloca", <<>>).val = E.regs + 1
    BY <1>1, <2>1, ValueReady
  <2> QED BY <1>1, <2>2 DEF buildAlloca
<1> HIDE DEF E
<1>4. Ready(b1) /\ Made(E, E, b1, O, K) /\ Result(b1)
  BY <1>1, AllocaUses
<1> HIDE DEF b1
<1>5. /\ Doing(E, b1, O, K) /\ Len(b1.blocks) = 1 /\ Wellformed(b1) /\ b1.val \in Avail(b1, O)
      /\ b1.val \in Nat
  <2>1. Doing(E, b1, O, K) /\ Len(b1.blocks) = Len(E.blocks) /\ Wellformed(b1)
    BY <1>4, MadeDoing DEF Ready
  <2>2. b1.val \in Avail(b1, O) /\ b1.val \in Nat
    BY <1>1, <1>4, <2>1, ResultHeld DEF Result
  <2> QED BY <1>1, <2>1, <2>2
<1>6. Ready(b2) /\ Made(E, b1, b2, O, K) /\ Result(b2)
  <2>1. /\ "param" \in Ops /\ "param" \notin Terminators
        /\ <<>> \in Seq(Nat) /\ Elements(<<>>) = {}
    BY DEF Ops, Terminators, Elements
  <2> QED BY <1>4, <1>5, <2>1, ValueUses
<1> HIDE DEF b2
<1>7. /\ Doing(E, b2, O, K) /\ Ext(b1, b2) /\ Wellformed(b2) /\ Holds(b1, O) \subseteq Holds(b2, O)
      /\ Len(b2.blocks) = 1
  BY <1>5, <1>6, MadeDoing DEF Ready
<1>8. Ready(b3) /\ Made(E, b2, b3, O, K)
  <2>1. b2.val \in Holds(b2, O) /\ b2.val \in Nat
    BY <1>6, ResultHeld DEF Result
  <2>2. b1.val \in Holds(b2, O)
    BY <1>5, <1>7 DEF Holds
  <2> QED BY <1>5, <1>6, <1>7, <2>1, <2>2, StoreUses
<1> HIDE DEF b3
<1>9. Doing(E, b3, O, K) /\ Ext(b2, b3) /\ Wellformed(b3) /\ Len(b3.blocks) = 1
  BY <1>7, <1>8, MadeDoing DEF Ready
<1>10. b1.val \in Avail(b3, O)
  <2>1. Ext(b1, b3)
    BY <1>5, <1>7, <1>9, ExtTrans
  <2>2. O \subseteq 1 .. Len(b1.blocks)
    BY <1>5
  <2> QED BY <1>5, <1>9, <2>1, <2>2, ExtAvail
<1> QED BY <1>2, <1>3, <1>9, <1>10 DEF E

LEMMA InitUInv ==
  ASSUME Init, Plain
  PROVE  UInv
<1>1. /\ IInv /\ LInv /\ "partial" \notin Lang /\ Wellformed(ir) /\ frames = <<>> /\ Depth = 0
      /\ reads = {} /\ writes = {}
  BY InitIInv, InitLInv, AtLabels DEF Init, Plain, Depth
<1>2. PICK p \in {None} \cup Names :
        /\ ir = IF p = None THEN EmptyBuilder ELSE Param(EmptyBuilder)
        /\ varSlots = [x \in Names |-> IF x = p THEN 1 ELSE NoReg]
        /\ env = [x \in Names |-> IF x = p THEN [slot |-> 1, mut |-> TRUE] ELSE Unbound]
  BY DEF Init
<1>3. Len(ir.blocks) = 1
  <2>1. Len(EmptyBuilder.blocks) = 1 /\ Ready(EmptyBuilder)
    BY EmptyUses
  <2>2. Len(Param(EmptyBuilder).blocks) = 1
    BY ParamUses
  <2> QED BY <1>2, <2>1, <2>2
<1>4. Open = {1}
  <2>1. Len(ir.blocks) \in Open /\ Open \subseteq 1 .. Len(ir.blocks)
    BY <1>1, CurrentOpen
  <2>2. 1 .. 1 = {1}
    OBVIOUS
  <2> QED BY <1>3, <2>1, <2>2
<1>5. UsesInOrder /\ (p # None => 1 \in Avail(ir, Open))
  <2>1. CASE p = None
    <3>1. Doing(ir, ir, Open, Nameable)
      BY <1>2, <1>4, <2>1, EmptyUses
    <3> QED BY <2>1, <3>1 DEF Doing, UsesInOrder
  <2>2. CASE p # None
    <3>1. Doing(EmptyBuilder, ir, Open, Nameable) /\ 1 \in Avail(ir, Open)
      BY <1>2, <1>4, <2>2, ParamUses
    <3> QED BY <3>1 DEF Doing, UsesInOrder
  <2> QED BY <2>1, <2>2
<1>6. Scoped(ir, frames, env, varSlots)
  <2>1. \A i \in 0 .. Len(frames) : i = 0 /\ i = Len(frames)
    BY <1>1
  <2>2. \A i \in 1 .. Len(frames) : FALSE
    BY <1>1
  <2>3. EnvAt(frames, env, 0) = env /\ OpenTo(ir, frames, 0) = Open
    BY <1>1 DEF EnvAt, Open, Depth
  <2>4. None \notin Names
    BY NamesAssumption DEF None
  <2>5. ASSUME NEW x \in Names, env[x] # Unbound
        PROVE  env[x].slot = varSlots[x] /\ varSlots[x] \in Avail(ir, Open)
    <3>1. x = p
      BY <1>2, <2>5
    <3> QED BY <1>2, <1>5, <2>4, <3>1
  <2>6. BoundOpen(ir, frames, env, varSlots, 0)
    BY <2>3, <2>5 DEF BoundOpen
  <2>7. BoundInside(frames, env)
    BY <2>1 DEF BoundInside
  <2> QED BY <2>1, <2>2, <2>6, <2>7 DEF Scoped
<1>7. Named(ir, reads, writes)
  BY <1>1, NothingMore DEF Named
<1> QED BY <1>5, <1>6, <1>7 DEF UInv

LEMMA NextUInv ==
  ASSUME Sure, [Next]_vars
  PROVE  UInv'
<1>1. ASSUME NEW x \in Names, NEW e \in Exprs \cup {None}, VisitVarDecl(x, e)
      PROVE  UInv'
  BY <1>1, VarDeclUses
<1>2. CASE (\E e \in Exprs : VisitExprStmt(e)) \/ VisitExit
  BY <1>2, ExprStmtUses, ExitUses
<1>3. ASSUME NEW x \in Names, NEW e \in Exprs, NEW compound \in BOOLEAN,
             VisitAssign(x, e, compound)
      PROVE  UInv'
  BY <1>3, AssignUses
<1>4. ASSUME NEW e \in Exprs \cup {None}, VisitReturn(e)
      PROVE  UInv'
  BY <1>4, ReturnUses
<1>5. CASE VisitBreak \/ VisitContinue
  BY <1>5, UnchangedUses DEF VisitBreak, VisitContinue, irVars, semVars
<1>6. CASE VisitBlock
  BY <1>6, BlockUses
<1>7. ASSUME NEW e \in Exprs, NEW hasElse \in BOOLEAN, NEW scoped \in BOOLEAN,
             VisitIf(e, hasElse, scoped)
      PROVE  UInv'
  BY <1>7, IfUses
<1>8. ASSUME NEW e \in Exprs, NEW kind \in {"while", "vloop"}, VisitLoop(e, kind)
      PROVE  UInv'
  BY <1>8, LoopUses
<1>9. CASE VisitCountedVloop
  BY <1>9, CountUses
<1>10. ASSUME NEW x \in Names, NEW e \in Exprs, VisitFor(x, e)
       PROVE  UInv'
  BY <1>10, ForUses
<1>11. ASSUME NEW e \in Exprs, NEW wild \in BOOLEAN, NEW last \in BOOLEAN,
              NEW scoped \in BOOLEAN, VisitMatch(e, wild, last, scoped)
       PROVE  UInv'
  BY <1>11, MatchUses
<1>12. ASSUME NEW e \in Exprs, VisitEmptyMatch(e)
       PROVE  UInv'
  BY <1>12, EmptyMatchUses
<1>13. CASE EndBlock
  BY <1>13, EndBlockUses
<1>14. ASSUME NEW scoped \in BOOLEAN, EndThen(scoped)
       PROVE  UInv'
  BY <1>14, EndThenUses
<1>15. CASE EndIf
  BY <1>15, EndIfUses
<1>16. CASE EndLoop
  BY <1>16, EndLoopUses
<1>17. ASSUME NEW wild \in BOOLEAN, NEW last \in BOOLEAN, NEW scoped \in BOOLEAN,
              EndArm(wild, last, scoped)
       PROVE  UInv'
  BY <1>17, EndArmUses
<1>18. CASE EndMatch
  BY <1>18, EndMatchUses
<1>19. CASE EndFunction
  BY <1>19, EndFunctionUses
<1>20. CASE UNCHANGED vars
  BY <1>20, UnchangedUses DEF vars
<1> QED
  BY <1>1, <1>2, <1>3, <1>4, <1>5, <1>6, <1>7, <1>8, <1>9, <1>10, <1>11, <1>12,
     <1>13, <1>14, <1>15, <1>16, <1>17, <1>18, <1>19, <1>20
     DEF Next, Finished

LEMMA UsesInvariant == Plain => (Spec => [](IInv /\ LInv /\ UInv))
<1>1. Plain /\ Init => UInv
  BY InitUInv
<1>2. Plain /\ IInv /\ LInv /\ UInv /\ [Next]_vars => UInv'
  BY NextUInv DEF Sure
<1>3. ASSUME Plain PROVE Spec => [](IInv /\ LInv /\ UInv)
  <2>1. Init => UInv
    BY <1>1, <1>3
  <2>2. IInv /\ LInv /\ UInv /\ [Next]_vars => UInv'
    BY <1>2, <1>3
  <2> QED BY InitIInv, NextIInv, InitLInv, NextLInv, <2>1, <2>2, PTL DEF Spec
<1> QED BY <1>3

\* Every read of a name loads the slot of the declaration SemanticAnalyzer
\* resolved it to, and every assignment stores to it, although visit(IdentExpr)
\* and visit(AssignExpr) look the name up in varSlots_, one flat map that no
\* scope's end undoes: for every function without shadowing and without
\* assignments to undeclared names, however its statements are nested.
THEOREM EveryNameResolved == Plain => (Spec => []NamesResolved)
<1>1. ASSUME NEW b, NEW op, NEW dest, NEW args, Wellformed(b), Has(b, op, dest, args)
      PROVE  \E k \in DOMAIN b.blocks : \E i \in DOMAIN b.blocks[k].instrs :
               /\ b.blocks[k].instrs[i].op = op /\ b.blocks[k].instrs[i].dest = dest
               /\ b.blocks[k].instrs[i].args = args
  BY <1>1, BlocksOf DEF Has
<1>2. ASSUME NEW op, NEW dest, NEW args, Wellformed(ir), Has(ir, op, dest, args)
      PROVE  \E instr \in Instructions : instr.op = op /\ instr.dest = dest /\ instr.args = args
  BY <1>1, <1>2 DEF Instructions
<1>3. IInv /\ UInv => NamesResolved
  <2> SUFFICES ASSUME IInv, UInv PROVE NamesResolved
    OBVIOUS
  <2>1. Wellformed(ir) /\ Loads(ir, reads) /\ Stores(ir, writes)
    BY DEF UInv, Named, IInv, Discipline, Ready, Shut
  <2>2. ASSUME NEW read \in reads
        PROVE  \E instr \in Instructions :
                 instr.op = "load" /\ instr.dest = read[1] /\ instr.args = <<read[2]>>
    <3>1. Has(ir, "load", read[1], <<read[2]>>)
      BY <2>1 DEF Loads
    <3> QED BY <1>2, <2>1, <3>1
  <2>3. ASSUME NEW w \in writes
        PROVE  \E instr \in Instructions : instr.op = "store" /\ instr.args = w
    BY <1>2, <2>1 DEF Stores
  <2> QED BY <2>2, <2>3 DEF NamesResolved, ReadsResolved, WritesResolved
<1> QED
  <2>1. ASSUME Plain PROVE Spec => []NamesResolved
    <3>1. Spec => [](IInv /\ LInv /\ UInv)
      BY <2>1, UsesInvariant
    <3> QED BY <1>3, <3>1, PTL
  <2> QED BY <2>1

-----------------------------------------------------------------------------
(***************************************************************************)
(* Dominance.  The blocks that control gets to lie in every set of blocks  *)
(* that holds the entry and is closed under the branches that do not enter *)
(* the cut; such a set is what an open or sealed block leaves to the paths *)
(* that avoid it.                                                          *)
(***************************************************************************)
LEMMA LeastExists ==
  ASSUME NEW T, T \subseteq Nat, T # {}
  PROVE  \E m \in T : \A k \in T : m <= k
<1> DEFINE R == OpToRel(<, Nat)
<1>1. IsWellFoundedOn(R, Nat)
  BY NatLessThanWellFounded
<1>2. \A x, y \in Nat : x < y => <<x, y>> \in R
  BY DEF OpToRel
<1> HIDE DEF R
<1>3. PICK m \in T : \A y \in T : ~ (<<y, m>> \in R)
  BY <1>1, WFMin
<1>4. \A k \in T : k \in Nat /\ m \in Nat /\ ~(k < m)
  BY <1>2, <1>3
<1>5. \A k \in T : m <= k
  BY <1>4
<1> QED BY <1>5

Onward(branches, S, cut) ==
  S \cup {b[2] : b \in {c \in branches : c[1] \in S \ cut /\ c[2] \notin cut}}
Within(f, branches, count, cut) ==
  f = [n \in 0 .. count |-> IF n = 0 THEN {1} ELSE Onward(branches, f[n - 1], cut)]

LEMMA WithinExists ==
  ASSUME NEW branches, NEW cut, NEW count \in Nat
  PROVE  \E f : Within(f, branches, count, cut)
<1> DEFINE T == {n \in Nat : ~ \E f : Within(f, branches, n, cut)}
<1>1. SUFFICES ASSUME T # {} PROVE FALSE
  OBVIOUS
<1>2. PICK m \in T : \A k \in T : m <= k
  <2>1. T \subseteq Nat
    OBVIOUS
  <2> HIDE DEF T
  <2> QED BY <1>1, <2>1, LeastExists
<1>3. m \in Nat /\ m # 0
  <2>1. Within([n \in 0 .. 0 |-> {1}], branches, 0, cut)
    BY DEF Within
  <2> QED BY <1>2, <2>1
<1>4. m - 1 \in Nat /\ ~(m <= m - 1)
  BY <1>3
<1>5. PICK f : Within(f, branches, m - 1, cut)
  BY <1>2, <1>4
<1> DEFINE g == [n \in 0 .. m |-> IF n = 0 THEN {1} ELSE Onward(branches, f[n - 1], cut)]
<1>6. ASSUME NEW n \in 0 .. m - 1 PROVE g[n] = f[n]
  <2>1. n \in 0 .. m
    BY <1>3
  <2>2. f[n] = IF n = 0 THEN {1} ELSE Onward(branches, f[n - 1], cut)
    <3> HIDE DEF g
    <3> QED BY <1>5, Zenon DEF Within
  <2> QED BY <2>1, <2>2
<1>7. \A n \in 0 .. m : n # 0 => n - 1 \in 0 .. m - 1
  BY <1>3
<1>8. Within(g, branches, m, cut)
  BY <1>6, <1>7 DEF Within
<1> HIDE DEF g
<1> QED BY <1>2, <1>8

Reaching(branches, count, cut) == CHOOSE f : Within(f, branches, count, cut)

LEMMA ReachedSteps ==
  ASSUME NEW branches, NEW cut, NEW count \in Nat
  PROVE  LET w == Reaching(branches, count, cut)
         IN  /\ w[count] = BlocksReached(branches, count, cut) /\ w[0] = {1}
             /\ \A n \in 1 .. count : w[n] = Onward(branches, w[n - 1], cut)
<1> DEFINE h == Reaching(branches, count, cut)
<1>1. Within(h, branches, count, cut)
  BY WithinExists DEF Reaching
<1>2. BlocksReached(branches, count, cut) = h[count]
  BY DEF BlocksReached, Within, Onward, Reaching
<1> HIDE DEF h
<1>3. h[0] = {1}
  BY <1>1 DEF Within
<1>4. ASSUME NEW n \in 1 .. count PROVE h[n] = Onward(branches, h[n - 1], cut)
  <2>1. n \in 0 .. count /\ n # 0
    OBVIOUS
  <2> QED BY <1>1, <2>1 DEF Within
<1> QED BY <1>2, <1>3, <1>4 DEF h

\* Control stays in what is closed under the branches.
LEMMA ReachedWithin ==
  ASSUME NEW branches, NEW cut, NEW count \in Nat, NEW X, 1 \in X,
         \A c \in branches : c[1] \in X \ cut /\ c[2] \notin cut => c[2] \in X
  PROVE  BlocksReached(branches, count, cut) \subseteq X
<1> DEFINE w == Reaching(branches, count, cut)
<1>1. /\ w[count] = BlocksReached(branches, count, cut) /\ w[0] = {1}
      /\ \A n \in 1 .. count : w[n] = Onward(branches, w[n - 1], cut)
  BY ReachedSteps
<1> HIDE DEF w
<1> DEFINE T == {n \in 0 .. count : ~(w[n] \subseteq X)}
<1>2. SUFFICES ASSUME T # {} PROVE FALSE
  BY <1>1
<1>3. PICK m \in T : \A k \in T : m <= k
  <2>1. T \subseteq Nat
    OBVIOUS
  <2> HIDE DEF T
  <2> QED BY <1>2, <2>1, LeastExists
<1>4. m \in 1 .. count /\ m - 1 \in 0 .. count /\ ~(m <= m - 1)
  BY <1>1, <1>3
<1>5. w[m - 1] \subseteq X
  BY <1>3, <1>4
<1>6. w[m] = Onward(branches, w[m - 1], cut)
  BY <1>1, <1>4
<1>7. w[m] \subseteq X
  BY <1>5, <1>6 DEF Onward
<1> QED BY <1>3, <1>7

\* What is reached only through d is reached after d.
LEMMA ReachedPast ==
  ASSUME NEW branches, NEW count \in Nat, NEW d, NEW k,
         k \in BlocksReached(branches, count, {}), k \notin BlocksReached(branches, count, {d})
  PROVE  d \in BlocksReached(branches, count, {})
<1>1. SUFFICES ASSUME d \notin BlocksReached(branches, count, {}) PROVE FALSE
  OBVIOUS
<1> DEFINE w == Reaching(branches, count, {})
<1>2. /\ w[count] = BlocksReached(branches, count, {}) /\ w[0] = {1}
      /\ \A n \in 1 .. count : w[n] = Onward(branches, w[n - 1], {})
  BY ReachedSteps
<1> HIDE DEF w
<1> DEFINE v == Reaching(branches, count, {d})
<1>3. /\ v[count] = BlocksReached(branches, count, {d}) /\ v[0] = {1}
      /\ \A n \in 1 .. count : v[n] = Onward(branches, v[n - 1], {d})
  BY ReachedSteps
<1> HIDE DEF v
<1> DEFINE T == {n \in 0 .. count : ~(w[n] \subseteq v[n]) /\ d \notin w[n]}
<1>4. count \in T
  BY <1>1, <1>2, <1>3
<1>5. PICK m \in T : \A j \in T : m <= j
  <2>1. T \subseteq Nat
    OBVIOUS
  <2> HIDE DEF T
  <2> QED BY <1>4, <2>1, LeastExists
<1>6. m \in 1 .. count /\ m - 1 \in 0 .. count /\ ~(m <= m - 1)
  BY <1>2, <1>3, <1>5
<1>7. /\ w[m] = Onward(branches, w[m - 1], {}) /\ v[m] = Onward(branches, v[m - 1], {d})
      /\ d \notin w[m] /\ ~(w[m] \subseteq v[m])
  BY <1>2, <1>3, <1>5, <1>6
<1>8. d \notin w[m - 1]
  BY <1>7 DEF Onward
<1>9. w[m - 1] \subseteq v[m - 1]
  BY <1>5, <1>6, <1>8
<1>10. w[m] \subseteq v[m]
  BY <1>7, <1>8, <1>9 DEF Onward
<1> QED BY <1>7, <1>10

\* Of a block, control gets to a part at the beginning, and leaves it for
\* labels that the block names.
LEMMA LivePart ==
  ASSUME NEW b, Wellformed(b), NEW k \in 1 .. Len(b.blocks)
  PROVE  LET block == b.blocks[k]
             live  == Live(block)
         IN  /\ Len(live) \in Nat /\ DOMAIN live = 1 .. Len(live)
             /\ \A i \in DOMAIN live : i \in 1 .. Len(block.instrs) /\ live[i] = block.instrs[i]
             /\ Targets(block) \subseteq BranchTargets(block)
<1> DEFINE block == b.blocks[k]
           code == block.instrs
           live == Live(block)
           at == {i \in DOMAIN code : code[i].op \in Stops}
           first == CHOOSE i \in at : \A j \in at : i <= j
<1>1. code \in Seq(Instr) /\ Len(code) \in Nat /\ DOMAIN code = 1 .. Len(code)
  BY BlocksOf
<1>2. live = IF at = {} THEN code ELSE SubSeq(code, 1, first)
  BY DEF Live
<1>3. /\ Len(live) \in Nat /\ DOMAIN live = 1 .. Len(live)
      /\ \A i \in DOMAIN live : i \in 1 .. Len(code) /\ live[i] = code[i]
  <2>1. CASE at = {}
    <3> HIDE DEF code, at, live, first
    <3> QED BY <1>1, <1>2, <2>1
  <2>2. CASE at # {}
    <3>1. \E i \in at : \A j \in at : i <= j
      <4>1. at \subseteq Nat
        BY <1>1
      <4> HIDE DEF at
      <4> QED BY <2>2, <4>1, LeastExists
    <3>2. first \in at
      <4> HIDE DEF at
      <4> QED BY <3>1
    <3> HIDE DEF first
    <3>3. first \in 1 .. Len(code)
      BY <1>1, <3>2
    <3> HIDE DEF code, at, live
    <3> QED BY <1>1, <1>2, <2>2, <3>3
  <2> QED BY <2>1, <2>2
<1>4. Targets(block) \subseteq BranchTargets(block)
  <2> HIDE DEF live
  <2>1. CASE EndsWith(block, Terminators)
    <3> DEFINE i == Len(live)
    <3>1. live # <<>>
      BY <2>1 DEF EndsWith, live
    <3>2. i \in DOMAIN live
      <4>1. live = <<>> \/ Len(live) # 0
        <5>1. DOMAIN live = {} => live = <<>>
          <6>1. live = [j \in 1 .. Len(live) |-> live[j]]
            <7>1. live = code \/ live = SubSeq(code, 1, first)
              BY <1>2
            <7> HIDE DEF code, at, first
            <7> QED BY <1>1, <1>3, <7>1
          <6> QED BY <1>3, <6>1
        <5> QED BY <1>3, <5>1
      <4> QED BY <1>3, <3>1, <4>1
    <3>3. i \in DOMAIN code /\ live[i] = code[i]
      BY <1>1, <1>3, <3>2
    <3>4. Targets(block) = {live[i].to[t] : t \in DOMAIN live[i].to}
      BY <2>1 DEF Targets, live
    <3> HIDE DEF i
    <3> QED BY <3>3, <3>4 DEF BranchTargets
  <2>2. CASE ~EndsWith(block, Terminators)
    BY <2>2 DEF Targets
  <2> QED BY <2>1, <2>2
<1> QED BY <1>3, <1>4

LEMMA BranchesOf ==
  ASSUME NEW b, Wellformed(b), NEW c \in Branches(b.blocks)
  PROVE  /\ c[1] \in 1 .. Len(b.blocks) /\ c[2] \in 1 .. Len(b.blocks)
         /\ b.blocks[c[2]].label \in BranchTargets(b.blocks[c[1]])
<1>1. PICK j \in DOMAIN b.blocks, m \in DOMAIN b.blocks :
        c = <<j, m>> /\ b.blocks[m].label \in Targets(b.blocks[j])
  BY DEF Branches
<1>2. DOMAIN b.blocks = 1 .. Len(b.blocks)
  BY BlocksOf
<1>3. Targets(b.blocks[j]) \subseteq BranchTargets(b.blocks[j])
  BY <1>2, LivePart
<1> QED BY <1>1, <1>2, <1>3

\* d comes before k on every path to k, when the paths that avoid d keep to X.
LEMMA ComesBefore ==
  ASSUME NEW b, Wellformed(b), NEW d, NEW X, 1 \in X,
         \A j \in 1 .. Len(b.blocks) : j \in X /\ j # d =>
           \A m \in 1 .. Len(b.blocks) :
             b.blocks[m].label \in BranchTargets(b.blocks[j]) => m \in X,
         NEW k, k \notin X, k # d,
         k \in BlocksReached(Branches(b.blocks), Len(b.blocks), {})
  PROVE  /\ d \in BlocksReached(Branches(b.blocks), Len(b.blocks), {})
         /\ k \notin BlocksReached(Branches(b.blocks), Len(b.blocks), {d}) \cup {d}
<1>1. Len(b.blocks) \in Nat
  BY BlocksOf
<1>2. \A c \in Branches(b.blocks) : c[1] \in X \ {d} /\ c[2] \notin {d} => c[2] \in X
  BY BranchesOf
<1>3. BlocksReached(Branches(b.blocks), Len(b.blocks), {d}) \subseteq X
  BY <1>1, <1>2, ReachedWithin
<1>4. k \notin BlocksReached(Branches(b.blocks), Len(b.blocks), {d})
  BY <1>3
<1> QED BY <1>1, <1>4, ReachedPast

\* When all visitors have returned, what serves a use comes before it.
LEMMA ServedAbove ==
  ASSUME IInv, LInv, "partial" \notin Lang, frames = <<>>,
         NEW k \in 1 .. Len(ir.blocks), NEW a, Served(ir, Open, Nameable, k, a),
         k \in BlocksReached(Branches(ir.blocks), Len(ir.blocks), {})
  PROVE  \E d \in 1 .. Len(ir.blocks) :
           /\ a \in Defines(ir.blocks[d])
           /\ d \in BlocksReached(Branches(ir.blocks), Len(ir.blocks), {})
           /\ k \notin BlocksReached(Branches(ir.blocks), Len(ir.blocks), {d}) \cup {d}
<1> DEFINE n == Len(ir.blocks)
<1>1. /\ n \in Nat \ {0} /\ Wellformed(ir) /\ Depth = 0
      /\ \A j, m \in 1 .. n : ir.blocks[j].label = ir.blocks[m].label => j = m
  BY AtLabels, BlocksOf DEF Depth
<1>2. PICK d \in 1 .. k - 1 :
        /\ a \in Defines(ir.blocks[d])
        /\ d \in Open \/ \E e \in k .. n - 1 : Sealed(ir, d, e, Nameable)
  BY DEF Served
<1>3. d \in 1 .. n /\ d < k /\ k # d /\ 1 <= d
  BY <1>1
<1>4. CASE d \in Open
  <2> DEFINE X == 1 .. d
  <2>1. OpenAt(ir, frames, d, 0)
    BY <1>1, <1>4 DEF Open, OpenTo
  <2>2. PendingTo(frames, 0) = {}
    BY DEF PendingTo
  <2>3. 1 \in X /\ k \notin X /\ \A j \in 1 .. n : j \in X /\ j # d => j \in 1 .. d - 1
    BY <1>3
  <2>4. \A j \in 1 .. d - 1 : BranchTargets(ir.blocks[j]) \subseteq UpTo(ir, d)
    BY <2>1, <2>2 DEF OpenAt
  <2>5. \A m \in 1 .. n : ir.blocks[m].label \in UpTo(ir, d) => m \in X
    <3>1. \A j \in 1 .. d : j \in 1 .. n
      BY <1>3
    <3> QED BY <1>1, <3>1 DEF UpTo
  <2>6. \A j \in 1 .. n : j \in X /\ j # d =>
          \A m \in 1 .. n : ir.blocks[m].label \in BranchTargets(ir.blocks[j]) => m \in X
    BY <2>3, <2>4, <2>5
  <2> HIDE DEF X
  <2>7. /\ d \in BlocksReached(Branches(ir.blocks), n, {})
        /\ k \notin BlocksReached(Branches(ir.blocks), n, {d}) \cup {d}
    BY <1>1, <1>3, <2>3, <2>6, ComesBefore
  <2> QED BY <1>2, <1>3, <2>7
<1>5. ASSUME NEW e \in k .. n - 1, Sealed(ir, d, e, Nameable)
      PROVE  /\ d \in BlocksReached(Branches(ir.blocks), n, {})
             /\ k \notin BlocksReached(Branches(ir.blocks), n, {d}) \cup {d}
  <2> DEFINE X == (1 .. n) \ (d + 1 .. e)
  <2>1. 1 \in X /\ k \notin X /\ \A j \in 1 .. n : j \in X /\ j # d => j \notin d .. e
    BY <1>1, <1>3
  <2>2. \A m \in d + 1 .. e : \A j \in 1 .. n : j \notin d .. e =>
          ir.blocks[m].label \notin BranchTargets(ir.blocks[j])
    BY <1>5 DEF Sealed
  <2>3. \A m \in 1 .. n : m \in X \/ m \in d + 1 .. e
    OBVIOUS
  <2>4. \A j \in 1 .. n : j \in X /\ j # d =>
          \A m \in 1 .. n : ir.blocks[m].label \in BranchTargets(ir.blocks[j]) => m \in X
    <3> HIDE DEF X
    <3> QED BY <2>1, <2>2, <2>3
  <2> HIDE DEF X
  <2> QED BY <1>1, <1>3, <2>1, <2>4, ComesBefore
<1> QED BY <1>2, <1>3, <1>4, <1>5

\* FunctionDecl's visitor ends with no visitor suspended.
Ended == phase = "done" => frames = <<>>

LEMMA EndedStays == Ended /\ [Next]_vars => Ended'
<1> SUFFICES ASSUME Ended, [Next]_vars PROVE Ended'
  OBVIOUS
<1>1. ASSUME phase = "body", phase' = phase PROVE Ended'
  BY <1>1 DEF Ended
<1>2. ASSUME NEW kind, Visiting(kind) PROVE Ended'
  BY <1>1, <1>2 DEF Visiting
<1>3. ASSUME NEW kinds, Ending(kinds) PROVE Ended'
  BY <1>1, <1>3 DEF Ending
<1>4. CASE EndFunction
  BY <1>4 DEF EndFunction, Ended
<1>5. CASE UNCHANGED vars
  BY <1>5 DEF vars, Ended
<1>6. CASE \/ \E x \in Names, e \in Exprs \cup {None} : VisitVarDecl(x, e)
           \/ \E e \in Exprs : VisitExprStmt(e)
           \/ VisitExit
           \/ \E x \in Names, e \in Exprs, compound \in BOOLEAN : VisitAssign(x, e, compound)
           \/ \E e \in Exprs \cup {None} : VisitReturn(e)
           \/ VisitBreak
           \/ VisitContinue
           \/ \E e \in Exprs : VisitEmptyMatch(e)
  <2>1. CASE \E x \in Names, e \in Exprs \cup {None} : VisitVarDecl(x, e)
    BY <1>2, <2>1 DEF VisitVarDecl
  <2>2. CASE \E e \in Exprs : VisitExprStmt(e)
    BY <1>2, <2>2 DEF VisitExprStmt
  <2>3. CASE VisitExit
    BY <1>2, <2>3 DEF VisitExit
  <2>4. CASE \E x \in Names, e \in Exprs, compound \in BOOLEAN : VisitAssign(x, e, compound)
    BY <1>2, <2>4 DEF VisitAssign
  <2>5. CASE \E e \in Exprs \cup {None} : VisitReturn(e)
    BY <1>2, <2>5 DEF VisitReturn
  <2>6. CASE VisitBreak
    BY <1>2, <2>6 DEF VisitBreak
  <2>7. CASE VisitContinue
    BY <1>2, <2>7 DEF VisitContinue
  <2>8. CASE \E e \in Exprs : VisitEmptyMatch(e)
    BY <1>2, <2>8 DEF VisitEmptyMatch
  <2> QED BY <1>6, <2>1, <2>2, <2>3, <2>4, <2>5, <2>6, <2>7, <2>8
<1>7. CASE \/ VisitBlock
           \/ \E e \in Exprs, hasElse, scoped \in BOOLEAN : VisitIf(e, hasElse, scoped)
           \/ \E e \in Exprs, kind \in {"while", "vloop"} : VisitLoop(e, kind)
           \/ VisitCountedVloop
           \/ \E x \in Names, e \in Exprs : VisitFor(x, e)
           \/ \E e \in Exprs, wild, last, scoped \in BOOLEAN : VisitMatch(e, wild, last, scoped)
  BY <1>2, <1>7 DEF VisitBlock, VisitIf, VisitLoop, VisitCountedVloop, VisitFor, VisitMatch, Nesting
<1>8. CASE \/ EndBlock
           \/ \E scoped \in BOOLEAN : EndThen(scoped)
           \/ EndIf \/ EndLoop
           \/ \E wild, last, scoped \in BOOLEAN : EndArm(wild, last, scoped)
           \/ EndMatch
  BY <1>3, <1>8 DEF EndBlock, EndThen, EndIf, EndLoop, EndArm, EndMatch
<1> QED BY <1>4, <1>5, <1>6, <1>7, <1>8 DEF Next, Finished

\* A finished function's uses are dominated: what is served comes from a block
\* that every path goes through.
LEMMA UsesDominate ==
  ASSUME IInv, LInv, UInv, Ended, Plain
  PROVE  DefinitionsDominate
<1> SUFFICES ASSUME phase = "done" PROVE UsesDominated(ir.blocks)
  BY DEF DefinitionsDominate
<1> DEFINE n == Len(ir.blocks)
           branches == Branches(ir.blocks)
           reached == BlocksReached(branches, n, {})
           Past(d) == reached \ (BlocksReached(branches, n, {d}) \cup {d})
           above == UNION {{d} \X Past(d) : d \in reached}
<1>1. frames = <<>> /\ "partial" \notin Lang /\ Wellformed(ir) /\ UsesInOrder /\ n \in Nat
  BY AtLabels, BlocksOf DEF Ended, Plain, UInv
<1>2. reached \subseteq 1 .. n
  <2>1. \A c \in branches : c[2] \in 1 .. n
    BY <1>1, BranchesOf
  <2>2. 1 \in 1 .. n
    BY <1>1, BlocksOf
  <2> HIDE DEF branches
  <2>3. ASSUME NEW c \in branches PROVE c[1] \in (1 .. n) \ {} /\ c[2] \notin {} => c[2] \in 1 .. n
    BY <2>1
  <2> DEFINE X == 1 .. n
  <2>4. 1 \in X /\ \A c \in branches : c[1] \in X \ {} /\ c[2] \notin {} => c[2] \in X
    BY <2>2, <2>3
  <2>5. n \in Nat
    BY <1>1
  <2> HIDE DEF X, n
  <2>6. reached \subseteq X
    BY <2>4, <2>5, ReachedWithin
  <2> QED BY <2>6 DEF X
<1> SUFFICES ASSUME NEW k \in reached,
                    NEW i \in DOMAIN Live(ir.blocks[k]),
                    NEW a \in Args(Live(ir.blocks[k])[i]), a # NoReg,
                    a \notin {Live(ir.blocks[k])[j].dest : j \in 1 .. i - 1}
             PROVE  a \in UNION {Defines(ir.blocks[d]) : d \in {c \in reached : <<c, k>> \in above}}
  BY DEF UsesDominated
<1>3. /\ k \in 1 .. n /\ i \in 1 .. Len(ir.blocks[k].instrs) /\ i \in 1 .. Len(Live(ir.blocks[k]))
      /\ Len(Live(ir.blocks[k])) \in Nat
      /\ \A j \in 1 .. Len(Live(ir.blocks[k])) :
           Live(ir.blocks[k])[j] = ir.blocks[k].instrs[j]
  BY <1>1, <1>2, LivePart
<1>4. \A j \in 1 .. i - 1 : Live(ir.blocks[k])[j] = ir.blocks[k].instrs[j]
  <2>1. \A j \in 1 .. i - 1 : j \in 1 .. Len(Live(ir.blocks[k]))
    BY <1>3
  <2> QED BY <1>3, <2>1
<1>5. Served(ir, Open, Nameable, k, a)
  <2>1. a \in Args(ir.blocks[k].instrs[i]) \ {NoReg}
    BY <1>3
  <2>2. (\E j \in 1 .. i - 1 : ir.blocks[k].instrs[j].dest = a) \/ Served(ir, Open, Nameable, k, a)
    BY <1>1, <1>3, <2>1 DEF UsesInOrder, Uses
  <2> QED BY <1>4, <2>2
<1>6. PICK d \in 1 .. n : a \in Defines(ir.blocks[d]) /\ d \in reached /\ k \in Past(d)
  BY <1>1, <1>3, <1>5, ServedAbove
<1>7. <<d, k>> \in above
  <2> HIDE DEF reached, Past
  <2> QED BY <1>6
<1> HIDE DEF reached, above
<1> QED BY <1>6, <1>7

\* A register is used only where it has been defined on every path from the
\* entry: a local's slot, although varSlots_ outlives the scope it was filled
\* in; the subject of a match in each of its arms; the counter and iterator
\* slots of a loop across its body.  So LLVM's verifier finds that definitions
\* dominate uses, for every such function and however statements are nested.
THEOREM EveryUseDominated == Plain => (Spec => []DefinitionsDominate)
<1>1. Init => Ended
  BY DEF Init, Ended
<1> QED
  <2>1. ASSUME Plain PROVE Spec => []DefinitionsDominate
    <3>1. Spec => [](IInv /\ LInv /\ UInv)
      BY <2>1, UsesInvariant
    <3>2. IInv /\ LInv /\ UInv /\ Ended => DefinitionsDominate
      BY <2>1, UsesDominate
    <3>3. Spec => []Ended
      BY <1>1, EndedStays, PTL DEF Spec
    <3> QED BY <3>1, <3>2, <3>3, PTL
  <2> QED BY <2>1
=============================================================================
