---------------------------- MODULE ExprGenProofs ----------------------------
(***************************************************************************)
(* Proofs about ExprGen and ModuleLower, for every family of modules and   *)
(* every bound: their types; that every operand of an instruction is       *)
(* defined before it; that the code generator makes a module that LLVM     *)
(* accepts, and calls that reach definitions, wherever it supports what    *)
(* the module is made of.                                                 *)
(***************************************************************************)
EXTENDS ModuleLower, SequenceTheorems, FiniteSetTheorems, WellFoundedInduction, TLAPS

(***************************************************************************)
(* An empty array literal is the one expression without a register.  The   *)
(* claims are about programs that use it, if at all, where its value is    *)
(* dropped; "array" and "empty" are the uses of Lang where it is not.      *)
(***************************************************************************)
EmptyArraysDropped ==
  \A p \in Pools : 0 \in p.lengths => Lang \cap {"array", "empty"} = {}

(***************************************************************************)
(* The inductive invariant.  The registers that a function has used are    *)
(* the results of its instructions, so a register is defined when it is at *)
(* most fn.regs; what a visitor has put aside, varSlots_ and lastReg_ are  *)
(* such registers wherever they may be read.                               *)
(***************************************************************************)
Typed(f) ==
  /\ DOMAIN f = DOMAIN NoFunction
  /\ f.code \in Seq(InstrType) /\ f.regs \in Nat
Computed(f) == \A r \in 1 .. f.regs : \E j \in DOMAIN f.code : f.code[j].dest = r
Sound(f) == Typed(f) /\ DefinedBefore(f.code) /\ Computed(f)

Finished == \A k \in DOMAIN done : /\ done[k].code \in Seq(InstrType)
                                   /\ DefinedBefore(done[k].code)

\* Visitors of statements, and those that drop the value of their operand.
Statements == {"let", "expr", "return"}
Droppers   == {"expr", "member"}

\* Operands that a visitor waits for, and the operator that it will emit.
Arity(v) ==
  /\ v.node \in Statements \cup {"unary", "member", "cast", "assign"} => v.need >= 1
  /\ v.node \in {"binary", "index"} => v.need = 2
  /\ v.node = "assign" /\ v.op # "=" => v.need = 2
  /\ v.node = "call" /\ v.name = Indirect => v.need >= 1
  /\ v.node = "array" => v.need <= Len(Element)
  /\ v.node = "binary" => v.op \in Binaries
  /\ v.node = "unary" => v.op \in {"-", "!", "~", "*", "&"}
  /\ v.node = "assign" => v.op \in Compounds \cup {"="}

\* What a visitor has put aside: a value for each operand, before them the
\* slot of a declaration, or the slots of the elements stored.
Aside(v, n) ==
  /\ v.node = "let" => Len(v.regs) = Len(v.kids) + 1
  /\ v.node = "array" => Len(v.regs) <= Len(v.kids)
  /\ v.node \notin {"let", "array"} => Len(v.regs) = Len(v.kids)
  /\ v.node \notin Droppers => \A i \in DOMAIN v.regs : v.regs[i] \in 1 .. n

Visitor(v, n) ==
  /\ DOMAIN v = DOMAIN Frame("", "", "", "", 0)
  /\ v.name \in Names /\ v.need \in Nat /\ v.regs \in Seq(Nat)
  /\ IsSeq(v.kids) /\ \A i \in DOMAIN v.kids : v.kids[i].kind \in Kinds
  /\ Len(v.kids) <= v.need
  /\ Arity(v) /\ Aside(v, n)

\* w is the visitor of an operand of v.
Awaits(v) == Len(v.kids) < v.need /\ (v.node = "array" => Len(v.regs) = Len(v.kids))
Operand(v, w) ==
  /\ Awaits(v)
  /\ w.kind \in Kinds
  /\ w.node = "array" /\ w.need = 0 => v.node \in Droppers

Stack(vs, n) ==
  /\ IsSeq(vs)
  /\ \A k \in DOMAIN vs : /\ Visitor(vs[k], n)
                          /\ k = 1 <=> vs[k].node \in Statements
                          /\ k > 1 => Operand(vs[k - 1], vs[k])

\* lastReg_ is the value of the operand visited last, unless that is dropped.
Recent(vs, r, n) ==
  vs # <<>> =>
    LET v == vs[Len(vs)] IN v.kids # <<>> /\ v.node \notin Droppers => r \in 1 .. n

Fixed ==
  /\ pool \in Pools
  /\ stage \in {"module", "aborted", "generated"}
  /\ IsSeq(decls) /\ InSeq(decls) \subseteq InSeq(pool.module)
  /\ left \in Nat
  /\ \A x \in DOMAIN scope : scope[x] \in Kinds
  /\ IsSeq(done) /\ Finished
Current ==
  /\ Sound(fn)
  /\ fn.name = "" => visits = <<>>
  /\ fn.name # "" => decls # <<>>
  /\ fn.name # "" => \A x \in DOMAIN slots : slots[x] \in 1 .. fn.regs
  /\ Stack(visits, fn.regs)
  /\ last \in Nat /\ Recent(visits, last, fn.regs)
IInv == Fixed /\ Current

-----------------------------------------------------------------------------
(***************************************************************************)
(* Sequences of values of no given set, as stacks and lists of trees are.  *)
(***************************************************************************)
LEMMA RangeSeq ==
  ASSUME NEW S, NEW t \in Seq(S)
  PROVE  IsSeq(t)
<1>1. PICK n \in Nat : t \in [1 .. n -> S]
  BY SeqDef
<1>2. t \in [1 .. n -> InSeq(t)]
  BY <1>1 DEF InSeq
<1> QED BY <1>2, SeqDef DEF IsSeq

LEMMA AppendSeq ==
  ASSUME NEW s, IsSeq(s), NEW e
  PROVE  /\ IsSeq(Append(s, e))
         /\ Len(s) \in Nat /\ DOMAIN s = 1 .. Len(s)
         /\ DOMAIN Append(s, e) = 1 .. Len(s) + 1
         /\ Len(Append(s, e)) = Len(s) + 1
         /\ \A i \in 1 .. Len(s) : Append(s, e)[i] = s[i]
         /\ Append(s, e)[Len(s) + 1] = e
         /\ Append(s, e) # <<>>
<1> DEFINE S == InSeq(s) \cup {e}
<1>1. s \in Seq(S) /\ e \in S
  BY DEF IsSeq
<1> HIDE DEF S
<1>2. /\ Len(s) \in Nat /\ DOMAIN s = 1 .. Len(s)
      /\ Append(s, e) \in Seq(S)
      /\ DOMAIN Append(s, e) = 1 .. Len(s) + 1
      /\ Len(Append(s, e)) = Len(s) + 1
      /\ \A i \in 1 .. Len(s) : Append(s, e)[i] = s[i]
      /\ Append(s, e)[Len(s) + 1] = e
      /\ Append(s, e) # <<>>
  BY <1>1
<1>3. IsSeq(Append(s, e))
  BY <1>2, RangeSeq
<1> QED BY <1>2, <1>3

LEMMA ReplaceSeq ==
  ASSUME NEW s, IsSeq(s), NEW k \in DOMAIN s, NEW e
  PROVE  LET t == [s EXCEPT ![k] = e]
         IN  /\ IsSeq(t) /\ Len(t) = Len(s) /\ DOMAIN t = DOMAIN s
             /\ t[k] = e /\ \A i \in DOMAIN s : i # k => t[i] = s[i]
<1> DEFINE t == [s EXCEPT ![k] = e]
           S == InSeq(s) \cup {e}
<1>1. s \in Seq(S) /\ e \in S
  BY DEF IsSeq
<1> HIDE DEF S
<1>2. /\ t \in Seq(S) /\ Len(t) = Len(s) /\ DOMAIN t = DOMAIN s
      /\ t[k] = e /\ \A i \in DOMAIN s : i # k => t[i] = s[i]
  BY <1>1
<1>3. IsSeq(t)
  BY <1>2, RangeSeq
<1> QED BY <1>2, <1>3

LEMMA FrontSeq ==
  ASSUME NEW s, IsSeq(s), s # <<>>
  PROVE  LET t == SubSeq(s, 1, Len(s) - 1)
         IN  /\ IsSeq(t) /\ Len(s) \in Nat \ {0} /\ DOMAIN s = 1 .. Len(s)
             /\ Len(t) = Len(s) - 1 /\ DOMAIN t = 1 .. Len(s) - 1
             /\ \A i \in DOMAIN t : t[i] = s[i]
<1> DEFINE t == SubSeq(s, 1, Len(s) - 1)
           S == InSeq(s)
<1>1. s \in Seq(S)
  BY DEF IsSeq
<1> HIDE DEF S
<1>2. Len(s) \in Nat \ {0} /\ DOMAIN s = 1 .. Len(s)
  BY <1>1
<1>3. /\ t \in Seq(S) /\ Len(t) = Len(s) - 1 /\ DOMAIN t = 1 .. Len(s) - 1
      /\ \A i \in DOMAIN t : t[i] = s[i]
  BY <1>1, <1>2
<1>4. IsSeq(t)
  BY <1>3, RangeSeq
<1> QED BY <1>2, <1>3, <1>4

LEMMA NoneSeq == IsSeq(<<>>) /\ DOMAIN <<>> = {} /\ Len(<<>>) = 0
BY DEF IsSeq

(***************************************************************************)
(* The instructions of a function.                                         *)
(***************************************************************************)
LEMMA InstrTyped ==
  ASSUME NEW op \in Opcodes, NEW dest \in Nat, NEW args \in Seq(Nat),
         NEW sym \in Names, NEW imm \in Immediates
  PROVE  LET i == Instr(op, dest, args, sym, imm)
         IN  /\ i \in InstrType /\ i.op = op /\ i.dest = dest /\ i.args = args
BY DEF Instr, InstrType

\* IRBuilder::append: an instruction that reads registers in use.
LEMMA EmitSound ==
  ASSUME NEW f, Sound(f), NEW i \in InstrType,
         \A a \in DOMAIN i.args : i.args[a] \in 1 .. f.regs
  PROVE  /\ Sound(Emit(f, i))
         /\ Emit(f, i).regs = f.regs /\ Emit(f, i).name = f.name
         /\ Emit(f, i).code = Append(f.code, i)
<1> DEFINE g == Emit(f, i)
<1>1. /\ DOMAIN f = {"name", "params", "returns", "code", "regs", "body"}
      /\ f.code \in Seq(InstrType) /\ f.regs \in Nat
  BY DEF Sound, Typed, NoFunction
<1>2. /\ DOMAIN g = DOMAIN f /\ g.regs = f.regs /\ g.name = f.name
      /\ g.code = Append(f.code, i)
  BY <1>1 DEF Emit
<1> HIDE DEF g
<1>3. /\ g.code \in Seq(InstrType) /\ Len(f.code) \in Nat
      /\ DOMAIN f.code = 1 .. Len(f.code) /\ DOMAIN g.code = 1 .. Len(f.code) + 1
      /\ \A k \in DOMAIN f.code : g.code[k] = f.code[k]
      /\ g.code[Len(f.code) + 1] = i
  BY <1>1, <1>2
<1>4. Typed(g)
  BY <1>1, <1>2, <1>3 DEF Typed, Sound
<1>5. Computed(g)
  BY <1>2, <1>3 DEF Computed, Sound
<1>6. DefinedBefore(g.code)
  <2> SUFFICES ASSUME NEW k \in DOMAIN g.code, g.code[k].op # "param",
                      NEW a \in DOMAIN g.code[k].args
               PROVE  \E j \in 1 .. k - 1 : /\ g.code[j].dest = g.code[k].args[a]
                                            /\ g.code[j].dest # NoReg
    BY DEF DefinedBefore
  <2>1. CASE k \in DOMAIN f.code
    <3>1. PICK j \in 1 .. k - 1 : /\ f.code[j].dest = f.code[k].args[a]
                                  /\ f.code[j].dest # NoReg
      BY <1>3, <2>1 DEF Sound, DefinedBefore
    <3>2. g.code[k] = f.code[k] /\ j \in DOMAIN f.code
      BY <1>3, <2>1
    <3>3. g.code[j].dest = g.code[k].args[a] /\ g.code[j].dest # NoReg
      BY <1>3, <3>1, <3>2
    <3> QED BY <3>3
  <2>2. CASE k = Len(f.code) + 1
    <3>1. i.args[a] \in 1 .. f.regs
      BY <1>3, <2>2
    <3>2. PICK j \in DOMAIN f.code : f.code[j].dest = i.args[a]
      BY <3>1 DEF Sound, Computed
    <3>3. j \in 1 .. k - 1 /\ g.code[j].dest = g.code[k].args[a]
      BY <1>3, <2>2, <3>2
    <3> QED BY <1>1, <3>1, <3>2, <3>3, <1>3 DEF NoReg
  <2> QED BY <1>3, <2>1, <2>2
<1> QED BY <1>2, <1>4, <1>5, <1>6 DEF Sound, g

\* With a result in a fresh register.
LEMMA ValueSound ==
  ASSUME NEW f, Sound(f), NEW op \in Opcodes, NEW args \in Seq(Nat),
         NEW sym \in Names, NEW imm \in Immediates,
         \A a \in DOMAIN args : args[a] \in 1 .. f.regs
  PROVE  LET g == Value(f, op, args, sym, imm)
         IN  /\ Sound(g) /\ g.regs = f.regs + 1 /\ g.name = f.name
             /\ f.regs \in Nat /\ f.regs + 1 \in 1 .. g.regs
<1> DEFINE i == Instr(op, f.regs + 1, args, sym, imm)
           e == Emit(f, i)
           g == [e EXCEPT !.regs = @ + 1]
<1>1. f.regs \in Nat /\ f.code \in Seq(InstrType)
  BY DEF Sound, Typed
<1>2. i \in InstrType /\ i.dest = f.regs + 1 /\ i.args = args
  BY <1>1, InstrTyped
<1> HIDE DEF i
<1>3. /\ Sound(e) /\ e.regs = f.regs /\ e.name = f.name /\ e.code = Append(f.code, i)
  BY <1>2, EmitSound
<1> HIDE DEF e
<1>4. DOMAIN e = {"name", "params", "returns", "code", "regs", "body"}
  BY <1>3 DEF Sound, Typed, NoFunction
<1>5. /\ DOMAIN g = DOMAIN e /\ g.regs = f.regs + 1 /\ g.name = f.name
      /\ g.code = e.code
  BY <1>3, <1>4
<1> HIDE DEF g
<1>6. Typed(g) /\ DefinedBefore(g.code)
  BY <1>1, <1>3, <1>5 DEF Sound, Typed
<1>7. Computed(g)
  <2> SUFFICES ASSUME NEW r \in 1 .. g.regs
               PROVE  \E j \in DOMAIN g.code : g.code[j].dest = r
    BY DEF Computed
  <2>1. CASE r \in 1 .. f.regs
    BY <1>3, <1>5, <2>1 DEF Sound, Computed
  <2>2. CASE r = f.regs + 1
    <3>1. /\ Len(f.code) + 1 \in DOMAIN g.code
          /\ g.code[Len(f.code) + 1] = i
      BY <1>1, <1>2, <1>3, <1>5
    <3> QED BY <1>2, <2>2, <3>1
  <2> QED BY <1>1, <1>5, <2>1, <2>2
<1> QED BY <1>1, <1>5, <1>6, <1>7 DEF Sound, Value, g, e, i

(***************************************************************************)
(* The stack of visitors.                                                  *)
(***************************************************************************)
LEMMA StackShape ==
  ASSUME NEW vs, NEW n, Stack(vs, n), vs # <<>>
  PROVE  /\ Len(vs) \in Nat \ {0} /\ DOMAIN vs = 1 .. Len(vs)
         /\ Visitor(vs[Len(vs)], n)
BY FrontSeq DEF Stack

\* Registers in use stay so.
LEMMA WidenStack ==
  ASSUME NEW vs, NEW n \in Nat, NEW m \in Nat, n <= m, Stack(vs, n)
  PROVE  Stack(vs, m)
<1>1. ASSUME NEW v, Visitor(v, n) PROVE Visitor(v, m)
  <2>1. \A i \in 1 .. n : i \in 1 .. m
    OBVIOUS
  <2> QED BY <1>1, <2>1 DEF Visitor, Aside
<1> QED BY <1>1 DEF Stack

LEMMA PushStack ==
  ASSUME NEW vs, NEW n, Stack(vs, n), vs # <<>>,
         NEW f, Visitor(f, n), f.node \notin Statements, Operand(vs[Len(vs)], f)
  PROVE  LET t == Append(vs, f)
         IN  Stack(t, n) /\ t # <<>> /\ t[Len(t)] = f
<1> DEFINE t == Append(vs, f)
           m == Len(vs)
<1>1. /\ IsSeq(t) /\ m \in Nat \ {0} /\ DOMAIN vs = 1 .. m /\ DOMAIN t = 1 .. m + 1
      /\ Len(t) = m + 1 /\ t[m + 1] = f /\ \A i \in 1 .. m : t[i] = vs[i]
      /\ t # <<>>
  BY StackShape, AppendSeq DEF Stack
<1> HIDE DEF t, m
<1>2. ASSUME NEW k \in DOMAIN t
      PROVE  /\ Visitor(t[k], n)
             /\ k = 1 <=> t[k].node \in Statements
             /\ k > 1 => Operand(t[k - 1], t[k])
  <2>1. CASE k = m + 1
    <3>1. t[k] = f /\ t[k - 1] = vs[m] /\ k > 1
      BY <1>1, <2>1
    <3> QED BY <3>1, <1>1 DEF m
  <2>2. CASE k \in 1 .. m
    <3>1. t[k] = vs[k] /\ (k > 1 => t[k - 1] = vs[k - 1])
      BY <1>1, <2>2
    <3> QED BY <3>1, <1>1, <2>2 DEF Stack
  <2> QED BY <1>1, <2>1, <2>2
<1> QED BY <1>1, <1>2 DEF Stack, t

LEMMA PopStack ==
  ASSUME NEW vs, NEW n, Stack(vs, n), vs # <<>>, vs[Len(vs)].node \notin Statements
  PROVE  LET t == SubSeq(vs, 1, Len(vs) - 1)
         IN  Stack(t, n) /\ t # <<>> /\ Operand(t[Len(t)], vs[Len(vs)])
<1> DEFINE t == SubSeq(vs, 1, Len(vs) - 1)
           m == Len(vs)
<1>1. /\ IsSeq(t) /\ m \in Nat \ {0} /\ DOMAIN vs = 1 .. m
      /\ Len(t) = m - 1 /\ DOMAIN t = 1 .. m - 1
      /\ \A i \in DOMAIN t : t[i] = vs[i]
  BY FrontSeq DEF Stack
<1> HIDE DEF t
<1>2. m # 1
  BY <1>1 DEF Stack
<1>3. Operand(vs[m - 1], vs[m])
  BY <1>1, <1>2 DEF Stack
<1>4. Stack(t, n)
  <2>1. ASSUME NEW k \in DOMAIN t
        PROVE  /\ Visitor(t[k], n)
               /\ k = 1 <=> t[k].node \in Statements
               /\ k > 1 => Operand(t[k - 1], t[k])
    <3>1. k \in DOMAIN vs /\ t[k] = vs[k] /\ (k > 1 => t[k - 1] = vs[k - 1])
      BY <1>1
    <3> QED BY <3>1 DEF Stack
  <2> QED BY <1>1, <2>1 DEF Stack
<1>5. t # <<>> /\ t[Len(t)] = vs[m - 1]
  BY <1>1, <1>2, NoneSeq
<1> QED BY <1>3, <1>4, <1>5 DEF t

\* The innermost visitor goes on: what is below it does not change.
LEMMA AdvanceStack ==
  ASSUME NEW vs, NEW n, Stack(vs, n), vs # <<>>,
         NEW w, Visitor(w, n), w.node = vs[Len(vs)].node,
         w.kind = vs[Len(vs)].kind, w.need = vs[Len(vs)].need
  PROVE  LET t == [vs EXCEPT ![Len(vs)] = w]
         IN  Stack(t, n) /\ t # <<>> /\ t[Len(t)] = w
<1> DEFINE m == Len(vs)
           t == [vs EXCEPT ![m] = w]
<1>1. m \in Nat \ {0} /\ DOMAIN vs = 1 .. m /\ m \in DOMAIN vs /\ IsSeq(vs)
  BY StackShape DEF Stack
<1> HIDE DEF m
<1>2. /\ IsSeq(t) /\ Len(t) = Len(vs) /\ DOMAIN t = DOMAIN vs /\ t[m] = w
      /\ \A i \in DOMAIN vs : i # m => t[i] = vs[i]
  BY <1>1, ReplaceSeq
<1> HIDE DEF t
<1>3. ASSUME NEW k \in DOMAIN t
      PROVE  /\ Visitor(t[k], n)
             /\ k = 1 <=> t[k].node \in Statements
             /\ k > 1 => Operand(t[k - 1], t[k])
  <2>1. CASE k = m
    <3>1. /\ t[k] = w /\ t[k].node = vs[k].node /\ t[k].kind = vs[k].kind
          /\ t[k].need = vs[k].need /\ (k > 1 => t[k - 1] = vs[k - 1])
      BY <1>1, <1>2, <2>1 DEF m
    <3> QED BY <3>1, <1>1, <1>2 DEF Stack, Operand
  <2>2. CASE k # m
    <3>1. t[k] = vs[k] /\ k \in DOMAIN vs /\ (k > 1 => t[k - 1] = vs[k - 1])
      BY <1>1, <1>2, <2>2
    <3> QED BY <3>1 DEF Stack
  <2> QED BY <2>1, <2>2
<1> QED BY <1>1, <1>2, <1>3, NoneSeq DEF Stack, t, m

\* A value reaches the visitor that waits for it.
LEMMA TakenStack ==
  ASSUME NEW vs, NEW n, Stack(vs, n), vs # <<>>, Awaits(vs[Len(vs)]),
         NEW tree, tree.kind \in Kinds,
         NEW r \in Nat, vs[Len(vs)].node \notin Droppers => r \in 1 .. n
  PROVE  LET t == Taken(vs, tree, r)
         IN  Stack(t, n) /\ t # <<>> /\ Recent(t, r, n)
<1> DEFINE m == Len(vs)
           v == vs[m]
           kids == Append(v.kids, tree)
           regs == IF v.node = "array" THEN v.regs ELSE Append(v.regs, r)
           w == [[v EXCEPT !.kids = kids] EXCEPT !.regs = regs]
<1>1. /\ m \in Nat \ {0} /\ m \in DOMAIN vs /\ Visitor(v, n) /\ Awaits(v)
      /\ v.node \notin Droppers => r \in 1 .. n
  BY StackShape
<1>2. Taken(vs, tree, r) = [vs EXCEPT ![m] = w]
  BY <1>1 DEF Taken, Visitor, Frame
<1> HIDE DEF v, m
<1>3. /\ IsSeq(v.kids) /\ \A i \in DOMAIN v.kids : v.kids[i].kind \in Kinds
      /\ v.regs \in Seq(Nat) /\ v.need \in Nat /\ Len(v.kids) < v.need
      /\ v.node = "array" => Len(v.regs) = Len(v.kids)
      /\ DOMAIN v = {"node", "op", "name", "kind", "need", "kids", "regs"}
      /\ Aside(v, n)
  BY <1>1 DEF Visitor, Awaits, Frame
<1>4. /\ IsSeq(kids) /\ Len(v.kids) \in Nat /\ Len(kids) = Len(v.kids) + 1
      /\ kids # <<>> /\ \A i \in DOMAIN kids : kids[i].kind \in Kinds
  BY <1>3, AppendSeq
<1>5. /\ regs \in Seq(Nat)
      /\ Len(regs) = IF v.node = "array" THEN Len(v.regs) ELSE Len(v.regs) + 1
      /\ Len(v.regs) \in Nat
  BY <1>3
<1>6. v.node \notin Droppers => \A i \in DOMAIN regs : regs[i] \in 1 .. n
  <2>1. CASE v.node = "array"
    BY <1>3, <2>1 DEF Aside
  <2>2. CASE v.node # "array"
    <3>1. /\ Len(v.regs) \in Nat /\ DOMAIN v.regs = 1 .. Len(v.regs)
          /\ DOMAIN regs = 1 .. Len(v.regs) + 1 /\ regs[Len(v.regs) + 1] = r
          /\ \A i \in DOMAIN v.regs : regs[i] = v.regs[i]
      BY <1>3, <2>2
    <3> HIDE DEF regs
    <3>2. ASSUME v.node \notin Droppers, NEW i \in DOMAIN regs PROVE regs[i] \in 1 .. n
      <4>1. CASE i \in DOMAIN v.regs
        BY <1>3, <3>1, <3>2, <4>1 DEF Aside
      <4>2. CASE i = Len(v.regs) + 1
        BY <1>1, <3>1, <3>2, <4>2
      <4> QED BY <3>1, <4>1, <4>2
    <3> QED BY <3>2
  <2> QED BY <2>1, <2>2
<1>7. /\ DOMAIN w = DOMAIN v /\ w.node = v.node /\ w.kind = v.kind /\ w.need = v.need
      /\ w.name = v.name /\ w.op = v.op /\ w.kids = kids /\ w.regs = regs
  BY <1>3
<1> HIDE DEF kids, regs, w
<1>8. Visitor(w, n)
  <2>1. Len(w.kids) <= w.need
    BY <1>3, <1>4, <1>7
  <2>2. Aside(w, n)
    <3>1. v.node # "array" => Len(w.regs) = Len(v.regs) + 1
      BY <1>5, <1>7
    <3>2. v.node = "array" => Len(w.regs) = Len(v.regs)
      BY <1>5, <1>7
    <3> QED BY <1>3, <1>4, <1>5, <1>6, <1>7, <3>1, <3>2 DEF Aside
  <2>3. Arity(w)
    BY <1>1, <1>7 DEF Visitor, Arity
  <2> QED BY <1>1, <1>4, <1>5, <1>7, <2>1, <2>2, <2>3 DEF Visitor
<1>9. /\ Stack([vs EXCEPT ![m] = w], n) /\ [vs EXCEPT ![m] = w] # <<>>
      /\ [vs EXCEPT ![m] = w][Len([vs EXCEPT ![m] = w])] = w
  BY <1>7, <1>8, AdvanceStack DEF v, m
<1> QED BY <1>1, <1>2, <1>4, <1>7, <1>9 DEF Recent

(***************************************************************************)
(* What the visitors have in common.                                       *)
(***************************************************************************)
LEMMA FreshVisitor ==
  ASSUME NEW node, NEW op, NEW name \in Names, NEW kind, NEW need \in Nat, NEW n,
         node # "let", Arity(Frame(node, op, name, kind, need))
  PROVE  LET f == Frame(node, op, name, kind, need)
         IN  /\ Visitor(f, n) /\ f.node = node /\ f.kind = kind /\ f.need = need
             /\ f.kids = <<>> /\ f.regs = <<>>
<1> DEFINE f == Frame(node, op, name, kind, need)
<1>1. /\ f.node = node /\ f.kind = kind /\ f.need = need /\ f.name = name
      /\ f.kids = <<>> /\ f.regs = <<>>
  BY DEF Frame
<1>2. DOMAIN f = DOMAIN Frame("", "", "", "", 0)
  BY DEF Frame
<1> HIDE DEF f
<1>3. f.regs \in Seq(Nat) /\ Len(f.kids) <= f.need
  BY <1>1, NoneSeq
<1>4. Aside(f, n)
  BY <1>1, NoneSeq DEF Aside
<1> QED BY <1>1, <1>2, <1>3, <1>4, NoneSeq DEF Visitor, f

LEMMA Facts ==
  ASSUME IInv
  PROVE  /\ pool \in Pools /\ Sound(fn) /\ fn.regs \in Nat /\ last \in Nat
         /\ Stack(visits, fn.regs) /\ left \in Nat
         /\ Recent(visits, last, fn.regs)
BY DEF IInv, Fixed, Current, Sound, Typed

\* An expression in the place of an operand.
LEMMA Placed ==
  ASSUME IInv, NEW node, NEW kind, NEW m, Visiting(node, kind, m)
  PROVE  /\ visits # <<>> /\ Top = visits[Len(visits)] /\ Awaits(Top)
         /\ Visitor(Top, fn.regs) /\ fn.name # ""
<1>1. visits # <<>> /\ Awaits(Top)
  BY DEF Visiting, Expects, Awaits
<1> QED BY <1>1, StackShape DEF Top, IInv, Current

LEMMA VisitingFixed ==
  ASSUME IInv, NEW node, NEW kind, NEW m \in Nat, Visiting(node, kind, m)
  PROVE  Fixed' /\ slots' = slots /\ decls' = decls
<1>1. left' \in Nat
  BY Facts DEF Visiting
<1>2. /\ pool' = pool /\ decls' = decls /\ done' = done /\ slots' = slots
      /\ scope' = scope /\ stage' = stage
  BY DEF Visiting
<1>3. Fixed'
  BY <1>1, <1>2 DEF IInv, Fixed, Finished
<1> QED BY <1>2, <1>3

LEMMA SuspendStep ==
  ASSUME IInv, NEW node, NEW kind \in Kinds, NEW m \in Nat, Visiting(node, kind, m),
         NEW f, Visitor(f, fn.regs), f.node \notin Statements, f.kids = <<>>,
         Operand(Top, f), Suspend(f)
  PROVE  IInv'
<1>1. Stack(visits', fn'.regs) /\ visits' # <<>> /\ visits'[Len(visits')] = f
  <2>1. /\ Stack(visits, fn.regs) /\ visits # <<>> /\ Operand(visits[Len(visits)], f)
        /\ visits' = Append(visits, f) /\ fn' = fn
    BY Placed, Facts DEF Suspend
  <2> QED BY <2>1, PushStack
<1>2. Recent(visits', last', fn'.regs)
  BY <1>1 DEF Recent
<1>3. Current'
  BY <1>1, <1>2, Placed, VisitingFixed DEF Current, IInv, Suspend
<1> QED BY <1>3, VisitingFixed DEF IInv

LEMMA LeafStep ==
  ASSUME IInv, NEW node, NEW kind \in Kinds, NEW m \in Nat, Visiting(node, kind, m),
         NEW f, Sound(f), f.name = fn.name, fn.regs <= f.regs, NEW r \in 1 .. f.regs,
         NEW tree, tree.kind \in Kinds, Leaf(f, r, tree)
  PROVE  IInv'
<1>1. fn.regs \in Nat /\ f.regs \in Nat /\ r \in Nat
  <2>1. f.regs \in Nat
    BY DEF Sound, Typed
  <2> QED BY <2>1, Facts
<1>2. Stack(visits, f.regs)
  BY <1>1, WidenStack DEF IInv, Current
<1>3. Stack(visits', f.regs) /\ visits' # <<>> /\ Recent(visits', r, f.regs)
  BY <1>1, <1>2, Placed, TakenStack DEF Leaf, Top
<1>4. Current'
  <2>1. /\ fn' = f /\ last' = r /\ slots' = slots /\ fn.name # ""
        /\ decls' = decls /\ decls # <<>>
        /\ fn.name # "" => \A x \in DOMAIN slots : slots[x] \in 1 .. fn.regs
    BY Placed, VisitingFixed DEF Current, IInv, Leaf
  <2>2. \A r1 \in 1 .. fn.regs : r1 \in 1 .. f.regs
    BY <1>1
  <2>3. \A x \in DOMAIN slots : slots[x] \in 1 .. f.regs
    BY <2>1, <2>2
  <2> QED BY <1>1, <1>3, <2>1, <2>3 DEF Current
<1> QED BY <1>4, VisitingFixed DEF IInv

\* A visitor whose operands are complete.
LEMMA Completed ==
  ASSUME IInv, Complete
  PROVE  /\ visits # <<>> /\ Top = visits[Len(visits)] /\ Visitor(Top, fn.regs)
         /\ fn.name # "" /\ Top.need \in Nat /\ Len(Top.kids) = Top.need
         /\ Top.regs \in Seq(Nat) /\ Top.name \in Names /\ Arity(Top)
         /\ Top.node # "let" => Len(Top.regs) = Top.need
         /\ Top.node = "let" => Len(Top.regs) = Top.need + 1
         /\ Top.node \notin Droppers => \A i \in DOMAIN Top.regs : Top.regs[i] \in 1 .. fn.regs
<1>1. /\ visits # <<>> /\ Len(Top.kids) = Top.need
      /\ Top.node = "array" => Len(Top.regs) = Top.need
  BY DEF Complete
<1>2. Top = visits[Len(visits)] /\ Visitor(Top, fn.regs) /\ fn.name # ""
  BY <1>1, StackShape DEF Top, IInv, Current
<1> HIDE DEF Top
<1> QED BY <1>1, <1>2 DEF Visitor, Aside

LEMMA ResultStep ==
  ASSUME IInv, NEW node, node \notin Statements, Lowering(node),
         NEW f, Sound(f), f.name = fn.name, fn.regs <= f.regs,
         NEW r \in Nat, r \in 1 .. f.regs \/ (Top.node = "array" /\ Top.need = 0),
         Result(f, r)
  PROVE  IInv'
<1>1. fn.regs \in Nat /\ f.regs \in Nat
  BY DEF IInv, Current, Sound, Typed
<1>2. /\ Complete /\ Top.node = node /\ visits # <<>> /\ Top = visits[Len(visits)]
      /\ fn.name # "" /\ DOMAIN Top = DOMAIN Frame("", "", "", "", 0)
  BY Completed DEF Lowering, Visitor
<1>3. Stack(visits, f.regs)
  BY <1>1, WidenStack DEF IInv, Current
<1>4. Stack(Pop, f.regs) /\ Pop # <<>> /\ Operand(Pop[Len(Pop)], Top)
  BY <1>2, <1>3, PopStack DEF Pop
<1>5. Tree(Top).kind = Top.kind /\ Top.kind \in Kinds
  BY <1>4 DEF Tree, Node, Operand
<1>6. Pop[Len(Pop)].node \notin Droppers => r \in 1 .. f.regs
  BY <1>4 DEF Operand
<1>7. /\ visits' = Taken(Pop, Tree(Top), r)
      /\ Stack(visits', f.regs) /\ visits' # <<>> /\ Recent(visits', r, f.regs)
  BY <1>4, <1>5, <1>6, TakenStack DEF Result, Operand
<1>8. Current'
  <2>1. /\ fn' = f /\ last' = r /\ slots' = slots
        /\ decls' = decls /\ (fn.name # "" => decls # <<>>)
        /\ fn.name # "" => \A x \in DOMAIN slots : slots[x] \in 1 .. fn.regs
    BY DEF Current, IInv, Result, Lowering
  <2>2. \A r1 \in 1 .. fn.regs : r1 \in 1 .. f.regs
    BY <1>1
  <2>3. \A x \in DOMAIN slots : slots[x] \in 1 .. f.regs
    BY <1>2, <2>1, <2>2
  <2> QED BY <1>1, <1>2, <1>7, <2>1, <2>3 DEF Current
<1>9. Fixed'
  BY DEF IInv, Fixed, Finished, Lowering
<1> QED BY <1>8, <1>9 DEF IInv

\* An instruction on the operands put aside.
LEMMA ResultOfStep ==
  ASSUME IInv, NEW node, node \notin Statements, Lowering(node),
         NEW op \in Opcodes, NEW args \in Seq(Nat), NEW sym \in Names,
         \A a \in DOMAIN args : args[a] \in 1 .. fn.regs,
         ResultOf(op, args, sym)
  PROVE  IInv'
<1> DEFINE f == Value(fn, op, args, sym, "")
<1>1. /\ Sound(f) /\ f.regs = fn.regs + 1 /\ f.name = fn.name
      /\ fn.regs \in Nat /\ fn.regs + 1 \in 1 .. f.regs
  <2>1. "" \in Immediates /\ Sound(fn)
    BY Facts DEF Immediates
  <2> QED BY <2>1, ValueSound
<1>2. Result(f, fn.regs + 1)
  BY DEF ResultOf
<1> HIDE DEF f
<1> QED BY <1>1, <1>2, ResultStep

-----------------------------------------------------------------------------
(***************************************************************************)
(* Operators and names.                                                    *)
(***************************************************************************)
LEMMA NamesKnown ==
  ASSUME pool \in Pools
  PROVE  /\ {"", "?", "after_ret"} \cup Builtins \cup Declared \subseteq Names
         /\ pool.names \cup pool.imports \cup pool.members \subseteq Names
         /\ \A l \in pool.literals : /\ l.text \in Names /\ l.imm \in Immediates
                                     /\ l.kind \in Kinds
         /\ "" \in Immediates
<1>1. NamesOf(pool) \subseteq Names /\ {"", "?", "after_ret"} \cup Builtins \subseteq Names
  BY DEF Names
<1>2. /\ Declared \cup pool.names \cup pool.imports \cup pool.members \subseteq NamesOf(pool)
      /\ \A l \in pool.literals : l.text \in NamesOf(pool)
  BY DEF NamesOf, Declared
<1>3. "" \in Immediates
  BY DEF Immediates
<1>4. \A l \in pool.literals : l.imm \in Immediates
  <2>1. {l.imm : l \in pool.literals} \subseteq Immediates
    BY DEF Immediates
  <2> QED BY <2>1
<1>5. \A l \in pool.literals : l.kind \in Kinds
  BY PoolsAssumption
<1> QED BY <1>1, <1>2, <1>3, <1>4, <1>5

LEMMA OperatorsKnown ==
  /\ \A o \in Binaries : binaryOpToOpcode(o) \in Opcodes
  /\ \A o \in Compounds : o \in Binaries
  /\ {"alloca", "param", "load", "store", "copy", "cast", "call", "ret", "block"} \subseteq Opcodes
<1>1. \A o \in Binaries : binaryOpToOpcode(o) \in Opcodes
  BY DEF Opcodes
<1>2. \A o \in Compounds : o \in Binaries
  BY DEF Compounds, Binaries, Bitwise
<1>3. {"alloca", "param", "load", "store", "copy", "cast", "call", "ret", "block"} \subseteq Opcodes
  BY DEF Opcodes
<1> QED BY <1>1, <1>2, <1>3

LEMMA UnaryKnown ==
  ASSUME NEW o \in {"-", "!", "~"}
  PROVE  unaryOpToOpcode(o) \in Opcodes
BY DEF unaryOpToOpcode, Opcodes

\* Lists of registers in use.
LEMMA NoArgs ==
  ASSUME NEW n
  PROVE  <<>> \in Seq(Nat) /\ \A a \in DOMAIN <<>> : <<>>[a] \in 1 .. n
<1>1. <<>> \in Seq(Nat)
  OBVIOUS
<1> QED BY <1>1, NoneSeq

LEMMA OneArg ==
  ASSUME NEW n \in Nat, NEW v \in 1 .. n
  PROVE  <<v>> \in Seq(Nat) /\ \A a \in DOMAIN <<v>> : <<v>>[a] \in 1 .. n
<1>1. <<v>> \in Seq(Nat)
  OBVIOUS
<1>2. \A a \in DOMAIN <<v>> : <<v>>[a] \in 1 .. n
  OBVIOUS
<1> QED BY <1>1, <1>2

LEMMA TwoArgs ==
  ASSUME NEW n \in Nat, NEW v \in 1 .. n, NEW w \in 1 .. n
  PROVE  <<v, w>> \in Seq(Nat) /\ \A a \in DOMAIN <<v, w>> : <<v, w>>[a] \in 1 .. n
<1>1. <<v, w>> \in Seq(Nat)
  OBVIOUS
<1>2. \A a \in DOMAIN <<v, w>> : <<v, w>>[a] \in 1 .. n
  OBVIOUS
<1> QED BY <1>1, <1>2

\* An instruction that reads no register.
LEMMA PlainSound ==
  ASSUME NEW f, Sound(f), NEW op \in Opcodes, NEW sym \in Names, NEW imm \in Immediates
  PROVE  /\ LET g == Emit(f, Instr(op, NoReg, <<>>, sym, imm))
            IN  Sound(g) /\ g.regs = f.regs /\ g.name = f.name
         /\ LET g == Value(f, op, <<>>, sym, imm)
            IN  /\ Sound(g) /\ g.regs = f.regs + 1 /\ g.name = f.name
                /\ f.regs \in Nat /\ f.regs + 1 \in 1 .. g.regs
<1> DEFINE args == <<>>
           i == Instr(op, NoReg, args, sym, imm)
<1>1. args \in Seq(Nat) /\ \A a \in DOMAIN args : args[a] \in 1 .. f.regs
  BY NoArgs
<1> HIDE DEF args
<1>2. i \in InstrType /\ i.args = args
  BY <1>1, InstrTyped DEF NoReg
<1> HIDE DEF i
<1>3. Sound(Emit(f, i)) /\ Emit(f, i).regs = f.regs /\ Emit(f, i).name = f.name
  BY <1>1, <1>2, EmitSound
<1>4. LET g == Value(f, op, args, sym, imm)
      IN  /\ Sound(g) /\ g.regs = f.regs + 1 /\ g.name = f.name
          /\ f.regs \in Nat /\ f.regs + 1 \in 1 .. g.regs
  BY <1>1, ValueSound
<1> QED BY <1>3, <1>4 DEF i, args

\* The registers and the slot that a load, a store or a copy reads.
LEMMA LoadSound ==
  ASSUME IInv, fn.name # "", NEW x \in Names
  PROVE  Sound(LoadOf(x)) /\ LoadOf(x).regs = fn.regs + 1 /\ LoadOf(x).name = fn.name
<1>1. /\ Sound(fn) /\ fn.regs \in Nat /\ "load" \in Opcodes /\ "call" \in Opcodes
      /\ "" \in Names /\ "" \in Immediates
  BY Facts, NamesKnown, OperatorsKnown
<1>2. CASE x \notin Bare /\ x \in DOMAIN slots
  <2>1. slots[x] \in 1 .. fn.regs
    BY <1>2 DEF IInv, Current
  <2>2. <<slots[x]>> \in Seq(Nat) /\ \A a \in DOMAIN <<slots[x]>> : <<slots[x]>>[a] \in 1 .. fn.regs
    BY <1>1, <2>1, OneArg
  <2> DEFINE args == <<slots[x]>>
  <2>3. LoadOf(x) = Value(fn, "load", args, "", "")
    BY <1>2 DEF LoadOf
  <2>4. args \in Seq(Nat) /\ \A a \in DOMAIN args : args[a] \in 1 .. fn.regs
    BY <2>2
  <2> HIDE DEF args
  <2> DEFINE g == Value(fn, "load", args, "", "")
  <2>5. Sound(g) /\ g.regs = fn.regs + 1 /\ g.name = fn.name
    BY <1>1, <2>4, ValueSound
  <2>6. LoadOf(x) = g
    BY <2>3
  <2> HIDE DEF g
  <2> QED BY <2>5, <2>6
<1>3. CASE x \notin Bare /\ x \notin DOMAIN slots
  <2> DEFINE g == Value(fn, "load", <<>>, x, "")
  <2>1. Sound(g) /\ g.regs = fn.regs + 1 /\ g.name = fn.name
    BY <1>1, PlainSound
  <2>2. LoadOf(x) = g
    BY <1>3 DEF LoadOf
  <2> HIDE DEF g
  <2> QED BY <2>1, <2>2
<1>4. CASE x \in Bare
  <2> DEFINE g == Value(fn, "call", <<>>, x, "")
  <2>1. Sound(g) /\ g.regs = fn.regs + 1 /\ g.name = fn.name
    BY <1>1, PlainSound
  <2>2. LoadOf(x) = g
    BY <1>4 DEF LoadOf
  <2> HIDE DEF g
  <2> QED BY <2>1, <2>2
<1> QED BY <1>2, <1>3, <1>4

LEMMA StoreSound ==
  ASSUME NEW f, Sound(f), NEW v \in 1 .. f.regs, NEW slot \in 1 .. f.regs
  PROVE  LET g == Emit(f, Instr("store", NoReg, <<v, slot>>, "", ""))
         IN  Sound(g) /\ g.regs = f.regs /\ g.name = f.name
<1> DEFINE args == <<v, slot>>
           i == Instr("store", NoReg, args, "", "")
<1>1. f.regs \in Nat
  BY DEF Sound, Typed
<1>2. "store" \in Opcodes /\ "" \in Names /\ "" \in Immediates
  BY OperatorsKnown DEF Names, Immediates
<1>6. NoReg \in Nat
  BY DEF NoReg
<1>3. args \in Seq(Nat) /\ \A a \in DOMAIN args : args[a] \in 1 .. f.regs
  BY <1>1, TwoArgs
<1> HIDE DEF args
<1>4. i \in InstrType /\ i.args = args
  BY <1>2, <1>6, <1>3 DEF Instr, InstrType
<1> HIDE DEF i
<1>5. Sound(Emit(f, i)) /\ Emit(f, i).regs = f.regs /\ Emit(f, i).name = f.name
  BY <1>3, <1>4, EmitSound
<1> QED BY <1>5 DEF i, args

LEMMA AlsoSound ==
  ASSUME Sound(fn), NEW tree
  PROVE  Sound(Also(tree)) /\ Also(tree).regs = fn.regs /\ Also(tree).name = fn.name
<1>1. DOMAIN fn = {"name", "params", "returns", "code", "regs", "body"}
  BY DEF Sound, Typed, NoFunction
<1>2. /\ DOMAIN Also(tree) = DOMAIN fn /\ Also(tree).regs = fn.regs
      /\ Also(tree).name = fn.name /\ Also(tree).code = fn.code
  BY <1>1 DEF Also
<1> QED BY <1>2 DEF Sound, Typed, Computed

-----------------------------------------------------------------------------
(***************************************************************************)
(* Functions and statements.                                               *)
(***************************************************************************)
\* The stack of a statement that has just been entered.
LEMMA OneVisitor ==
  ASSUME NEW f, NEW n, Visitor(f, n), f.node \in Statements, f.kids = <<>>, NEW r
  PROVE  Stack(<<f>>, n) /\ Recent(<<f>>, r, n)
<1> DEFINE t == <<f>>
<1>1. t \in Seq({f}) /\ Len(t) = 1 /\ DOMAIN t = 1 .. 1 /\ t[1] = f
  OBVIOUS
<1> HIDE DEF t
<1>2. IsSeq(t)
  BY <1>1, RangeSeq
<1>3. Stack(t, n)
  BY <1>1, <1>2 DEF Stack
<1>4. Recent(t, r, n)
  BY <1>1 DEF Recent
<1> QED BY <1>3, <1>4 DEF t

LEMMA NoVisitor ==
  ASSUME NEW n, NEW r
  PROVE  Stack(<<>>, n) /\ Recent(<<>>, r, n)
BY NoneSeq DEF Stack, Recent

LEMMA StatementStep ==
  ASSUME IInv, NEW node, NEW f, Statement(node, f),
         NEW g, Sound(g), g.name = fn.name, fn' = g,
         Visitor(f, g.regs), f.node \in Statements, f.kids = <<>>,
         \A x \in DOMAIN slots' : slots'[x] \in 1 .. g.regs
  PROVE  IInv'
<1>1. left \in Nat
  BY Facts
<1>6. left' \in Nat
  <2>1. left' = left \/ (left >= 1 /\ left' = left - 1)
    BY DEF Statement
  <2> QED BY <1>1, <2>1
<1>2. /\ visits' = <<f>> /\ fn.name # ""
      /\ pool' = pool /\ decls' = decls /\ done' = done /\ last' = last
      /\ scope' = scope /\ stage' = stage
  BY DEF Statement
<1>3. Fixed'
  BY <1>2, <1>6 DEF IInv, Fixed, Finished
<1>4. Stack(visits', g.regs) /\ Recent(visits', last', g.regs)
  BY <1>2, OneVisitor
<1>5. Current'
  BY <1>2, <1>4 DEF IInv, Current
<1> QED BY <1>3, <1>5 DEF IInv

LEMMA EndStatementStep ==
  ASSUME IInv, NEW node, EndStatement(node),
         NEW g, Sound(g), g.name = fn.name, g.regs = fn.regs, fn' = g, slots' = slots,
         \A x \in DOMAIN scope' : scope'[x] \in Kinds
  PROVE  IInv'
<1>1. /\ visits' = <<>> /\ pool' = pool /\ decls' = decls /\ done' = done
      /\ last' = last /\ left' = left /\ stage' = stage
  BY DEF EndStatement
<1>2. Fixed'
  BY <1>1 DEF IInv, Fixed, Finished
<1>3. Stack(visits', g.regs) /\ Recent(visits', last', g.regs)
  BY <1>1, NoVisitor
<1>4. Current'
  BY <1>1, <1>3 DEF IInv, Current
<1> QED BY <1>2, <1>4 DEF IInv

\* A statement's frame and its operand.
LEMMA Ended ==
  ASSUME IInv, NEW node \in Statements, EndStatement(node)
  PROVE  /\ Complete /\ Top.node = node /\ fn.name # ""
         /\ node # "expr" => last \in 1 .. fn.regs
         /\ node = "let" => Top.regs[1] \in 1 .. fn.regs /\ Top.kids[1].kind \in Kinds
<1>1. Complete /\ Top.node = node
  BY DEF EndStatement
<1>2. /\ visits # <<>> /\ Top = visits[Len(visits)] /\ Visitor(Top, fn.regs)
      /\ fn.name # "" /\ Top.need \in Nat /\ Len(Top.kids) = Top.need
      /\ Arity(Top) /\ Top.regs \in Seq(Nat)
      /\ Top.node = "let" => Len(Top.regs) = Top.need + 1
      /\ Top.node \notin Droppers => \A i \in DOMAIN Top.regs : Top.regs[i] \in 1 .. fn.regs
  BY <1>1, Completed
<1>3. Top.need >= 1
  BY <1>1, <1>2 DEF Arity
<1>4. IsSeq(Top.kids) /\ \A i \in DOMAIN Top.kids : Top.kids[i].kind \in Kinds
  BY <1>2 DEF Visitor
<1>5. Top.kids # <<>> /\ 1 \in DOMAIN Top.kids
  <2>1. Len(Top.kids) >= 1
    BY <1>2, <1>3
  <2>2. Top.kids # <<>>
    BY <2>1, NoneSeq
  <2> QED BY <1>4, <2>1, <2>2, FrontSeq
<1>6. node # "expr" => last \in 1 .. fn.regs
  BY <1>1, <1>2, <1>5, Facts DEF Recent, Droppers, Statements
<1>7. node = "let" => Top.regs[1] \in 1 .. fn.regs
  <2>1. ASSUME node = "let" PROVE Len(Top.regs) = Top.need + 1 /\ Top.node \notin Droppers
    BY <1>1, <1>2, <2>1 DEF Droppers
  <2>3. Top.regs \in Seq(Nat) /\ Top.need \in Nat
    BY <1>2
  <2>2. ASSUME Len(Top.regs) = Top.need + 1 PROVE 1 \in DOMAIN Top.regs
    BY <1>3, <2>2, <2>3
  <2> QED BY <1>2, <2>1, <2>2
<1> QED BY <1>1, <1>2, <1>4, <1>5, <1>6, <1>7

LEMMA VisitVarDeclStep ==
  ASSUME IInv, NEW x \in pool.names, VisitVarDecl(x)
  PROVE  IInv'
<1> DEFINE g == Value(fn, "alloca", <<>>, x, "")
           e == Frame("let", "", x, "", 1)
           f == [e EXCEPT !.regs = <<fn.regs + 1>>]
<1>1. /\ Sound(g) /\ g.regs = fn.regs + 1 /\ g.name = fn.name
      /\ fn.regs \in Nat /\ fn.regs + 1 \in 1 .. g.regs /\ x \in Names
  <2>1. Sound(fn) /\ x \in Names /\ "alloca" \in Opcodes /\ "" \in Immediates
    BY Facts, NamesKnown, OperatorsKnown
  <2> QED BY <2>1, PlainSound
<1>2. Statement("let", f) /\ fn' = g
  BY DEF VisitVarDecl
<1>3. \A y \in DOMAIN slots' : slots'[y] \in 1 .. g.regs
  <2>1. /\ DOMAIN slots' = DOMAIN slots \cup {x}
        /\ \A y \in DOMAIN slots' : slots'[y] = IF y = x THEN fn.regs + 1 ELSE slots[y]
    BY DEF VisitVarDecl
  <2>2. fn.name # ""
    BY <1>2 DEF Statement
  <2>3. \A y \in DOMAIN slots : slots[y] \in 1 .. fn.regs
    BY <2>2 DEF IInv, Current
  <2> HIDE DEF g
  <2>4. \A r \in 1 .. fn.regs : r \in 1 .. g.regs
    BY <1>1
  <2> QED BY <1>1, <2>1, <2>3, <2>4
<1> HIDE DEF g
<1>4. /\ f.node = "let" /\ f.name = x /\ f.need = 1 /\ f.kids = <<>>
      /\ f.regs = <<fn.regs + 1>>
  BY DEF Frame
<1>5. DOMAIN f = DOMAIN Frame("", "", "", "", 0)
  BY DEF Frame
<1> HIDE DEF f, e
<1>6. f.regs \in Seq(Nat) /\ Len(f.regs) = 1 /\ \A i \in DOMAIN f.regs : f.regs[i] \in 1 .. g.regs
  BY <1>1, <1>4
<1>7. Aside(f, g.regs)
  BY <1>4, <1>6, NoneSeq DEF Aside
<1>8. Arity(f)
  BY <1>4 DEF Arity, Statements
<1>9. Len(f.kids) <= f.need /\ f.need \in Nat
  BY <1>4, NoneSeq
<1>12. f.name \in Names /\ IsSeq(f.kids) /\ DOMAIN f.kids = {}
  BY <1>1, <1>4, NoneSeq
<1>10. Visitor(f, g.regs)
  BY <1>5, <1>6, <1>7, <1>8, <1>9, <1>12 DEF Visitor
<1>11. f.node \in Statements
  BY <1>4 DEF Statements
<1> QED BY <1>1, <1>2, <1>3, <1>4, <1>10, <1>11, StatementStep

LEMMA EndVarDeclStep ==
  ASSUME IInv, EndVarDecl
  PROVE  IInv'
<1> DEFINE g == Also(Tree(Top))
           h == Emit(g, Instr("store", NoReg, <<last, Top.regs[1]>>, "", ""))
<1>1. /\ EndStatement("let") /\ fn' = h /\ slots' = slots
      /\ DOMAIN scope' = DOMAIN scope \cup {Top.name}
      /\ \A y \in DOMAIN scope' : scope'[y] = IF y = Top.name THEN Top.kids[1].kind ELSE scope[y]
  BY DEF EndVarDecl
<1>2. "let" \in Statements
  BY DEF Statements
<1>3. last \in 1 .. fn.regs /\ Top.regs[1] \in 1 .. fn.regs /\ Top.kids[1].kind \in Kinds
  BY <1>1, <1>2, Ended
<1>4. Sound(g) /\ g.regs = fn.regs /\ g.name = fn.name
  BY Facts, AlsoSound
<1> HIDE DEF g
<1>5. Sound(h) /\ h.regs = g.regs /\ h.name = g.name
  <2>1. last \in 1 .. g.regs /\ Top.regs[1] \in 1 .. g.regs
    BY <1>3, <1>4
  <2> QED BY <1>4, <2>1, StoreSound
<1> HIDE DEF h
<1>6. \A y \in DOMAIN scope' : scope'[y] \in Kinds
  BY <1>1, <1>3 DEF IInv, Fixed
<1> QED BY <1>1, <1>4, <1>5, <1>6, EndStatementStep

LEMMA ExprStmtSteps ==
  ASSUME IInv, VisitExprStmt \/ EndExprStmt
  PROVE  IInv'
<1>1. CASE VisitExprStmt
  <2> DEFINE f == Frame("expr", "", "", "", 1)
  <2>1. Statement("expr", f) /\ fn' = fn /\ slots' = slots
    BY <1>1 DEF VisitExprStmt
  <2>2. Arity(f)
    BY DEF Arity, Frame, Statements
  <2>3. "" \in Names
    BY DEF Names
  <2>7. 1 \in Nat
    OBVIOUS
  <2>8. "expr" # "let"
    OBVIOUS
  <2>4. Visitor(f, fn.regs)
    BY <2>2, <2>3, <2>7, <2>8, FreshVisitor
  <2>5. f.node \in Statements /\ f.kids = <<>>
    BY DEF Statements, Frame
  <2> HIDE DEF f
  <2>6. \A x \in DOMAIN slots' : slots'[x] \in 1 .. fn.regs
    BY <2>1 DEF IInv, Current, Statement
  <2> QED BY <2>1, <2>4, <2>5, <2>6, Facts, StatementStep
<1>2. CASE EndExprStmt
  <2> DEFINE g == Also(Tree(Top))
  <2>1. EndStatement("expr") /\ fn' = g /\ slots' = slots /\ scope' = scope
    BY <1>2 DEF EndExprStmt
  <2>2. Sound(g) /\ g.regs = fn.regs /\ g.name = fn.name
    BY Facts, AlsoSound
  <2> HIDE DEF g
  <2>3. \A y \in DOMAIN scope' : scope'[y] \in Kinds
    BY <2>1 DEF IInv, Fixed
  <2> QED BY <2>1, <2>2, <2>3, EndStatementStep
<1> QED BY <1>1, <1>2

LEMMA ReturnSteps ==
  ASSUME IInv, VisitReturn \/ EndReturn
  PROVE  IInv'
<1>1. CASE VisitReturn
  <2> DEFINE f == Frame("return", "", "", "", 1)
  <2>1. Statement("return", f) /\ fn' = fn /\ slots' = slots
    BY <1>1 DEF VisitReturn
  <2>2. Arity(f)
    BY DEF Arity, Frame, Statements
  <2>3. "" \in Names
    BY DEF Names
  <2>7. 1 \in Nat
    OBVIOUS
  <2>8. "return" # "let"
    OBVIOUS
  <2>4. Visitor(f, fn.regs)
    BY <2>2, <2>3, <2>7, <2>8, FreshVisitor
  <2>5. f.node \in Statements /\ f.kids = <<>>
    BY DEF Statements, Frame
  <2> HIDE DEF f
  <2>6. \A x \in DOMAIN slots' : slots'[x] \in 1 .. fn.regs
    BY <2>1 DEF IInv, Current, Statement
  <2> QED BY <2>1, <2>4, <2>5, <2>6, Facts, StatementStep
<1>2. CASE EndReturn
  <2> DEFINE value == IF last = NoReg THEN <<>> ELSE <<last>>
             g == Also(Tree(Top))
             h == Emit(g, Instr("ret", NoReg, value, "", ""))
             k == Emit(h, Instr("block", NoReg, <<>>, "after_ret", ""))
  <2>1. EndStatement("return") /\ fn' = k /\ slots' = slots /\ scope' = scope
    BY <1>2 DEF EndReturn
  <2>2. Sound(g) /\ g.regs = fn.regs /\ g.name = fn.name /\ fn.regs \in Nat
    BY Facts, AlsoSound
  <2> HIDE DEF g
  <2>3. value \in Seq(Nat) /\ \A a \in DOMAIN value : value[a] \in 1 .. g.regs
    <3>1. last \in 1 .. fn.regs
      BY <2>1, Ended DEF Statements
    <3> QED BY <2>2, <3>1, OneArg DEF NoReg
  <2> HIDE DEF value
  <2>4. Sound(h) /\ h.regs = g.regs /\ h.name = g.name
    <3> DEFINE i == Instr("ret", NoReg, value, "", "")
    <3>1. "ret" \in Opcodes /\ "" \in Names /\ "" \in Immediates
      BY OperatorsKnown DEF Names, Immediates
    <3>2. NoReg \in Nat
      BY DEF NoReg
    <3>3. i \in InstrType /\ i.args = value
      BY <2>3, <3>1, <3>2 DEF Instr, InstrType
    <3> HIDE DEF i
    <3>4. Sound(Emit(g, i)) /\ Emit(g, i).regs = g.regs /\ Emit(g, i).name = g.name
      BY <2>2, <2>3, <3>3, EmitSound
    <3> QED BY <3>4 DEF i
  <2> HIDE DEF h
  <2>5. Sound(k) /\ k.regs = h.regs /\ k.name = h.name
    <3>1. "block" \in Opcodes /\ "after_ret" \in Names /\ "" \in Immediates
      BY OperatorsKnown DEF Names, Immediates
    <3> QED BY <2>4, <3>1, PlainSound
  <2> HIDE DEF k
  <2>6. \A y \in DOMAIN scope' : scope'[y] \in Kinds
    BY <2>1 DEF IInv, Fixed
  <2> QED BY <2>1, <2>2, <2>4, <2>5, <2>6, EndStatementStep
<1> QED BY <1>1, <1>2

-----------------------------------------------------------------------------
(***************************************************************************)
(* Leaves.                                                                 *)
(***************************************************************************)
LEMMA LeafValue ==
  ASSUME IInv, NEW node, NEW kind \in Kinds, Visiting(node, kind, 0),
         NEW f, Sound(f), f.regs = fn.regs + 1, f.name = fn.name,
         NEW tree, tree.kind \in Kinds, Leaf(f, fn.regs + 1, tree)
  PROVE  IInv'
<1>1. fn.regs \in Nat /\ 0 \in Nat
  BY Facts
<1>2. fn.regs <= f.regs /\ fn.regs + 1 \in 1 .. f.regs
  BY <1>1
<1> QED BY <1>1, <1>2, LeafStep

LEMMA VisitLiteralStep ==
  ASSUME IInv, NEW l \in pool.literals, VisitLiteral(l)
  PROVE  IInv'
<1> DEFINE f == Value(fn, "copy", <<>>, l.text, l.imm)
           tree == Node("literal", "", l.text, <<>>, l.kind)
<1>1. /\ Sound(fn) /\ "copy" \in Opcodes /\ l.text \in Names /\ l.imm \in Immediates
      /\ l.kind \in Kinds
  BY Facts, NamesKnown, OperatorsKnown
<1>2. Sound(f) /\ f.regs = fn.regs + 1 /\ f.name = fn.name
  BY <1>1, PlainSound
<1>3. Visiting("literal", l.kind, 0) /\ Leaf(f, fn.regs + 1, tree)
  BY DEF VisitLiteral
<1>4. tree.kind \in Kinds
  BY <1>1 DEF Node
<1> HIDE DEF f, tree
<1> QED BY <1>1, <1>2, <1>3, <1>4, LeafValue

LEMMA VisitVariableStep ==
  ASSUME IInv, NEW x \in pool.names, VisitVariable(x)
  PROVE  IInv'
<1> DEFINE f == LoadOf(x)
           tree == Node("ident", "", x, <<>>, scope[x])
<1>1. Visiting("ident", scope[x], 0) /\ Leaf(f, fn.regs + 1, tree) /\ x \in DOMAIN scope
  BY DEF VisitVariable
<1>2. scope[x] \in Kinds /\ x \in Names
  BY <1>1, Facts, NamesKnown DEF IInv, Fixed
<1>3. fn.name # ""
  BY <1>1, Placed
<1>4. Sound(f) /\ f.regs = fn.regs + 1 /\ f.name = fn.name
  BY <1>2, <1>3, LoadSound
<1>5. tree.kind \in Kinds
  BY <1>2 DEF Node
<1> HIDE DEF f, tree
<1> QED BY <1>1, <1>2, <1>4, <1>5, LeafValue

LEMMA VisitBareStep ==
  ASSUME IInv, NEW x \in Bare, VisitBare(x)
  PROVE  IInv'
<1> DEFINE f == LoadOf(x)
           tree == Node("call", "", x, <<>>, "none")
<1>1. x \in Names
  BY Facts, NamesKnown DEF Bare, Builtins
<1>3. Visiting("bare", "none", 0) /\ Leaf(f, fn.regs + 1, tree)
  BY DEF VisitBare
<1>5. fn.name # ""
  BY <1>3, Placed
<1>2. Sound(f) /\ f.regs = fn.regs + 1 /\ f.name = fn.name
  BY <1>1, <1>5, LoadSound
<1>4. "none" \in Kinds /\ tree.kind \in Kinds
  BY DEF Node, Kinds
<1> HIDE DEF f, tree
<1> QED BY <1>2, <1>3, <1>4, LeafValue

LEMMA VisitSymbolStep ==
  ASSUME IInv, NEW x \in Declared \cup pool.imports, VisitSymbol(x)
  PROVE  IInv'
<1> DEFINE f == LoadOf(x)
           tree == Node("symbol", "", x, <<>>, "symbol")
<1>1. Visiting("symbol", "symbol", 0) /\ Leaf(f, fn.regs + 1, tree)
  BY DEF VisitSymbol
<1>2. x \in Names
  BY Facts, NamesKnown
<1>3. fn.name # ""
  BY <1>1, Placed
<1>4. Sound(f) /\ f.regs = fn.regs + 1 /\ f.name = fn.name
  BY <1>2, <1>3, LoadSound
<1>5. "symbol" \in Kinds /\ tree.kind \in Kinds
  BY DEF Node, Kinds
<1> HIDE DEF f, tree
<1> QED BY <1>1, <1>4, <1>5, LeafValue

(***************************************************************************)
(* Visitors with operands.                                                 *)
(***************************************************************************)
LEMMA SuspendFrame ==
  ASSUME IInv, NEW v, NEW kind \in Kinds, NEW m \in Nat, Visiting(v, kind, m),
         NEW node, NEW op, NEW name \in Names, NEW need \in Nat,
         node \notin Statements, Arity(Frame(node, op, name, kind, need)),
         node = "array" /\ need = 0 => Top.node \in Droppers,
         Suspend(Frame(node, op, name, kind, need))
  PROVE  IInv'
<1> DEFINE f == Frame(node, op, name, kind, need)
<1>1. node # "let"
  BY DEF Statements
<1>2. Visitor(f, fn.regs)
  BY <1>1, FreshVisitor
<1>3. f.node = node /\ f.kind = kind /\ f.need = need /\ f.kids = <<>>
  BY DEF Frame
<1>4. Suspend(f)
  OBVIOUS
<1> HIDE DEF f
<1>5. Operand(Top, f)
  BY <1>3, Placed DEF Operand
<1> QED BY <1>2, <1>3, <1>4, <1>5, SuspendStep

LEMMA Constants ==
  /\ 0 \in Nat /\ 1 \in Nat /\ 2 \in Nat
OBVIOUS

LEMMA KindsKnown ==
  /\ {"int", "opaque", "array", "address", "none"} \subseteq Kinds
  /\ {"binary", "unary", "assign", "member", "index", "cast", "array", "call"}
       \cap Statements = {}
BY DEF Kinds, Statements

LEMMA VisitBinaryStep ==
  ASSUME IInv, NEW o \in Binaries, VisitBinary(o)
  PROVE  IInv'
<1>1. Visiting("binary", "int", 2) /\ Suspend(Frame("binary", o, "", "int", 2))
  BY DEF VisitBinary
<1>2. Arity(Frame("binary", o, "", "int", 2))
  BY DEF Arity, Frame, Statements
<1>3. "" \in Names
  BY DEF Names
<1>4. "binary" # "array"
  OBVIOUS
<1> QED BY <1>1, <1>2, <1>3, <1>4, Constants, KindsKnown, SuspendFrame

LEMMA VisitUnaryStep ==
  ASSUME IInv, NEW o \in {"-", "!", "~", "*", "&"}, VisitUnary(o)
  PROVE  IInv'
<1> DEFINE kind == IF o = "&" THEN "address" ELSE "int"
<1>1. Visiting("unary", kind, 1) /\ Suspend(Frame("unary", o, "", kind, 1))
  BY DEF VisitUnary
<1>2. kind \in Kinds
  BY DEF Kinds
<1> HIDE DEF kind
<1>3. Arity(Frame("unary", o, "", kind, 1))
  BY DEF Arity, Frame, Statements
<1>4. "" \in Names
  BY DEF Names
<1>5. "unary" # "array"
  OBVIOUS
<1> QED BY <1>1, <1>2, <1>3, <1>4, <1>5, Constants, KindsKnown, SuspendFrame

\* A member access and a cast wait for one operand each.
LEMMA OneOperand ==
  ASSUME NEW m, NEW o
  PROVE  /\ Arity(Frame("member", "", m, "opaque", 1))
         /\ Arity(Frame("cast", o, "", "int", 1))
<1>1. Arity(Frame("member", "", m, "opaque", 1))
  BY DEF Arity, Frame, Statements
<1>2. Arity(Frame("cast", o, "", "int", 1))
  BY DEF Arity, Frame, Statements
<1> QED BY <1>1, <1>2

LEMMA VisitPlaceholderSteps ==
  ASSUME IInv, (\E m \in pool.members : VisitMember(m)) \/ VisitIndex
         \/ \E o \in {"", "narrow"} : VisitCast(o)
  PROVE  IInv'
<1>1. ASSUME NEW m \in pool.members, VisitMember(m) PROVE IInv'
  <2>1. Visiting("member", "opaque", 1) /\ Suspend(Frame("member", "", m, "opaque", 1))
    BY <1>1 DEF VisitMember
  <2>2. Arity(Frame("member", "", m, "opaque", 1))
    BY OneOperand
  <2>3. m \in Names
    BY Facts, NamesKnown
  <2>4. "member" # "array"
    OBVIOUS
  <2> QED BY <2>1, <2>2, <2>3, <2>4, Constants, KindsKnown, SuspendFrame
<1>2. CASE VisitIndex
  <2>1. Visiting("index", "opaque", 2) /\ Suspend(Frame("index", "", "", "opaque", 2))
    BY <1>2 DEF VisitIndex
  <2>2. Arity(Frame("index", "", "", "opaque", 2))
    BY DEF Arity, Frame, Statements
  <2>3. "" \in Names
    BY DEF Names
  <2>4. "index" # "array"
    OBVIOUS
  <2> QED BY <2>1, <2>2, <2>3, <2>4, Constants, KindsKnown, SuspendFrame
<1>3. ASSUME NEW o \in {"", "narrow"}, VisitCast(o) PROVE IInv'
  <2>1. Visiting("cast", "int", 1) /\ Suspend(Frame("cast", o, "", "int", 1))
    BY <1>3 DEF VisitCast
  <2>2. Arity(Frame("cast", o, "", "int", 1))
    BY OneOperand
  <2>3. "" \in Names
    BY DEF Names
  <2>4. "cast" # "array"
    OBVIOUS
  <2> QED BY <2>1, <2>2, <2>3, <2>4, Constants, KindsKnown, SuspendFrame
<1> QED BY <1>1, <1>2, <1>3

\* The value of an empty array literal is dropped.
LEMMA VisitArrayStep ==
  ASSUME IInv, EmptyArraysDropped, NEW n \in 0 .. Len(Element), VisitArray(n)
  PROVE  IInv'
<1>1. /\ Visiting("array", "array", n) /\ Suspend(Frame("array", "", "", "array", n))
      /\ n \in pool.lengths
      /\ n = 0 /\ visits # <<>> => Top.node # "unary" \/ "empty" \in Lang
  BY DEF VisitArray
<1>2. ASSUME n = 0 PROVE Top.node \in Droppers
  <2>1. "array" \notin Lang /\ "empty" \notin Lang
    BY <1>1, <1>2, Facts DEF EmptyArraysDropped
  <2>2. visits # <<>> /\ Fits("array")
    BY <1>1, Placed DEF Visiting
  <2> QED BY <1>1, <1>2, <2>1, <2>2 DEF Fits, Droppers
<1>3. Len(Element) = 3
  BY DEF Element
<1>4. n \in Nat
  BY <1>3
<1>5. Arity(Frame("array", "", "", "array", n))
  <2> DEFINE f == Frame("array", "", "", "array", n)
  <2>1. f.node = "array" /\ f.need = n
    BY DEF Frame
  <2>2. n <= Len(Element)
    BY <1>3
  <2>3. f.need <= Len(Element)
    BY <2>1, <2>2
  <2>4. /\ f.node \notin Statements \cup {"unary", "member", "cast", "assign"}
        /\ f.node \notin {"binary", "index"} /\ f.node # "assign" /\ f.node # "call"
        /\ f.node # "binary" /\ f.node # "unary"
    BY <2>1 DEF Statements
  <2> HIDE DEF f
  <2>5. Arity(f)
    BY <2>3, <2>4 DEF Arity
  <2> QED BY <2>5 DEF f
<1>6. "" \in Names
  BY DEF Names
<1> QED BY <1>1, <1>2, <1>4, <1>5, <1>6, KindsKnown, SuspendFrame

LEMMA VisitCallStep ==
  ASSUME IInv, NEW x \in Declared \cup Builtins \cup {Indirect}, NEW n \in 0 .. 2,
         VisitCall(x, n)
  PROVE  IInv'
<1> DEFINE kind == ResultKind(x)
<1>1. Visiting("call", kind, n) /\ Suspend(Frame("call", "", x, kind, n)) /\ Callable(x, n)
  BY DEF VisitCall
<1>2. kind \in Kinds
  BY DEF ResultKind, Kinds
<1>3. x \in Names
  BY Facts, NamesKnown DEF Indirect
<1>4. ASSUME x = Indirect PROVE n >= 1
  <2>1. x \notin Declared
    BY <1>4, Facts, PoolsAssumption DEF Declared, Indirect
  <2>2. x \notin {"print", "println"} /\ x \notin {"exit", "escape", "wait"} /\ x \notin Builtins
    BY <1>4 DEF Builtins, Indirect
  <2> QED BY <1>1, <2>1, <2>2 DEF Callable
<1> HIDE DEF kind
<1>5. Arity(Frame("call", "", x, kind, n))
  <2> DEFINE f == Frame("call", "", x, kind, n)
  <2>1. f.node = "call" /\ f.need = n /\ f.name = x
    BY DEF Frame
  <2> HIDE DEF f
  <2>2. Arity(f)
    BY <1>4, <2>1 DEF Arity, Statements
  <2> QED BY <2>2 DEF f
<1>6. n \in Nat
  OBVIOUS
<1>7. "call" # "array"
  OBVIOUS
<1> QED BY <1>1, <1>2, <1>3, <1>5, <1>6, <1>7, KindsKnown, SuspendFrame

\* A compound assignment has its target loaded, as its first operand.
LEMMA VisitAssignStep ==
  ASSUME IInv, NEW o \in Compounds \cup {"="}, NEW x \in pool.names \cup {NoName},
         VisitAssign(o, x)
  PROVE  IInv'
<1> DEFINE need == IF o = "=" THEN 1 ELSE 2
           f == Frame("assign", o, x, "int", need)
<1>1. x \in Names
  <2>1. NoName \in Names
    BY DEF NoName, Names
  <2> QED BY <2>1, Facts, NamesKnown
<1>2. need \in Nat /\ need >= 1 /\ (o # "=" => need = 2)
  OBVIOUS
<1>3. f.node = "assign" /\ f.op = o /\ f.need = need /\ f.kids = <<>> /\ f.kind = "int"
  BY DEF Frame
<1>4. Arity(f)
  <2> HIDE DEF f, need
  <2> QED BY <1>2, <1>3 DEF Arity, Statements
<1>5. "assign" \notin Statements /\ "int" \in Kinds /\ "assign" # "array"
  BY KindsKnown
<1>6. CASE o = "=" \/ x = NoName
  <2>1. Visiting("assign", "int", f.need) /\ Suspend(f)
    BY <1>6 DEF VisitAssign
  <2>2. Visiting("assign", "int", need) /\ Suspend(Frame("assign", o, x, "int", need))
    BY <1>3, <2>1
  <2>3. Arity(Frame("assign", o, x, "int", need))
    BY <1>4
  <2> HIDE DEF f, need
  <2> QED BY <1>1, <1>2, <1>5, <2>2, <2>3, SuspendFrame
<1>7. CASE ~(o = "=" \/ x = NoName)
  <2> DEFINE r == fn.regs + 1
             g == LoadOf(x)
             tree == Node("ident", "", x, <<>>, scope[x])
             vs == Append(visits, f)
  <2>1. /\ Visiting("assign", "int", 1) /\ fn' = g /\ last' = r
        /\ visits' = Taken(vs, tree, r) /\ x \in DOMAIN scope
    BY <1>7 DEF VisitAssign
  <2>2. fn.name # "" /\ visits # <<>> /\ Top = visits[Len(visits)] /\ Awaits(Top)
    BY <1>5, <2>1, Placed
  <2>3. scope[x] \in Kinds
    BY <2>1 DEF IInv, Fixed
  <2>4. tree.kind \in Kinds
    BY <2>3 DEF Node
  <2>5. Sound(g) /\ g.regs = r /\ g.name = fn.name
    BY <1>1, <2>2, LoadSound
  <2>6. fn.regs \in Nat /\ r \in Nat /\ r \in 1 .. r /\ fn.regs <= r
    BY Facts
  <2>7. Visitor(f, r)
    <3>1. "assign" # "let"
      OBVIOUS
    <3> HIDE DEF r, need
    <3> QED BY <1>1, <1>2, <1>4, <3>1, FreshVisitor
  <2> HIDE DEF r, g, tree
  <2>8. Stack(visits, r)
    BY <2>6, Facts, WidenStack
  <2>9. f.node \notin Statements /\ Operand(visits[Len(visits)], f)
    <3> HIDE DEF f, need
    <3> QED BY <1>3, <1>5, <2>2 DEF Operand
  <2>10. Awaits(f)
    <3>1. Len(f.kids) = 0
      BY <1>3, NoneSeq
    <3>2. f.node # "array"
      BY <1>3
    <3> HIDE DEF f, need
    <3> QED BY <1>2, <1>3, <3>1, <3>2 DEF Awaits
  <2>11. f.node \notin Droppers
    BY <1>3 DEF Droppers
  <2> HIDE DEF f, need
  <2>12. Stack(vs, r) /\ vs # <<>> /\ vs[Len(vs)] = f
    BY <2>2, <2>7, <2>8, <2>9, PushStack
  <2> HIDE DEF vs
  <2>13. Stack(visits', r) /\ visits' # <<>> /\ Recent(visits', r, r)
    BY <2>1, <2>4, <2>6, <2>10, <2>11, <2>12, TakenStack
  <2>14. Fixed' /\ slots' = slots /\ decls' = decls
    BY <1>5, <2>1, VisitingFixed, Constants
  <2>15. decls # <<>> /\ \A y \in DOMAIN slots : slots[y] \in 1 .. fn.regs
    BY <2>2 DEF IInv, Current
  <2>16. \A q \in 1 .. fn.regs : q \in 1 .. r
    BY <2>6
  <2>17. Current'
    BY <2>1, <2>2, <2>5, <2>6, <2>13, <2>14, <2>15, <2>16 DEF Current
  <2> QED BY <2>14, <2>17 DEF IInv
<1> QED BY <1>6, <1>7

(***************************************************************************)
(* Visitors that go on after their last operand.                           *)
(***************************************************************************)
LEMMA LowerBinaryStep ==
  ASSUME IInv, LowerBinary
  PROVE  IInv'
<1> DEFINE op == binaryOpToOpcode(Top.op)
           args == <<Top.regs[1], Top.regs[2]>>
<1>1. Lowering("binary") /\ ResultOf(op, args, "") /\ Complete /\ Top.node = "binary"
  BY DEF LowerBinary, Lowering
<1>2. /\ Arity(Top) /\ Top.regs \in Seq(Nat) /\ Len(Top.regs) = Top.need
      /\ \A i \in DOMAIN Top.regs : Top.regs[i] \in 1 .. fn.regs
  BY <1>1, Completed DEF Droppers
<1>3. Top.need = 2 /\ op \in Opcodes
  BY <1>1, <1>2, OperatorsKnown DEF Arity
<1>4. Top.regs[1] \in 1 .. fn.regs /\ Top.regs[2] \in 1 .. fn.regs
  BY <1>2, <1>3
<1>5. fn.regs \in Nat
  BY Facts
<1>6. args \in Seq(Nat) /\ \A a \in DOMAIN args : args[a] \in 1 .. fn.regs
  BY <1>4, <1>5, TwoArgs
<1>7. "binary" \notin Statements /\ "" \in Names
  BY KindsKnown DEF Names
<1> HIDE DEF op, args
<1> QED BY <1>1, <1>3, <1>6, <1>7, ResultOfStep

\* The value put aside by a visitor of one operand, or more.
LEMMA FirstOperand ==
  ASSUME IInv, Complete, Top.node \in {"unary", "assign", "cast"}
  PROVE  /\ Top.need >= 1 /\ Top.need \in Nat
         /\ Top.regs \in Seq(Nat) /\ Len(Top.regs) = Top.need
         /\ Top.regs[1] \in 1 .. fn.regs
         /\ \A i \in DOMAIN Top.regs : Top.regs[i] \in 1 .. fn.regs
         /\ Arity(Top)
<1>1. Top.node \notin Droppers /\ Top.node # "let"
  BY DEF Droppers
<1>2. /\ Top.regs \in Seq(Nat) /\ Top.need \in Nat /\ Len(Top.regs) = Top.need
      /\ \A i \in DOMAIN Top.regs : Top.regs[i] \in 1 .. fn.regs
      /\ Arity(Top)
  BY <1>1, Completed
<1>3. Top.need >= 1
  BY <1>2 DEF Arity
<1>4. 1 \in DOMAIN Top.regs
  BY <1>2, <1>3
<1> QED BY <1>2, <1>3, <1>4

LEMMA LowerUnaryStep ==
  ASSUME IInv, LowerUnary
  PROVE  IInv'
<1> DEFINE v == Top.regs[1]
           args == <<v>>
<1>1. Lowering("unary") /\ Complete /\ Top.node = "unary"
  BY DEF LowerUnary, Lowering
<1>2. v \in 1 .. fn.regs /\ Arity(Top)
  BY <1>1, FirstOperand
<1>3. Top.op \in {"-", "!", "~", "*", "&"}
  BY <1>1, <1>2 DEF Arity
<1>4. fn.regs \in Nat /\ Sound(fn)
  BY Facts
<1>5. args \in Seq(Nat) /\ \A a \in DOMAIN args : args[a] \in 1 .. fn.regs
  BY <1>2, <1>4, OneArg
<1>6. "unary" \notin Statements /\ "" \in Names
  BY KindsKnown DEF Names
<1>7. CASE Top.op = "*"
  <2>1. ResultOf("load", args, "") /\ "load" \in Opcodes
    BY <1>7, OperatorsKnown DEF LowerUnary
  <2> HIDE DEF args
  <2> QED BY <1>1, <1>5, <1>6, <2>1, ResultOfStep
<1>8. CASE Top.op = "&"
  <2>1. Result(fn, v)
    BY <1>8 DEF LowerUnary
  <2>2. v \in Nat /\ fn.regs <= fn.regs
    BY <1>2, <1>4
  <2> HIDE DEF v
  <2> QED BY <1>1, <1>2, <1>4, <1>6, <2>1, <2>2, ResultStep
<1>9. CASE Top.op \in {"-", "!", "~"}
  <2> DEFINE op == unaryOpToOpcode(Top.op)
  <2>1. ResultOf(op, args, "")
    BY <1>9 DEF LowerUnary
  <2>2. op \in Opcodes
    BY <1>9, UnaryKnown
  <2> HIDE DEF args, op
  <2> QED BY <1>1, <1>5, <1>6, <2>1, <2>2, ResultOfStep
<1> QED BY <1>3, <1>7, <1>8, <1>9

LEMMA LowerAssignStep ==
  ASSUME IInv, LowerAssign
  PROVE  IInv'
<1> DEFINE plain == Top.op = "="
           op == binaryOpToOpcode(Top.op)
           f == IF plain THEN fn ELSE Value(fn, op, Top.regs, "", "")
           v == IF plain THEN Top.regs[1] ELSE fn.regs + 1
           g == IF Top.name \in DOMAIN slots
                THEN Emit(f, Instr("store", NoReg, <<v, slots[Top.name]>>, "", "")) ELSE f
<1>1. Lowering("assign") /\ Complete /\ Top.node = "assign" /\ Result(g, v)
  BY DEF LowerAssign, Lowering
<1>2. /\ Top.regs[1] \in 1 .. fn.regs /\ Arity(Top) /\ Top.regs \in Seq(Nat)
      /\ \A i \in DOMAIN Top.regs : Top.regs[i] \in 1 .. fn.regs
  BY <1>1, FirstOperand
<1>3. fn.regs \in Nat /\ Sound(fn) /\ fn.name # ""
  BY <1>1, Facts, Completed
<1>4. /\ Sound(f) /\ f.name = fn.name
      /\ IF plain THEN f.regs = fn.regs ELSE f.regs = fn.regs + 1
  <2>1. CASE plain
    BY <1>3, <2>1
  <2>2. CASE ~plain
    <3>1. op \in Opcodes
      <4>1. Top.op \in Compounds
        BY <1>1, <1>2, <2>2 DEF Arity
      <4> QED BY <4>1, OperatorsKnown
    <3>2. "" \in Names /\ "" \in Immediates
      BY DEF Names, Immediates
    <3> DEFINE h == Value(fn, op, Top.regs, "", "")
    <3> HIDE DEF op
    <3>3. Sound(h) /\ h.regs = fn.regs + 1 /\ h.name = fn.name
      BY <1>2, <1>3, <3>1, <3>2, ValueSound
    <3>4. f = h
      BY <2>2
    <3> HIDE DEF f, h, plain
    <3> QED BY <2>2, <3>3, <3>4
  <2> QED BY <2>1, <2>2
<1> HIDE DEF f, op
<1>9. fn.regs \in Nat
  BY <1>3
<1>5. f.regs \in Nat /\ fn.regs <= f.regs /\ v \in 1 .. f.regs /\ v \in Nat
  <2> HIDE DEF plain
  <2>1. CASE plain
    <3>1. f.regs = fn.regs /\ v = Top.regs[1] /\ Top.regs[1] \in 1 .. fn.regs
      BY <1>2, <1>4, <2>1
    <3> HIDE DEF v
    <3> QED BY <1>9, <3>1
  <2>2. CASE ~plain
    <3>1. f.regs = fn.regs + 1 /\ v = fn.regs + 1
      BY <1>4, <2>2
    <3> HIDE DEF v
    <3> QED BY <1>9, <3>1
  <2> QED BY <2>1, <2>2
<1> HIDE DEF v
<1>6. Sound(g) /\ g.regs = f.regs /\ g.name = fn.name
  <2>1. CASE Top.name \in DOMAIN slots
    <3> DEFINE slot == slots[Top.name]
               h == Emit(f, Instr("store", NoReg, <<v, slot>>, "", ""))
    <3>1. slot \in 1 .. fn.regs
      BY <1>3, <2>1 DEF IInv, Current
    <3> HIDE DEF slot
    <3>2. slot \in 1 .. f.regs
      BY <1>9, <1>5, <3>1
    <3>3. Sound(h) /\ h.regs = f.regs /\ h.name = f.name
      BY <1>4, <1>5, <3>2, StoreSound
    <3>4. g = h
      BY <2>1 DEF slot
    <3> HIDE DEF g, h
    <3> QED BY <1>4, <3>3, <3>4
  <2>2. CASE Top.name \notin DOMAIN slots
    BY <1>4, <2>2
  <2> QED BY <2>1, <2>2
<1> HIDE DEF g
<1>7. fn.regs <= g.regs /\ v \in 1 .. g.regs
  BY <1>5, <1>6
<1>8. "assign" \notin Statements
  BY KindsKnown
<1> QED BY <1>1, <1>5, <1>6, <1>7, <1>8, ResultStep

LEMMA LowerPlaceholderSteps ==
  ASSUME IInv, LowerMember \/ LowerIndex \/ LowerCast
  PROVE  IInv'
<1>1. CASE LowerMember
  <2> DEFINE args == <<>>
  <2>1. Lowering("member") /\ ResultOf("load", args, Top.name) /\ Complete
    BY <1>1 DEF LowerMember, Lowering
  <2>2. Top.name \in Names
    BY <2>1, Completed
  <2>3. args \in Seq(Nat) /\ \A a \in DOMAIN args : args[a] \in 1 .. fn.regs
    BY NoArgs
  <2>4. "member" \notin Statements /\ "load" \in Opcodes
    BY KindsKnown, OperatorsKnown
  <2> HIDE DEF args
  <2> QED BY <2>1, <2>2, <2>3, <2>4, ResultOfStep
<1>2. CASE LowerIndex
  <2>1. Lowering("index") /\ ResultOf("add", Top.regs, "") /\ Complete /\ Top.node = "index"
    BY <1>2 DEF LowerIndex, Lowering
  <2>2. Top.regs \in Seq(Nat) /\ \A i \in DOMAIN Top.regs : Top.regs[i] \in 1 .. fn.regs
    BY <2>1, Completed DEF Droppers
  <2>3. "index" \notin Statements /\ "" \in Names
    BY KindsKnown DEF Names
  <2>4. "add" \in Opcodes
    <3>1. "+" \in Binaries /\ binaryOpToOpcode("+") = "add"
      BY DEF Binaries, Arithmetic, binaryOpToOpcode
    <3> QED BY <3>1, OperatorsKnown
  <2> QED BY <2>1, <2>2, <2>3, <2>4, ResultOfStep
<1>3. CASE LowerCast
  <2>1. Lowering("cast") /\ ResultOf("cast", Top.regs, "?") /\ Complete /\ Top.node = "cast"
    BY <1>3 DEF LowerCast, Lowering
  <2>2. Top.regs \in Seq(Nat) /\ \A i \in DOMAIN Top.regs : Top.regs[i] \in 1 .. fn.regs
    BY <2>1, Completed DEF Droppers
  <2>3. "cast" \notin Statements /\ "?" \in Names /\ "cast" \in Opcodes
    BY KindsKnown, OperatorsKnown DEF Names
  <2> QED BY <2>1, <2>2, <2>3, ResultOfStep
<1> QED BY <1>1, <1>2, <1>3

\* An element of an array literal goes to a slot of its own.
LEMMA StoreElementStep ==
  ASSUME IInv, StoreElement
  PROVE  IInv'
<1> DEFINE slot == fn.regs + 1
           x == Element[Len(Top.kids)]
           a == Value(fn, "alloca", <<>>, x, "")
           g == Emit(a, Instr("store", NoReg, <<last, slot>>, "", ""))
           w == [Top EXCEPT !.regs = Append(@, slot)]
<1>1. /\ visits # <<>> /\ Top.node = "array" /\ Len(Top.regs) < Len(Top.kids)
      /\ fn' = g /\ visits' = [visits EXCEPT ![Len(visits)].regs = Append(@, slot)]
      /\ pool' = pool /\ decls' = decls /\ done' = done /\ slots' = slots
      /\ last' = last /\ scope' = scope /\ left' = left /\ stage' = stage
  BY DEF StoreElement
<1>2. /\ Top = visits[Len(visits)] /\ Visitor(Top, fn.regs) /\ fn.name # ""
      /\ Len(visits) \in DOMAIN visits
  <2>1. Stack(visits, fn.regs) /\ (fn.name = "" => visits = <<>>)
    BY DEF IInv, Current
  <2>2. Visitor(Top, fn.regs) /\ Top = visits[Len(visits)] /\ fn.name # ""
    BY <1>1, <2>1, StackShape DEF Top
  <2>3. visits # <<>>
    BY <1>1
  <2>4. Len(visits) \in DOMAIN visits
    <3>1. /\ Len(visits) \in Nat \ {0} /\ DOMAIN visits = 1 .. Len(visits)
      BY <2>1, <2>3, StackShape
    <3> QED BY <3>1
  <2> QED BY <2>2, <2>4
<1>3. /\ Arity(Top) /\ Aside(Top, fn.regs) /\ IsSeq(Top.kids) /\ Top.regs \in Seq(Nat)
      /\ Len(Top.kids) <= Top.need /\ Top.need \in Nat
      /\ DOMAIN Top = {"node", "op", "name", "kind", "need", "kids", "regs"}
  BY <1>2 DEF Visitor, Frame
<1>4. /\ Top.need <= 3
      /\ \A i \in DOMAIN Top.regs : Top.regs[i] \in 1 .. fn.regs
  <2>1. Top.need <= Len(Element) /\ Top.node \notin Droppers
    BY <1>1, <1>3 DEF Arity, Droppers
  <2>2. Len(Element) = 3
    BY DEF Element
  <2> QED BY <1>3, <2>1, <2>2 DEF Aside
<1>5. fn.regs \in Nat /\ Sound(fn)
  BY Facts
<1>6. /\ Len(Top.kids) \in Nat /\ Len(Top.regs) \in Nat /\ Top.kids # <<>>
      /\ Len(Top.regs) < Len(Top.kids)
  <2>1. Len(Top.kids) \in Nat /\ Len(Top.regs) \in Nat
    BY <1>3, AppendSeq
  <2>2. Len(Top.regs) < Len(Top.kids)
    BY <1>1
  <2>3. Len(Top.kids) # 0
    BY <2>1, <2>2
  <2> QED BY <2>1, <2>2, <2>3, NoneSeq
<1>7. x \in Names
  <2>3. Len(Top.kids) <= Top.need /\ Top.need \in Nat
    BY <1>3
  <2>1. Len(Top.kids) \in 1 .. 3
    <3>1. Top.need <= 3
      BY <1>4
    <3>2. Len(Top.kids) \in Nat /\ Len(Top.regs) \in Nat /\ Len(Top.regs) < Len(Top.kids)
      BY <1>6
    <3> DEFINE k == Len(Top.kids)
    <3>3. k \in Nat /\ Len(Top.regs) \in Nat /\ Len(Top.regs) < k /\ k <= Top.need
      BY <2>3, <3>2
    <3> HIDE DEF k
    <3>4. k >= 1 /\ k <= 3
      BY <2>3, <3>1, <3>3
    <3>5. k \in 1 .. 3
      BY <3>3, <3>4
    <3> QED BY <3>5 DEF k
  <2>2. DOMAIN Element = 1 .. 3
    BY DEF Element
  <2>4. x \in InSeq(Element)
    BY <2>1, <2>2 DEF InSeq
  <2> HIDE DEF x
  <2> QED BY <2>4 DEF Names
<1>8. last \in 1 .. fn.regs
  <2>1. Top.node \notin Droppers
    BY <1>1 DEF Droppers
  <2> QED BY <1>1, <1>2, <1>6, <2>1, Facts DEF Recent
<1>9. Sound(a) /\ a.regs = slot /\ a.name = fn.name
  <2>1. "alloca" \in Opcodes /\ "" \in Immediates
    BY OperatorsKnown DEF Immediates
  <2> HIDE DEF x
  <2> QED BY <1>5, <1>7, <2>1, PlainSound
<1>10. slot \in Nat /\ slot \in 1 .. slot /\ last \in 1 .. slot /\ fn.regs <= slot
  BY <1>5, <1>8
<1> HIDE DEF a, x
<1>11. Sound(g) /\ g.regs = slot /\ g.name = fn.name
  <2>1. last \in 1 .. a.regs /\ slot \in 1 .. a.regs
    BY <1>9, <1>10
  <2>2. Sound(g) /\ g.regs = a.regs /\ g.name = a.name
    BY <1>9, <2>1, StoreSound
  <2> HIDE DEF g
  <2> QED BY <1>9, <2>2
<1>12. visits' = [visits EXCEPT ![Len(visits)] = w]
  BY <1>1, <1>2
<1>13. /\ DOMAIN w = DOMAIN Top /\ w.node = Top.node /\ w.op = Top.op /\ w.name = Top.name
       /\ w.kind = Top.kind /\ w.need = Top.need /\ w.kids = Top.kids
       /\ w.regs = Append(Top.regs, slot)
  BY <1>3
<1> HIDE DEF g, w
<1>14. /\ w.regs \in Seq(Nat) /\ Len(w.regs) = Len(Top.regs) + 1
       /\ \A i \in DOMAIN w.regs : w.regs[i] \in 1 .. slot
  <2>1. \A i \in DOMAIN Top.regs : Top.regs[i] \in 1 .. slot
    BY <1>4, <1>5
  <2> HIDE DEF slot
  <2> QED BY <1>3, <1>10, <1>13, <2>1
<1>15. Visitor(w, slot)
  <2>1. Len(w.regs) <= Len(w.kids)
    BY <1>6, <1>13, <1>14
  <2>2. Aside(w, slot)
    BY <1>1, <1>13, <1>14, <2>1 DEF Aside
  <2>3. Arity(w)
    BY <1>3, <1>13 DEF Arity
  <2> HIDE DEF slot
  <2> QED BY <1>2, <1>13, <1>14, <2>2, <2>3 DEF Visitor
<1> HIDE DEF slot
<1>16. Stack(visits, slot)
  BY <1>5, <1>10, Facts, WidenStack
<1>17. Stack(visits', slot) /\ visits' # <<>> /\ visits'[Len(visits')] = w
  <2> DEFINE t == [visits EXCEPT ![Len(visits)] = w]
  <2>1. /\ w.node = visits[Len(visits)].node /\ w.kind = visits[Len(visits)].kind
        /\ w.need = visits[Len(visits)].need /\ visits # <<>>
    BY <1>1, <1>2, <1>13
  <2>2. Stack(t, slot) /\ t # <<>> /\ t[Len(t)] = w
    BY <1>15, <1>16, <2>1, AdvanceStack
  <2> HIDE DEF t
  <2>3. visits' = t
    BY <1>12 DEF t
  <2> QED BY <2>2, <2>3
<1>18. Recent(visits', last, slot)
  BY <1>10, <1>17 DEF Recent
<1>19. Fixed'
  BY <1>1 DEF IInv, Fixed, Finished
<1>20. decls # <<>> /\ \A y \in DOMAIN slots : slots[y] \in 1 .. fn.regs
  BY <1>2 DEF IInv, Current
<1>21. \A q \in 1 .. fn.regs : q \in 1 .. slot
  BY <1>5, <1>10
<1>22. Current'
  <2>1. last \in Nat
    BY Facts
  <2> QED BY <1>1, <1>2, <1>11, <1>17, <1>18, <1>20, <1>21, <2>1 DEF Current
<1> QED BY <1>19, <1>22 DEF IInv

LEMMA LowerArrayStep ==
  ASSUME IInv, LowerArray
  PROVE  IInv'
<1> DEFINE v == IF Top.need = 0 THEN NoReg ELSE Top.regs[1]
<1>1. Lowering("array") /\ Complete /\ Top.node = "array" /\ Result(fn, v)
  BY DEF LowerArray, Lowering
<1>2. /\ Top.regs \in Seq(Nat) /\ Len(Top.regs) = Top.need /\ Top.need \in Nat
      /\ \A i \in DOMAIN Top.regs : Top.regs[i] \in 1 .. fn.regs
  BY <1>1, Completed DEF Droppers
<1>3. fn.regs \in Nat /\ Sound(fn)
  BY Facts
<1>4. v \in Nat /\ (v \in 1 .. fn.regs \/ Top.need = 0)
  BY <1>2, <1>3 DEF NoReg
<1>5. "array" \notin Statements
  BY KindsKnown
<1>6. fn.regs <= fn.regs
  BY <1>3
<1> HIDE DEF v
<1> QED BY <1>1, <1>3, <1>4, <1>5, <1>6, ResultStep

LEMMA LowerCallStep ==
  ASSUME IInv, LowerCall
  PROVE  IInv'
<1>1. Lowering("call") /\ Complete /\ Top.node = "call"
  BY DEF LowerCall, Lowering
<1>2. /\ Top.regs \in Seq(Nat) /\ Len(Top.regs) = Top.need /\ Top.need \in Nat
      /\ \A i \in DOMAIN Top.regs : Top.regs[i] \in 1 .. fn.regs
      /\ Top.name \in Names /\ Arity(Top)
  BY <1>1, Completed DEF Droppers
<1>3. "call" \notin Statements /\ "call" \in Opcodes
  BY KindsKnown, OperatorsKnown
<1>4. CASE Top.name = Indirect
  <2> DEFINE args == Tail(Top.regs)
  <2>1. Top.need >= 1
    BY <1>1, <1>2, <1>4 DEF Arity
  <2>2. Top.regs # <<>>
    BY <1>2, <2>1
  <2>3. args \in Seq(Nat) /\ \A a \in DOMAIN args : args[a] \in 1 .. fn.regs
    BY <1>2, <2>2
  <2> DEFINE sym == Through(Top.regs[1])
  <2>4. ResultOf("call", args, sym)
    BY <1>4 DEF LowerCall
  <2>5. sym \in Names
    BY DEF Through, Names, InSeq
  <2> HIDE DEF sym
  <2> HIDE DEF args
  <2> QED BY <1>1, <1>3, <2>3, <2>4, <2>5, ResultOfStep
<1>5. CASE Top.name # Indirect
  <2>1. ResultOf("call", Top.regs, Top.name)
    BY <1>5 DEF LowerCall
  <2> QED BY <1>1, <1>2, <1>3, <2>1, ResultOfStep
<1> QED BY <1>4, <1>5

-----------------------------------------------------------------------------
(***************************************************************************)
(* Functions.  The parameter i is instructions 3 * i - 2 to 3 * i and the  *)
(* registers 2 * i - 1, its slot, and 2 * i, its value.                    *)
(***************************************************************************)
LEMMA ParamPlace ==
  ASSUME NEW n \in Nat, NEW k \in 1 .. 3 * n
  PROVE  LET i == (k + 2) \div 3
         IN  /\ i \in 1 .. n
             /\ k % 3 = 1 => k = 3 * i - 2
             /\ k % 3 = 2 => k = 3 * i - 1
             /\ k % 3 \notin {1, 2} => k = 3 * i
OBVIOUS

LEMMA ParamInstr ==
  ASSUME NEW params, IsSeq(params), NEW i \in DOMAIN params
  PROVE  /\ 3 * i - 2 \in DOMAIN ParamCode(params)
         /\ 3 * i - 1 \in DOMAIN ParamCode(params)
         /\ 3 * i \in DOMAIN ParamCode(params)
         /\ ParamCode(params)[3 * i - 2] = Instr("alloca", 2 * i - 1, <<>>, params[i], "")
         /\ ParamCode(params)[3 * i - 1] = Instr("param", 2 * i, <<i>>, "", "")
         /\ ParamCode(params)[3 * i] = Instr("store", NoReg, <<2 * i, 2 * i - 1>>, "", "")
<1>1. Len(params) \in Nat /\ i \in 1 .. Len(params)
  BY AppendSeq
<1> DEFINE n == Len(params)
<1>2. /\ 3 * i - 2 \in 1 .. 3 * n /\ 3 * i - 1 \in 1 .. 3 * n /\ 3 * i \in 1 .. 3 * n
  BY <1>1
<1>3. /\ (3 * i - 2) % 3 = 1 /\ (3 * i - 1) % 3 = 2 /\ (3 * i) % 3 = 0
      /\ (3 * i - 2 + 2) \div 3 = i /\ (3 * i - 1 + 2) \div 3 = i /\ (3 * i + 2) \div 3 = i
  BY <1>1
<1> DEFINE F(k) == LET j == (k + 2) \div 3
                   IN  CASE k % 3 = 1 -> Instr("alloca", 2 * j - 1, <<>>, params[j], "")
                         [] k % 3 = 2 -> Instr("param", 2 * j, <<j>>, "", "")
                         [] OTHER     -> Instr("store", NoReg, <<2 * j, 2 * j - 1>>, "", "")
<1>4. /\ F(3 * i - 2) = Instr("alloca", 2 * i - 1, <<>>, params[i], "")
      /\ F(3 * i - 1) = Instr("param", 2 * i, <<i>>, "", "")
      /\ F(3 * i) = Instr("store", NoReg, <<2 * i, 2 * i - 1>>, "", "")
  <2>1. ASSUME NEW k, (k + 2) \div 3 = i, k % 3 = 1, 1 # 2
        PROVE  F(k) = Instr("alloca", 2 * i - 1, <<>>, params[i], "")
    BY <2>1, Zenon
  <2>2. ASSUME NEW k, (k + 2) \div 3 = i, k % 3 = 2, 2 # 1
        PROVE  F(k) = Instr("param", 2 * i, <<i>>, "", "")
    BY <2>2, Zenon
  <2>3. ASSUME NEW k, (k + 2) \div 3 = i, k % 3 = 0, 0 # 1, 0 # 2
        PROVE  F(k) = Instr("store", NoReg, <<2 * i, 2 * i - 1>>, "", "")
    BY <2>3, Zenon
  <2>4. 1 # 2 /\ 2 # 1 /\ 0 # 1 /\ 0 # 2
    OBVIOUS
  <2> HIDE DEF F
  <2> QED BY <1>3, <2>1, <2>2, <2>3, <2>4
<1>5. ParamCode(params) = [k \in 1 .. 3 * n |-> F(k)]
  BY DEF ParamCode
<1> HIDE DEF F, n
<1> QED BY <1>2, <1>4, <1>5

LEMMA ParamCodeSound ==
  ASSUME NEW params, IsSeq(params), \A i \in DOMAIN params : params[i] \in Names,
         NEW name, NEW returns
  PROVE  LET f == [name |-> name, params |-> params, returns |-> returns,
                   code |-> ParamCode(params), regs |-> 2 * Len(params), body |-> <<>>]
         IN  Sound(f) /\ f.regs = 2 * Len(params) /\ Len(params) \in Nat
<1> DEFINE n == Len(params)
           code == ParamCode(params)
           f == [name |-> name, params |-> params, returns |-> returns,
                 code |-> code, regs |-> 2 * n, body |-> <<>>]
           alloca(i) == Instr("alloca", 2 * i - 1, <<>>, params[i], "")
           param(i) == Instr("param", 2 * i, <<i>>, "", "")
           store(i) == Instr("store", NoReg, <<2 * i, 2 * i - 1>>, "", "")
<1>1. n \in Nat /\ DOMAIN params = 1 .. n
  BY AppendSeq
<1>2. DOMAIN code = 1 .. 3 * n
  BY DEF ParamCode
<1>3. \A i \in 1 .. n : /\ 3 * i - 2 \in 1 .. 3 * n /\ code[3 * i - 2] = alloca(i)
                        /\ 3 * i - 1 \in 1 .. 3 * n /\ code[3 * i - 1] = param(i)
                        /\ 3 * i \in 1 .. 3 * n /\ code[3 * i] = store(i)
  <2> TAKE i \in 1 .. n
  <2>1. /\ 3 * i - 2 \in 1 .. 3 * n /\ 3 * i - 1 \in 1 .. 3 * n /\ 3 * i \in 1 .. 3 * n
    BY <1>1
  <2>2. i \in DOMAIN params
    BY <1>1
  <2>3. code[3 * i - 2] = alloca(i) /\ code[3 * i - 1] = param(i) /\ code[3 * i] = store(i)
    BY <2>2, ParamInstr
  <2> QED BY <2>1, <2>3
<1>4. ASSUME NEW k \in 1 .. 3 * n
      PROVE  \E i \in 1 .. n : k = 3 * i - 2 \/ k = 3 * i - 1 \/ k = 3 * i
  <2>1. k % 3 = 1 \/ k % 3 = 2 \/ k % 3 \notin {1, 2}
    OBVIOUS
  <2> QED BY <1>1, <2>1, ParamPlace
<1>5. \A i \in 1 .. n : /\ alloca(i).dest = 2 * i - 1 /\ alloca(i).args = <<>>
                        /\ param(i).dest = 2 * i /\ param(i).op = "param"
                        /\ store(i).args = <<2 * i, 2 * i - 1>>
  BY DEF Instr
<1>6. \A i \in 1 .. n : alloca(i) \in InstrType /\ param(i) \in InstrType /\ store(i) \in InstrType
  <2> TAKE i \in 1 .. n
  <2>1. /\ 2 * i - 1 \in Nat /\ 2 * i \in Nat /\ NoReg \in Nat
        /\ <<>> \in Seq(Nat) /\ <<i>> \in Seq(Nat) /\ <<2 * i, 2 * i - 1>> \in Seq(Nat)
    BY <1>1 DEF NoReg
  <2>2. /\ {"alloca", "param", "store"} \subseteq Opcodes
        /\ params[i] \in Names /\ "" \in Names /\ "" \in Immediates
    BY <1>1, OperatorsKnown DEF Names, Immediates
  <2>3. alloca(i) \in InstrType
    BY <2>1, <2>2, InstrTyped
  <2>4. param(i) \in InstrType
    BY <2>1, <2>2, InstrTyped
  <2>5. store(i) \in InstrType
    BY <2>1, <2>2, InstrTyped
  <2> QED BY <2>3, <2>4, <2>5
<1> HIDE DEF n, code, alloca, param, store
<1>7. code \in Seq(InstrType)
  <2>1. \A k \in 1 .. 3 * n : code[k] \in InstrType
    BY <1>3, <1>4, <1>6
  <2>2. code = [k \in 1 .. 3 * n |-> code[k]]
    BY DEF code, n, ParamCode
  <2>3. code \in [1 .. 3 * n -> InstrType]
    BY <2>1, <2>2
  <2> QED BY <1>1, <2>3, SeqDef
<1>8. Typed(f)
  BY <1>1, <1>7 DEF Typed, NoFunction
<1>9. Computed(f)
  <2> SUFFICES ASSUME NEW r \in 1 .. 2 * n
               PROVE  \E j \in 1 .. 3 * n : code[j].dest = r
    BY <1>2 DEF Computed
  <2>1. \E i \in 1 .. n : r = 2 * i - 1 \/ r = 2 * i
    <3>1. /\ (r + 1) \div 2 \in 1 .. n
          /\ r = 2 * ((r + 1) \div 2) - 1 \/ r = 2 * ((r + 1) \div 2)
      BY <1>1
    <3> QED BY <3>1
  <2>2. PICK i \in 1 .. n : r = 2 * i - 1 \/ r = 2 * i
    BY <2>1
  <2> QED BY <1>3, <1>5, <2>2
<1>10. DefinedBefore(code)
  <2> SUFFICES ASSUME NEW k \in 1 .. 3 * n, code[k].op # "param",
                      NEW a \in DOMAIN code[k].args
               PROVE  \E j \in 1 .. k - 1 : /\ code[j].dest = code[k].args[a]
                                            /\ code[j].dest # NoReg
    BY <1>2 DEF DefinedBefore
  <2>1. PICK i \in 1 .. n : k = 3 * i - 2 \/ k = 3 * i - 1 \/ k = 3 * i
    BY <1>4
  <2>2. CASE k = 3 * i - 2
    BY <1>3, <1>5, <2>2, NoneSeq
  <2>3. CASE k = 3 * i - 1
    BY <1>3, <1>5, <2>3
  <2>4. CASE k = 3 * i
    <3>1. code[k].args = <<2 * i, 2 * i - 1>>
      BY <1>3, <1>5, <2>4
    <3>2. a \in {1, 2}
      BY <3>1
    <3>3. /\ code[3 * i - 2].dest = 2 * i - 1 /\ code[3 * i - 1].dest = 2 * i
          /\ 3 * i - 2 \in 1 .. k - 1 /\ 3 * i - 1 \in 1 .. k - 1
          /\ 2 * i - 1 # NoReg /\ 2 * i # NoReg
      BY <1>3, <1>5, <2>4 DEF NoReg
    <3>4. code[k].args[1] = 2 * i /\ code[k].args[2] = 2 * i - 1
      BY <3>1
    <3>5. CASE a = 1
      BY <3>3, <3>4, <3>5
    <3>6. CASE a = 2
      BY <3>3, <3>4, <3>6
    <3> QED BY <3>2, <3>5, <3>6
  <2> QED BY <2>1, <2>2, <2>3, <2>4
<1>11. f.code = code /\ f.regs = 2 * n
  OBVIOUS
<1> QED BY <1>1, <1>8, <1>9, <1>10, <1>11 DEF Sound, n, code

LEMMA VisitFunctionDeclStep ==
  ASSUME IInv, VisitFunctionDecl
  PROVE  IInv'
<1> DEFINE d == decls[1]
           f == [name |-> d.name, params |-> d.params, returns |-> d.returns,
                 code |-> ParamCode(d.params), regs |-> 2 * Len(d.params), body |-> <<>>]
<1>1. /\ fn.name = "" /\ decls # <<>> /\ d.node = "fn" /\ fn' = f
      /\ slots' = [x \in InSeq(d.params) |-> 2 * Position(d.params, x) - 1]
      /\ scope' = [x \in InSeq(d.params) |-> "int"] /\ left' = d.nodes - 1
      /\ pool' = pool /\ decls' = decls /\ done' = done /\ last' = last
      /\ visits' = visits /\ stage' = stage
  BY DEF VisitFunctionDecl
<1>2. /\ pool \in Pools /\ IsSeq(decls) /\ InSeq(decls) \subseteq InSeq(pool.module)
      /\ last \in Nat
  BY DEF IInv, Fixed, Current
<1>3. d \in InSeq(pool.module)
  <2>1. Len(decls) \in Nat \ {0} /\ DOMAIN decls = 1 .. Len(decls)
    BY <1>1, <1>2, FrontSeq
  <2>2. 1 \in DOMAIN decls
    BY <2>1
  <2> QED BY <1>2, <2>2 DEF InSeq
<1>4. IsSeq(d.params) /\ d.nodes \in Nat \ {0}
  BY <1>1, <1>2, <1>3, PoolsAssumption
<1>5. \A i \in DOMAIN d.params : d.params[i] \in Names
  <2>1. InSeq(d.params) \subseteq NamesOf(pool)
    BY <1>1, <1>3 DEF NamesOf
  <2> QED BY <1>2, <2>1 DEF InSeq, Names
<1>6. Sound(f) /\ f.regs = 2 * Len(d.params) /\ Len(d.params) \in Nat
  BY <1>4, <1>5, ParamCodeSound
<1> HIDE DEF f
<1>7. \A x \in DOMAIN slots' : slots'[x] \in 1 .. f.regs
  <2> SUFFICES ASSUME NEW x \in InSeq(d.params)
               PROVE  slots'[x] \in 1 .. f.regs
    BY <1>1
  <2>1. Position(d.params, x) \in 1 .. Len(d.params)
    BY <1>4, AppendSeq DEF Position, InSeq
  <2>2. slots'[x] = 2 * Position(d.params, x) - 1
    BY <1>1
  <2> QED BY <1>6, <2>1, <2>2
<1>8. visits' = <<>>
  BY <1>1 DEF IInv, Current
<1>9. Stack(visits', f.regs) /\ Recent(visits', last', f.regs)
  BY <1>8, NoVisitor
<1>10. Current'
  <2>1. fn' = f /\ decls' # <<>> /\ last' \in Nat
    BY <1>1, <1>2
  <2> QED BY <1>6, <1>7, <1>8, <1>9, <2>1 DEF Current
<1>11. left' \in Nat
  <2> DEFINE q == d.nodes
  <2>1. left' = q - 1 /\ q \in Nat \ {0}
    BY <1>1, <1>4
  <2> HIDE DEF q
  <2> QED BY <2>1
<1>12. \A x \in DOMAIN scope' : scope'[x] \in Kinds
  BY <1>1 DEF Kinds
<1>13. Fixed'
  BY <1>1, <1>2, <1>11, <1>12 DEF IInv, Fixed, Finished
<1> QED BY <1>10, <1>13 DEF IInv

\* A function that has not been entered.
LEMMA NoFunctionSound ==
  Sound(NoFunction) /\ NoFunction.regs = 0 /\ NoFunction.name = ""
<1>1. NoFunction.code = <<>> /\ NoFunction.regs = 0 /\ NoFunction.name = ""
  BY DEF NoFunction
<1>2. <<>> \in Seq(InstrType) /\ DefinedBefore(<<>>)
  BY NoneSeq DEF DefinedBefore
<1>3. Typed(NoFunction)
  <2>1. 0 \in Nat
    OBVIOUS
  <2> QED BY <1>1, <1>2, <2>1, Zenon DEF Typed
<1>4. Computed(NoFunction)
  <2>1. 1 .. 0 = {}
    OBVIOUS
  <2> QED BY <1>1, <2>1, Zenon DEF Computed
<1> QED BY <1>1, <1>2, <1>3, <1>4 DEF Sound

LEMMA EndFunctionStep ==
  ASSUME IInv, EndFunction
  PROVE  IInv'
<1> DEFINE g == Emit(fn, Instr("ret", NoReg, <<>>, "", ""))
<1>1. /\ fn.name # "" /\ visits = <<>> /\ done' = Append(done, g)
      /\ fn' = NoFunction /\ decls' = Tail(decls) /\ pool' = pool /\ slots' = slots
      /\ last' = last /\ visits' = visits /\ scope' = scope /\ left' = left
      /\ stage' = stage
  BY DEF EndFunction
<1>2. Sound(g)
  <2>1. "ret" \in Opcodes /\ "" \in Names /\ "" \in Immediates
    BY OperatorsKnown DEF Names, Immediates
  <2> QED BY <2>1, Facts, PlainSound
<1> HIDE DEF g
<1>3. IsSeq(done') /\ Finished'
  <2>1. IsSeq(done) /\ Finished
    BY DEF IInv, Fixed
  <2>2. /\ IsSeq(done') /\ DOMAIN done' = 1 .. Len(done) + 1 /\ DOMAIN done = 1 .. Len(done)
        /\ \A i \in 1 .. Len(done) : done'[i] = done[i]
        /\ done'[Len(done) + 1] = g /\ Len(done) \in Nat
    <3> DEFINE t == Append(done, g)
    <3>1. /\ IsSeq(t) /\ DOMAIN t = 1 .. Len(done) + 1 /\ DOMAIN done = 1 .. Len(done)
          /\ \A i \in 1 .. Len(done) : t[i] = done[i]
          /\ t[Len(done) + 1] = g /\ Len(done) \in Nat
      BY <2>1, AppendSeq
    <3>2. done' = t
      BY <1>1
    <3> HIDE DEF t
    <3> QED BY <3>1, <3>2
  <2>3. ASSUME NEW k \in DOMAIN done'
        PROVE  done'[k].code \in Seq(InstrType) /\ DefinedBefore(done'[k].code)
    <3>1. CASE k \in DOMAIN done
      BY <2>1, <2>2, <3>1 DEF Finished
    <3>2. CASE k = Len(done) + 1
      BY <1>2, <2>2, <3>2 DEF Sound, Typed
    <3> QED BY <2>2, <3>1, <3>2
  <2> QED BY <2>2, <2>3 DEF Finished
<1>4. IsSeq(decls') /\ InSeq(decls') \subseteq InSeq(decls)
  <2> DEFINE S == InSeq(decls)
  <2>1. decls \in Seq(S) /\ decls # <<>>
    BY <1>1 DEF IInv, Fixed, Current, IsSeq
  <2> HIDE DEF S
  <2>2. decls' \in Seq(S)
    <3>1. Tail(decls) \in Seq(S)
      BY <2>1
    <3> QED BY <1>1, <3>1
  <2>3. InSeq(decls') \subseteq S
    BY <2>2 DEF InSeq
  <2> QED BY <2>2, <2>3, RangeSeq DEF S
<1>5. Fixed'
  BY <1>1, <1>3, <1>4 DEF IInv, Fixed
<1>6. Stack(visits', 0) /\ Recent(visits', last', 0)
  BY <1>1, NoVisitor
<1>7. Current'
  BY <1>1, <1>6, NoFunctionSound, Facts DEF Current
<1> QED BY <1>5, <1>7 DEF IInv

LEMMA ModuleSteps ==
  ASSUME IInv, VisitGlobal \/ EndModule \/ UNCHANGED genVars
  PROVE  IInv'
<1>1. /\ pool' = pool /\ decls' = decls /\ done' = done /\ fn' = fn /\ slots' = slots
      /\ last' = last /\ visits' = visits /\ scope' = scope /\ left' = left
  BY DEF VisitGlobal, EndModule, genVars
<1>2. stage' \in {"module", "aborted", "generated"}
  BY DEF VisitGlobal, EndModule, genVars, IInv, Fixed
<1> QED BY <1>1, <1>2 DEF IInv, Fixed, Finished, Current

-----------------------------------------------------------------------------
(***************************************************************************)
(* The invariant is inductive.                                             *)
(***************************************************************************)
LEMMA InitIInv ==
  ASSUME Init
  PROVE  IInv
<1>1. /\ pool \in Pools /\ decls = pool.module /\ done = <<>> /\ fn = NoFunction
      /\ slots = <<>> /\ last = 0 /\ visits = <<>> /\ scope = <<>> /\ left = 0
      /\ stage = "module"
  BY DEF Init, NoReg
<1>2. IsSeq(decls)
  BY <1>1, PoolsAssumption
<1>3. Fixed
  BY <1>1, <1>2, NoneSeq DEF Fixed, Finished
<1>4. Stack(visits, fn.regs) /\ Recent(visits, last, fn.regs)
  BY <1>1, NoVisitor
<1>5. Current
  BY <1>1, <1>4, NoFunctionSound DEF Current
<1> QED BY <1>3, <1>5 DEF IInv

LEMMA NextIInv ==
  ASSUME IInv, EmptyArraysDropped, [GenNext]_genVars
  PROVE  IInv'
<1>1. CASE VisitFunctionDecl
  BY <1>1, VisitFunctionDeclStep
<1>2. CASE EndFunction
  BY <1>2, EndFunctionStep
<1>3. CASE VisitGlobal \/ EndModule \/ UNCHANGED genVars
  BY <1>3, ModuleSteps
<1>4. ASSUME NEW x \in pool.names, VisitVarDecl(x) PROVE IInv'
  BY <1>4, VisitVarDeclStep
<1>5. CASE EndVarDecl
  BY <1>5, EndVarDeclStep
<1>6. CASE VisitExprStmt \/ EndExprStmt
  BY <1>6, ExprStmtSteps
<1>7. CASE VisitReturn \/ EndReturn
  BY <1>7, ReturnSteps
<1>8. ASSUME NEW l \in pool.literals, VisitLiteral(l) PROVE IInv'
  BY <1>8, VisitLiteralStep
<1>9. ASSUME NEW x \in pool.names, VisitVariable(x) PROVE IInv'
  BY <1>9, VisitVariableStep
<1>10. ASSUME NEW x \in Bare, VisitBare(x) PROVE IInv'
  BY <1>10, VisitBareStep
<1>11. ASSUME NEW x \in Declared \cup pool.imports, VisitSymbol(x) PROVE IInv'
  BY <1>11, VisitSymbolStep
<1>12. ASSUME NEW o \in Binaries, VisitBinary(o) PROVE IInv'
  BY <1>12, VisitBinaryStep
<1>13. ASSUME NEW o \in {"-", "!", "~", "*", "&"}, VisitUnary(o) PROVE IInv'
  BY <1>13, VisitUnaryStep
<1>14. CASE LowerBinary
  BY <1>14, LowerBinaryStep
<1>15. CASE LowerUnary
  BY <1>15, LowerUnaryStep
<1>16. ASSUME NEW o \in Compounds \cup {"="}, NEW x \in pool.names \cup {NoName},
              VisitAssign(o, x)
       PROVE  IInv'
  BY <1>16, VisitAssignStep
<1>17. CASE LowerAssign
  BY <1>17, LowerAssignStep
<1>18. CASE \/ \E m \in pool.members : VisitMember(m)
            \/ VisitIndex
            \/ \E o \in {"", "narrow"} : VisitCast(o)
  BY <1>18, VisitPlaceholderSteps
<1>19. CASE LowerMember \/ LowerIndex \/ LowerCast
  BY <1>19, LowerPlaceholderSteps
<1>20. ASSUME NEW n \in 0 .. Len(Element), VisitArray(n) PROVE IInv'
  BY <1>20, VisitArrayStep
<1>21. CASE StoreElement
  BY <1>21, StoreElementStep
<1>22. CASE LowerArray
  BY <1>22, LowerArrayStep
<1>23. ASSUME NEW x \in Declared \cup Builtins \cup {Indirect}, NEW n \in 0 .. 2,
              VisitCall(x, n)
       PROVE  IInv'
  BY <1>23, VisitCallStep
<1>24. CASE LowerCall
  BY <1>24, LowerCallStep
<1> QED BY <1>1, <1>2, <1>3, <1>4, <1>5, <1>6, <1>7, <1>8, <1>9, <1>10, <1>11, <1>12,
           <1>13, <1>14, <1>15, <1>16, <1>17, <1>18, <1>19, <1>20, <1>21, <1>22, <1>23,
           <1>24 DEF GenNext

LEMMA Invariance ==
  ASSUME EmptyArraysDropped
  PROVE  GenSpec => []IInv
<1>1. Init => IInv
  BY InitIInv
<1>2. IInv /\ [GenNext]_genVars => IInv'
  BY NextIInv
<1> QED BY <1>1, <1>2, PTL DEF GenSpec

LEMMA ImpliesTypeOK == IInv => TypeOK
<1> SUFFICES ASSUME IInv PROVE TypeOK
  OBVIOUS
<1>1. /\ pool \in Pools /\ stage \in {"module", "aborted", "generated"}
      /\ last \in Nat /\ left \in Nat /\ fn.regs \in Nat /\ fn.code \in Seq(InstrType)
      /\ fn.name = "" => visits = <<>>
      /\ \A k \in DOMAIN done : done[k].code \in Seq(InstrType)
      /\ \A x \in DOMAIN scope : scope[x] \in Kinds
      /\ fn.name # "" => \A x \in DOMAIN slots : slots[x] \in 1 .. fn.regs
  BY DEF IInv, Fixed, Finished, Current, Sound, Typed
<1>2. \A k \in DOMAIN visits : /\ visits[k].regs \in Seq(Nat)
                               /\ Len(visits[k].kids) <= visits[k].need
                               /\ k > 1 => visits[k].kind \in Kinds
  BY DEF IInv, Current, Stack, Visitor, Operand
<1> QED BY <1>1, <1>2 DEF TypeOK

\* The visitors of IRGen keep the types of the state and of the instructions:
\* every opcode, name and register of the IR is one that exists, a variable's
\* slot is a register of the function being lowered, and no visitor is
\* suspended outside a function.
THEOREM ExprTypeCorrect == EmptyArraysDropped => (GenSpec => []TypeOK)
<1> SUFFICES ASSUME EmptyArraysDropped PROVE GenSpec => []TypeOK
  OBVIOUS
<1>1. GenSpec => []IInv
  BY Invariance
<1> QED BY <1>1, ImpliesTypeOK, PTL

\* Every register that an instruction reads is the result of an instruction
\* before it in the same function, for modules of any length whose functions
\* have any number of statements, nested to any depth: between the visitor
\* that makes a value and the one that uses it nothing is lost in lastReg_,
\* the locals of the visitors or varSlots_, nor kept from another function.
THEOREM OperandsAlwaysDefined == EmptyArraysDropped => (GenSpec => []OperandsDefined)
<1> SUFFICES ASSUME EmptyArraysDropped PROVE GenSpec => []OperandsDefined
  OBVIOUS
<1>1. GenSpec => []IInv
  BY Invariance
<1>2. IInv => OperandsDefined
  BY DEF IInv, Fixed, Finished, Current, Sound, OperandsDefined
<1> QED BY <1>1, <1>2, PTL

-----------------------------------------------------------------------------
(***************************************************************************)
(* The types of values.  A register has a type when every instruction that *)
(* defines it gives that type.  Types are told by opcodes and immediates   *)
(* alone, which is what makes them known before the code is lowered.       *)
(***************************************************************************)
TypeOf(i) ==
  CASE i.op = "alloca" -> "ptr" [] i.op = "copy" -> ImmType(i.imm) [] OTHER -> "i64"
Has(f, r, t) ==
  r \in 1 .. f.regs /\ \A j \in DOMAIN f.code : f.code[j].dest = r => TypeOf(f.code[j]) = t

\* A call by name with m operands in one of the first n functions.
Callee(x, m, n) ==
  \/ \E h \in 1 .. n : /\ h \in DOMAIN pool.module /\ pool.module[h].name = x
                       /\ m = Len(pool.module[h].params)
  \/ x \in Printers /\ m = 1
  \/ x \in Bare /\ m <= 1

\* The operands of an instruction have the types that it needs.
Proper(f, n, i) ==
  /\ i.op = "load" /\ i.args # <<>> => Has(f, i.args[1], "ptr")
  /\ i.op = "store" => Len(i.args) = 2 /\ Has(f, i.args[2], "ptr")
  /\ i.op = "call" =>
       /\ Callee(i.sym, Len(i.args), n)
       /\ \A a \in DOMAIN i.args : \/ Has(f, i.args[a], "i64")
                                   \/ i.sym \in Printers /\ Has(f, i.args[a], "ptr")
  /\ i.op = "ret" => \A a \in DOMAIN i.args : Has(f, i.args[a], "i64")
  /\ i.op \notin {"alloca", "param", "load", "store", "copy", "call", "ret", "block"} =>
       i.args # <<>> /\ \A a \in DOMAIN i.args : Has(f, i.args[a], "i64")

\* A function and its parameters; n is its place in the module.
ParamsAt(f) == {k \in DOMAIN f.code : f.code[k].op = "param"} = {3 * i - 1 : i \in 1 .. Len(f.params)}
Tidy(f, n) ==
  /\ IsSeq(f.body)
  /\ \A k \in DOMAIN f.code : f.code[k].dest <= f.regs /\ Proper(f, n, f.code[k])
  /\ ParamsAt(f)

\* What stands behind a block is the bare ret.
Open(f) == \A k \in DOMAIN f.code : f.code[k].op # "block"
Shut(f) ==
  \A k, m \in DOMAIN f.code :
    f.code[k].op = "block" /\ m > k => f.code[m].op = "ret" /\ f.code[m].args = <<>>

\* The kinds of values that a visitor takes, if it does not drop them, and the
\* type of the register that has a value.
Accepted(v) ==
  IF v.node = "unary" /\ v.op = "*" THEN {"array"}
  ELSE IF v.node = "call" /\ v.name \in Printers THEN {"int", "text"} ELSE {"int"}
Goes(v, kind) == v.node \notin Droppers => kind \in Accepted(v)
TypeFor(kind) == IF kind = "int" THEN "i64" ELSE "ptr"
Valued(f, r, kind) == kind \in {"int", "text", "array"} => Has(f, r, TypeFor(kind))

\* The kind of a visitor's value, and what it has put aside.
Filled(f, n, v) ==
  /\ IF v.node = "array" THEN v.kind = "array" ELSE v.kind \notin {"text", "array"}
  /\ v.node = "unary" /\ v.op = "&" => v.kind = "address"
  /\ v.node = "call" => Callee(v.name, v.need, n)
  /\ v.node = "let" => /\ Has(f, v.regs[1], "ptr")
                       /\ \A i \in DOMAIN v.kids : v.kids[i].kind = "int"
  /\ v.node = "array" => \A i \in DOMAIN v.regs : Has(f, v.regs[i], "ptr")
  /\ v.node \notin Droppers \cup {"let", "array"} =>
       \A i \in DOMAIN v.regs : \E kind \in Accepted(v) : Has(f, v.regs[i], TypeFor(kind))
Frames(f, n, vs) ==
  \A k \in DOMAIN vs : Filled(f, n, vs[k]) /\ (k > 1 => Goes(vs[k - 1], vs[k].kind))
Returning(f, vs, r) ==
  vs # <<>> => LET v == vs[Len(vs)] IN v.node = "return" /\ v.kids # <<>> => Has(f, r, "i64")

\* The functions are those of the module, in its order.
Visited ==
  /\ Len(done) + Len(decls) = Len(pool.module)
  /\ \A i \in DOMAIN decls : decls[i] = pool.module[Len(done) + i]
  /\ \A k \in DOMAIN done : /\ pool.module[k].node = "fn"
                            /\ done[k].name = pool.module[k].name
                            /\ done[k].params = pool.module[k].params
  /\ fn.name # "" =>
       decls[1].node = "fn" /\ fn.name = decls[1].name /\ fn.params = decls[1].params

Compiled == \A k \in DOMAIN done : Tidy(done[k], k) /\ Shut(done[k])
Active ==
  fn.name # "" =>
    /\ Tidy(fn, Len(done) + 1)
    /\ \A x \in DOMAIN slots : Has(fn, slots[x], "ptr")
    /\ \A x \in DOMAIN scope : scope[x] = "int"
    /\ Frames(fn, Len(done) + 1, visits) /\ Returning(fn, visits, last)
    /\ IF Returned THEN visits = <<>> /\ Shut(fn) ELSE Open(fn)
KInv == Visited /\ Compiled /\ Active

-----------------------------------------------------------------------------

\* g is f with more instructions: registers keep their types.
Extends(f, g) ==
  /\ g.body = f.body /\ g.params = f.params /\ g.name = f.name /\ f.regs <= g.regs
  /\ \A r, t : Has(f, r, t) => Has(g, r, t)

LEMMA ProperKept ==
  ASSUME NEW f, NEW g, Extends(f, g), NEW n, NEW i, Proper(f, n, i)
  PROVE  Proper(g, n, i)
BY DEF Extends, Proper

LEMMA AppendTidy ==
  ASSUME NEW f, NEW g, Sound(f), Sound(g), NEW n, Tidy(f, n), NEW i \in InstrType,
         g.code = Append(f.code, i), g.body = f.body, g.params = f.params, g.name = f.name,
         f.regs <= g.regs, i.dest \notin 1 .. f.regs, i.dest <= g.regs,
         i.op # "param", Proper(f, n, i)
  PROVE  /\ Tidy(g, n) /\ Extends(f, g)
         /\ i.dest \in 1 .. g.regs => Has(g, i.dest, TypeOf(i))
         /\ Open(f) /\ i.op # "block" => Open(g)
<1>1. f.code \in Seq(InstrType) /\ f.regs \in Nat /\ g.regs \in Nat
  BY DEF Sound, Typed
<1>2. /\ Len(f.code) \in Nat /\ DOMAIN f.code = 1 .. Len(f.code)
      /\ DOMAIN g.code = 1 .. Len(f.code) + 1
      /\ \A k \in DOMAIN f.code : g.code[k] = f.code[k]
      /\ g.code[Len(f.code) + 1] = i
  BY <1>1
<1>3. \A k \in DOMAIN g.code : k \in DOMAIN f.code \/ k = Len(f.code) + 1
  BY <1>2
<1>9. Len(f.code) + 1 \in DOMAIN g.code /\ \A k \in DOMAIN f.code : k \in DOMAIN g.code
  BY <1>2
<1>4. ASSUME NEW r, NEW t, Has(f, r, t) PROVE Has(g, r, t)
  <2>1. r \in 1 .. f.regs /\ r # i.dest /\ r \in 1 .. g.regs
    BY <1>1, <1>4 DEF Has
  <2>2. ASSUME NEW j \in DOMAIN g.code, g.code[j].dest = r PROVE TypeOf(g.code[j]) = t
    <3>1. j \in DOMAIN f.code
      BY <1>2, <1>3, <2>1, <2>2
    <3>2. g.code[j] = f.code[j]
      BY <1>2, <3>1
    <3> QED BY <1>4, <2>2, <3>1, <3>2 DEF Has
  <2> QED BY <2>1, <2>2 DEF Has
<1>5. Extends(f, g)
  BY <1>4 DEF Extends
<1>6. ASSUME NEW k \in DOMAIN g.code
      PROVE  g.code[k].dest <= g.regs /\ Proper(g, n, g.code[k])
  <2>1. CASE k \in DOMAIN f.code
    <3>1. g.code[k] = f.code[k] /\ f.code[k].dest <= f.regs /\ Proper(f, n, f.code[k])
      BY <1>2, <2>1 DEF Tidy
    <3>3. f.code[k] \in InstrType
      BY <1>1, <2>1
    <3>2. f.code[k].dest \in Nat
      BY <3>3 DEF InstrType
    <3> QED BY <1>1, <1>5, <3>1, <3>2, ProperKept
  <2>2. CASE k = Len(f.code) + 1
    BY <1>2, <1>5, <2>2, ProperKept
  <2> QED BY <1>3, <2>1, <2>2
<1>7. ParamsAt(g)
  <2>1. {k \in DOMAIN g.code : g.code[k].op = "param"} = {k \in DOMAIN f.code : f.code[k].op = "param"}
    BY <1>2, <1>3, <1>9
  <2> QED BY <2>1 DEF Tidy, ParamsAt
<1>8. Tidy(g, n)
  BY <1>6, <1>7 DEF Tidy
<1>10. ASSUME i.dest \in 1 .. g.regs PROVE Has(g, i.dest, TypeOf(i))
  <2>1. \A j \in DOMAIN f.code : f.code[j].dest # i.dest
    <3> SUFFICES ASSUME NEW j \in DOMAIN f.code, f.code[j].dest = i.dest PROVE FALSE
      OBVIOUS
    <3>2. f.code[j] \in InstrType
      BY <1>1
    <3>1. f.code[j].dest <= f.regs /\ f.code[j].dest \in Nat
      BY <3>2 DEF Tidy, InstrType
    <3> QED BY <1>1, <1>10, <3>1
  <2> QED BY <1>2, <1>3, <1>10, <2>1 DEF Has
<1>11. Open(f) /\ i.op # "block" => Open(g)
  BY <1>2, <1>3 DEF Open
<1> QED BY <1>5, <1>8, <1>10, <1>11

LEMMA EmitTidy ==
  ASSUME NEW f, Sound(f), NEW n, Tidy(f, n), NEW i \in InstrType, i.dest = NoReg,
         \A a \in DOMAIN i.args : i.args[a] \in 1 .. f.regs,
         i.op # "param", Proper(f, n, i)
  PROVE  LET g == Emit(f, i)
         IN  /\ Sound(g) /\ Tidy(g, n) /\ Extends(f, g) /\ g.code = Append(f.code, i)
             /\ g.regs = f.regs
             /\ Open(f) /\ i.op # "block" => Open(g)
<1> DEFINE g == Emit(f, i)
<1>1. Sound(g) /\ g.regs = f.regs /\ g.name = f.name /\ g.code = Append(f.code, i)
  BY EmitSound
<1>2. g.body = f.body /\ g.params = f.params
  BY DEF Emit, Sound, Typed, NoFunction
<1> HIDE DEF g
<1>3. f.regs \in Nat /\ f.regs <= g.regs /\ i.dest \notin 1 .. f.regs /\ i.dest <= g.regs
  BY <1>1 DEF Sound, Typed, NoReg
<1>4. Tidy(g, n) /\ Extends(f, g) /\ (Open(f) /\ i.op # "block" => Open(g))
  BY <1>1, <1>2, <1>3, AppendTidy
<1> QED BY <1>1, <1>4 DEF g

LEMMA ValueTidy ==
  ASSUME NEW f, Sound(f), NEW n, Tidy(f, n), NEW op \in Opcodes, NEW args \in Seq(Nat),
         NEW sym \in Names, NEW imm \in Immediates,
         \A a \in DOMAIN args : args[a] \in 1 .. f.regs,
         op \notin {"param", "block"}, Proper(f, n, Instr(op, f.regs + 1, args, sym, imm))
  PROVE  LET g == Value(f, op, args, sym, imm)
         IN  /\ Sound(g) /\ Tidy(g, n) /\ Extends(f, g) /\ g.regs = f.regs + 1
             /\ Has(g, f.regs + 1, TypeOf(Instr(op, f.regs + 1, args, sym, imm)))
             /\ Open(f) => Open(g)
<1> DEFINE i == Instr(op, f.regs + 1, args, sym, imm)
           e == Emit(f, i)
           g == [e EXCEPT !.regs = @ + 1]
<1>1. f.regs \in Nat /\ f.code \in Seq(InstrType)
  BY DEF Sound, Typed
<1>2. i \in InstrType /\ i.dest = f.regs + 1 /\ i.args = args /\ i.op = op
  BY <1>1, InstrTyped
<1>9. Proper(f, n, i)
  OBVIOUS
<1> HIDE DEF i
<1>3. /\ Sound(e) /\ e.regs = f.regs /\ e.name = f.name /\ e.code = Append(f.code, i)
  BY <1>2, EmitSound
<1>4. e.body = f.body /\ e.params = f.params
  BY DEF Emit, Sound, Typed, NoFunction
<1> HIDE DEF e
<1>5. DOMAIN e = {"name", "params", "returns", "code", "regs", "body"}
  BY <1>3 DEF Sound, Typed, NoFunction
<1>6. /\ g.regs = f.regs + 1 /\ g.name = f.name /\ g.code = Append(f.code, i)
      /\ g.body = f.body /\ g.params = f.params
  BY <1>3, <1>4, <1>5
<1>7. g = Value(f, op, args, sym, imm)
  BY DEF Value, e, i
<1> HIDE DEF g
<1>8. Sound(g)
  BY <1>7, ValueSound
<1>10. /\ f.regs <= g.regs /\ i.dest \notin 1 .. f.regs /\ i.dest <= g.regs
       /\ i.dest \in 1 .. g.regs
  BY <1>1, <1>2, <1>6
<1>11. /\ Tidy(g, n) /\ Extends(f, g) /\ Has(g, i.dest, TypeOf(i)) /\ (Open(f) => Open(g))
  BY <1>2, <1>6, <1>8, <1>9, <1>10, AppendTidy
<1> QED BY <1>2, <1>6, <1>7, <1>8, <1>11 DEF i

(***************************************************************************)
(* The stack of visitors.                                                  *)
(***************************************************************************)
LEMMA FilledKept ==
  ASSUME NEW f, NEW g, Extends(f, g), NEW n, NEW v, Filled(f, n, v)
  PROVE  Filled(g, n, v)
BY DEF Extends, Filled

LEMMA FramesKept ==
  ASSUME NEW f, NEW g, Extends(f, g), NEW n, NEW vs, Frames(f, n, vs)
  PROVE  Frames(g, n, vs)
BY FilledKept DEF Frames

LEMMA PushFrames ==
  ASSUME NEW f, NEW n, NEW vs, Stack(vs, f.regs), vs # <<>>, Frames(f, n, vs),
         NEW w, Filled(f, n, w), Goes(vs[Len(vs)], w.kind)
  PROVE  Frames(f, n, Append(vs, w))
<1> DEFINE t == Append(vs, w)
           m == Len(vs)
<1>1. /\ m \in Nat \ {0} /\ DOMAIN vs = 1 .. m /\ DOMAIN t = 1 .. m + 1
      /\ t[m + 1] = w /\ \A i \in 1 .. m : t[i] = vs[i]
  BY StackShape, AppendSeq DEF Stack
<1> HIDE DEF t, m
<1>2. ASSUME NEW k \in DOMAIN t
      PROVE  Filled(f, n, t[k]) /\ (k > 1 => Goes(t[k - 1], t[k].kind))
  <2>1. CASE k = m + 1
    <3>1. t[k] = w /\ t[k - 1] = vs[m]
      BY <1>1, <2>1
    <3> QED BY <3>1 DEF m
  <2>2. CASE k \in 1 .. m
    <3>1. t[k] = vs[k] /\ (k > 1 => t[k - 1] = vs[k - 1])
      BY <1>1, <2>2
    <3> QED BY <3>1, <1>1, <2>2 DEF Frames
  <2> QED BY <1>1, <2>1, <2>2
<1> QED BY <1>2 DEF Frames, t

LEMMA PopFrames ==
  ASSUME NEW f, NEW n, NEW vs, Stack(vs, f.regs), vs # <<>>, vs[Len(vs)].node \notin Statements,
         Frames(f, n, vs)
  PROVE  LET t == SubSeq(vs, 1, Len(vs) - 1)
         IN  Frames(f, n, t) /\ Goes(t[Len(t)], vs[Len(vs)].kind)
<1> DEFINE t == SubSeq(vs, 1, Len(vs) - 1)
           m == Len(vs)
<1>1. /\ m \in Nat \ {0} /\ DOMAIN vs = 1 .. m
      /\ Len(t) = m - 1 /\ DOMAIN t = 1 .. m - 1
      /\ \A i \in DOMAIN t : t[i] = vs[i]
  BY FrontSeq DEF Stack
<1> HIDE DEF t
<1>2. m # 1
  BY <1>1 DEF Stack
<1>3. Goes(vs[m - 1], vs[m].kind)
  BY <1>1, <1>2 DEF Frames
<1>4. Frames(f, n, t)
  <2>1. ASSUME NEW k \in DOMAIN t
        PROVE  Filled(f, n, t[k]) /\ (k > 1 => Goes(t[k - 1], t[k].kind))
    <3>1. k \in DOMAIN vs /\ t[k] = vs[k] /\ (k > 1 => t[k - 1] = vs[k - 1])
      BY <1>1
    <3> QED BY <3>1 DEF Frames
  <2> QED BY <2>1 DEF Frames
<1>5. t[Len(t)] = vs[m - 1]
  BY <1>1, <1>2
<1> QED BY <1>3, <1>4, <1>5 DEF t

\* The innermost visitor goes on.
LEMMA AdvanceFrames ==
  ASSUME NEW f, NEW n, NEW vs, Stack(vs, f.regs), vs # <<>>, Frames(f, n, vs),
         NEW w, Filled(f, n, w), w.kind = vs[Len(vs)].kind
  PROVE  Frames(f, n, [vs EXCEPT ![Len(vs)] = w])
<1> DEFINE m == Len(vs)
           t == [vs EXCEPT ![m] = w]
<1>1. m \in Nat \ {0} /\ DOMAIN vs = 1 .. m /\ m \in DOMAIN vs /\ IsSeq(vs)
  BY StackShape DEF Stack
<1> HIDE DEF m
<1>2. DOMAIN t = DOMAIN vs /\ t[m] = w /\ \A i \in DOMAIN vs : i # m => t[i] = vs[i]
  BY <1>1, ReplaceSeq
<1> HIDE DEF t
<1>3. ASSUME NEW k \in DOMAIN t
      PROVE  Filled(f, n, t[k]) /\ (k > 1 => Goes(t[k - 1], t[k].kind))
  <2>1. CASE k = m
    <3>1. t[k] = w /\ t[k].kind = vs[k].kind /\ (k > 1 => t[k - 1] = vs[k - 1])
      BY <1>1, <1>2, <2>1 DEF m
    <3> QED BY <3>1, <1>1, <1>2 DEF Frames
  <2>2. CASE k # m
    <3>1. t[k] = vs[k] /\ k \in DOMAIN vs
      BY <1>1, <1>2, <2>2
    <3>2. k > 1 => t[k - 1].node = vs[k - 1].node /\ t[k - 1] = vs[k - 1]
      BY <1>1, <1>2, <2>2
    <3> QED BY <3>1, <3>2 DEF Frames
  <2> QED BY <2>1, <2>2
<1> QED BY <1>3 DEF Frames, t, m

LEMMA AcceptedKinds ==
  ASSUME NEW v, NEW kind \in Accepted(v)
  PROVE  /\ kind \in {"int", "text", "array"}
         /\ v.node \in {"let", "return", "array"} => kind = "int"
BY DEF Accepted

\* A value of the right kind reaches the visitor that waits for it.
LEMMA TakenFrames ==
  ASSUME NEW f, NEW n, NEW vs, Stack(vs, f.regs), vs # <<>>, Frames(f, n, vs),
         Awaits(vs[Len(vs)]), NEW tree, NEW r, Goes(vs[Len(vs)], tree.kind),
         vs[Len(vs)].node \notin Droppers => Valued(f, r, tree.kind)
  PROVE  Frames(f, n, Taken(vs, tree, r)) /\ Returning(f, Taken(vs, tree, r), r)
<1> DEFINE m == Len(vs)
           v == vs[m]
           kids == Append(v.kids, tree)
           regs == IF v.node = "array" THEN v.regs ELSE Append(v.regs, r)
           w == [[v EXCEPT !.kids = kids] EXCEPT !.regs = regs]
<1>1. /\ m \in Nat \ {0} /\ m \in DOMAIN vs /\ Visitor(v, f.regs) /\ Filled(f, n, v)
      /\ Goes(v, tree.kind)
      /\ v.node \notin Droppers => Valued(f, r, tree.kind)
  BY StackShape DEF Frames
<1>2. Taken(vs, tree, r) = [vs EXCEPT ![m] = w]
  BY <1>1 DEF Taken, Visitor, Frame
<1> HIDE DEF v, m
<1>3. /\ IsSeq(v.kids) /\ v.regs \in Seq(Nat) /\ Aside(v, f.regs)
      /\ DOMAIN v = {"node", "op", "name", "kind", "need", "kids", "regs"}
  BY <1>1 DEF Visitor, Frame
<1>4. /\ Len(v.kids) \in Nat /\ DOMAIN v.kids = 1 .. Len(v.kids)
      /\ DOMAIN kids = 1 .. Len(v.kids) + 1
      /\ kids[Len(v.kids) + 1] = tree /\ \A i \in 1 .. Len(v.kids) : kids[i] = v.kids[i]
  BY <1>3, AppendSeq
<1>5. ASSUME v.node # "array"
      PROVE  /\ Len(v.regs) \in Nat /\ DOMAIN v.regs = 1 .. Len(v.regs)
             /\ DOMAIN regs = 1 .. Len(v.regs) + 1 /\ regs[Len(v.regs) + 1] = r
             /\ \A i \in DOMAIN v.regs : regs[i] = v.regs[i]
  BY <1>3, <1>5
<1>6. /\ w.node = v.node /\ w.kind = v.kind /\ w.need = v.need
      /\ w.name = v.name /\ w.op = v.op /\ w.kids = kids /\ w.regs = regs
  BY <1>3
<1>7. v.node = "array" => regs = v.regs
  OBVIOUS
<1> HIDE DEF kids, regs, w
<1>8. Accepted(w) = Accepted(v)
  BY <1>6 DEF Accepted
<1>9. ASSUME v.node \notin Droppers
      PROVE  /\ tree.kind \in Accepted(v) /\ tree.kind \in {"int", "text", "array"}
             /\ Has(f, r, TypeFor(tree.kind))
  BY <1>1, <1>9, AcceptedKinds DEF Goes, Valued
<1>10. Filled(f, n, w)
  <2>1. w.node = "call" => Callee(w.name, w.need, n)
    BY <1>1, <1>6 DEF Filled
  <2>2. ASSUME w.node = "let"
        PROVE  Has(f, w.regs[1], "ptr") /\ \A i \in DOMAIN w.kids : w.kids[i].kind = "int"
    <3>1. v.node = "let" /\ v.node \notin Droppers /\ v.node # "array" /\ Len(v.regs) = Len(v.kids) + 1
      BY <1>3, <1>6, <2>2 DEF Droppers, Aside
    <3>2. 1 \in DOMAIN v.regs
      BY <1>4, <1>5, <3>1
    <3>3. w.regs[1] = v.regs[1]
      BY <1>5, <1>6, <3>1, <3>2
    <3>4. tree.kind = "int"
      BY <1>9, <3>1, AcceptedKinds
    <3>5. \A i \in DOMAIN v.kids : v.kids[i].kind = "int"
      BY <1>1, <3>1 DEF Filled
    <3>6. ASSUME NEW i \in DOMAIN w.kids PROVE w.kids[i].kind = "int"
      <4>1. i \in DOMAIN v.kids \/ i = Len(v.kids) + 1
        BY <1>4, <1>6
      <4> QED BY <1>4, <1>6, <3>4, <3>5, <4>1
    <3> QED BY <1>1, <3>1, <3>3, <3>6 DEF Filled
  <2>3. w.node = "array" => \A i \in DOMAIN w.regs : Has(f, w.regs[i], "ptr")
    BY <1>1, <1>6, <1>7 DEF Filled
  <2>4. ASSUME w.node \notin Droppers \cup {"let", "array"}, NEW i \in DOMAIN w.regs
        PROVE  \E kind \in Accepted(w) : Has(f, w.regs[i], TypeFor(kind))
    <3>1. v.node # "array" /\ v.node \notin Droppers /\ v.node # "let"
      BY <1>6, <2>4
    <3>2. CASE i \in DOMAIN v.regs
      <4>1. w.regs[i] = v.regs[i]
        BY <1>5, <1>6, <3>1, <3>2
      <4> QED BY <1>1, <1>8, <3>1, <3>2, <4>1 DEF Filled
    <3>3. CASE i = Len(v.regs) + 1
      <4>1. w.regs[i] = r
        BY <1>5, <1>6, <3>1, <3>3
      <4> QED BY <1>8, <1>9, <3>1, <4>1
    <3>4. i \in DOMAIN v.regs \/ i = Len(v.regs) + 1
      BY <1>5, <1>6, <3>1
    <3> QED BY <3>2, <3>3, <3>4
  <2>5. /\ IF w.node = "array" THEN w.kind = "array" ELSE w.kind \notin {"text", "array"}
        /\ w.node = "unary" /\ w.op = "&" => w.kind = "address"
    BY <1>1, <1>6 DEF Filled
  <2> QED BY <2>1, <2>2, <2>3, <2>4, <2>5 DEF Filled
<1>11. Frames(f, n, Taken(vs, tree, r))
  <2>1. w.kind = vs[Len(vs)].kind
    BY <1>6 DEF v, m
  <2>2. Frames(f, n, [vs EXCEPT ![Len(vs)] = w])
    BY <1>10, <2>1, AdvanceFrames
  <2> QED BY <1>2, <2>2 DEF m
<1>12. Returning(f, Taken(vs, tree, r), r)
  <2> DEFINE t == [vs EXCEPT ![m] = w]
  <2>1. t[Len(t)] = w
    <3>1. IsSeq(vs) /\ m = Len(vs)
      BY DEF Stack, m
    <3>2. Len(t) = Len(vs) /\ t[m] = w
      BY <1>1, <3>1, ReplaceSeq
    <3> QED BY <3>1, <3>2
  <2> HIDE DEF t
  <2>2. ASSUME w.node = "return" PROVE Has(f, r, "i64")
    <3>1. v.node \notin Droppers /\ v.node = "return"
      BY <1>6, <2>2 DEF Droppers
    <3>2. tree.kind = "int"
      BY <1>9, <3>1, AcceptedKinds
    <3> QED BY <1>9, <3>1, <3>2 DEF TypeFor
  <2> QED BY <1>2, <2>1, <2>2 DEF Returning, t
<1> QED BY <1>11, <1>12

(***************************************************************************)
(* What the visitors have in common.                                       *)
(***************************************************************************)
LEMMA Unextended ==
  ASSUME Supported
  PROVE  /\ Lang \cap Kinds = {} /\ EmptyArraysDropped
         /\ Lang \cap {"forward", "builtins", "indirect", "printargs", "overargs", "empty"} = {}
<1>1. Lang \subseteq {"eager", "target", "narrow"}
  BY DEF Supported
<1>2. Lang \cap Kinds = {}
  BY <1>1 DEF Kinds
<1>3. EmptyArraysDropped
  BY <1>1 DEF EmptyArraysDropped
<1> QED BY <1>1, <1>2, <1>3

LEMMA Running ==
  ASSUME IInv, KInv, visits # <<>>
  PROVE  /\ fn.name # "" /\ ~Returned /\ Open(fn) /\ Sound(fn) /\ fn.regs \in Nat
         /\ Tidy(fn, Len(done) + 1) /\ Stack(visits, fn.regs) /\ Frames(fn, Len(done) + 1, visits)
         /\ Top = visits[Len(visits)] /\ Filled(fn, Len(done) + 1, Top)
         /\ \A x \in DOMAIN slots : Has(fn, slots[x], "ptr")
         /\ \A x \in DOMAIN scope : scope[x] = "int"
<1>1. fn.name # ""
  BY DEF IInv, Current
<1>2. ~Returned /\ Open(fn)
  BY <1>1 DEF KInv, Active
<1>4. Stack(visits, fn.regs) /\ Frames(fn, Len(done) + 1, visits)
  BY <1>1, Facts DEF KInv, Active
<1>5. Len(visits) \in Nat \ {0} /\ DOMAIN visits = 1 .. Len(visits)
  BY <1>4, StackShape
<1>3. Stack(visits, fn.regs) /\ Frames(fn, Len(done) + 1, visits) /\ Len(visits) \in DOMAIN visits
  BY <1>4, <1>5
<1> QED BY <1>1, <1>2, <1>3, Facts DEF KInv, Active, Frames, Top

\* A step inside an expression, which emits what it likes.
LEMMA EvalStep ==
  ASSUME IInv, KInv, visits # <<>>, NEW g, fn' = g, Tidy(g, Len(done) + 1), Extends(fn, g), Open(g),
         pool' = pool, decls' = decls, done' = done, slots' = slots, scope' = scope,
         Frames(g, Len(done) + 1, visits'), Returning(g, visits', last')
  PROVE  KInv'
<1>1. /\ fn.name # "" /\ ~Returned /\ g.body = fn.body /\ g.name = fn.name /\ g.params = fn.params
      /\ \A x \in DOMAIN slots : Has(fn, slots[x], "ptr")
      /\ \A x \in DOMAIN scope : scope[x] = "int"
  BY Running DEF Extends
<1>2. Visited'
  BY <1>1 DEF KInv, Visited
<1>3. Compiled'
  BY DEF KInv, Compiled, Tidy, Proper, Callee
<1>4. ~Returned'
  BY <1>1 DEF Returned
<1>5. \A x \in DOMAIN slots : Has(g, slots[x], "ptr")
  BY <1>1 DEF Extends
<1>6. Tidy(g, Len(done) + 1)' /\ Frames(g, Len(done) + 1, visits)'
  BY DEF Tidy, Proper, Frames, Filled, Callee
<1>7. Active'
  BY <1>1, <1>4, <1>5, <1>6 DEF Active
<1> QED BY <1>2, <1>3, <1>7 DEF KInv

\* An expression goes where its kind fits.
LEMMA FitsGoes ==
  ASSUME Supported, NEW node, NEW kind \in Kinds, NEW m, Visiting(node, kind, m)
  PROVE  visits # <<>> /\ Goes(Top, kind) /\ Awaits(Top)
<1>1. Fits(kind) /\ visits # <<>> /\ Awaits(Top)
  BY DEF Visiting, Expects, Awaits
<1>2. kind \notin Lang
  BY Unextended
<1> QED BY <1>1, <1>2 DEF Fits, Goes, Accepted, Droppers, Printers

LEMMA SuspendTyped ==
  ASSUME IInv, KInv, Supported, NEW node, NEW kind \in Kinds, NEW m, Visiting(node, kind, m),
         NEW f, f.kind = kind, f.kids = <<>>, Filled(fn, Len(done) + 1, f), Suspend(f)
  PROVE  KInv'
<1>1. /\ visits # <<>> /\ Goes(visits[Len(visits)], f.kind)
      /\ Open(fn) /\ Tidy(fn, Len(done) + 1) /\ Stack(visits, fn.regs)
      /\ Frames(fn, Len(done) + 1, visits) /\ fn.regs \in Nat
  BY FitsGoes, Running
<1>2. fn' = fn /\ visits' = Append(visits, f)
  BY DEF Suspend
<1>3. pool' = pool /\ decls' = decls /\ done' = done /\ slots' = slots /\ scope' = scope
  BY DEF Visiting
<1>4. Frames(fn, Len(done) + 1, visits')
  BY <1>1, <1>2, PushFrames
<1>5. visits'[Len(visits')] = f
  <2> DEFINE t == Append(visits, f)
  <2>1. IsSeq(visits)
    BY <1>1 DEF Stack
  <2>2. Len(t) = Len(visits) + 1 /\ t[Len(visits) + 1] = f
    BY <2>1, AppendSeq
  <2>3. visits' = t
    BY <1>2
  <2> HIDE DEF t
  <2> QED BY <2>2, <2>3
<1>6. Returning(fn, visits', last')
  BY <1>5 DEF Returning
<1>7. Extends(fn, fn)
  BY <1>1 DEF Extends
<1> QED BY <1>1, <1>2, <1>3, <1>4, <1>6, <1>7, EvalStep

LEMMA LeafTyped ==
  ASSUME IInv, KInv, Supported, NEW node, NEW kind \in Kinds, NEW m, Visiting(node, kind, m),
         NEW f, Sound(f), Tidy(f, Len(done) + 1), Extends(fn, f), Open(f),
         NEW r, Valued(f, r, kind), NEW tree, tree.kind = kind, Leaf(f, r, tree)
  PROVE  KInv'
<1>1. /\ visits # <<>> /\ Goes(visits[Len(visits)], kind) /\ Awaits(visits[Len(visits)])
      /\ Stack(visits, fn.regs) /\ Frames(fn, Len(done) + 1, visits) /\ fn.regs \in Nat
  BY FitsGoes, Running
<1>2. fn' = f /\ visits' = Taken(visits, tree, r) /\ last' = r
  BY DEF Leaf
<1>3. pool' = pool /\ decls' = decls /\ done' = done /\ slots' = slots /\ scope' = scope
  BY DEF Visiting
<1>4. Stack(visits, f.regs) /\ Frames(f, Len(done) + 1, visits)
  <2>1. f.regs \in Nat /\ fn.regs <= f.regs
    BY DEF Sound, Typed, Extends
  <2> QED BY <1>1, <2>1, WidenStack, FramesKept
<1>5. Frames(f, Len(done) + 1, visits') /\ Returning(f, visits', last')
  BY <1>1, <1>2, <1>4, TakenFrames
<1> QED BY <1>1, <1>2, <1>3, <1>5, EvalStep

LEMMA ResultTyped ==
  ASSUME IInv, KInv, Supported, NEW node, node \notin Statements, Lowering(node),
         NEW f, Sound(f), Tidy(f, Len(done) + 1), Extends(fn, f), Open(f),
         NEW r, Valued(f, r, Top.kind) \/ (Top.node = "array" /\ Top.need = 0), Result(f, r)
  PROVE  KInv'
<1>1. Complete /\ Top.node = node /\ visits # <<>>
  BY DEF Lowering, Complete
<1>2. /\ Top = visits[Len(visits)] /\ Stack(visits, fn.regs)
      /\ Frames(fn, Len(done) + 1, visits) /\ fn.regs \in Nat
  BY <1>1, Running
<1>3. fn' = f /\ visits' = Taken(Pop, Tree(Top), r) /\ last' = r
  BY DEF Result
<1>4. pool' = pool /\ decls' = decls /\ done' = done /\ slots' = slots /\ scope' = scope
  BY DEF Lowering
<1>5. Stack(visits, f.regs) /\ Frames(f, Len(done) + 1, visits)
  <2>1. f.regs \in Nat /\ fn.regs <= f.regs
    BY DEF Sound, Typed, Extends
  <2> QED BY <1>2, <2>1, WidenStack, FramesKept
<1>6. Stack(Pop, f.regs) /\ Pop # <<>> /\ Operand(Pop[Len(Pop)], Top)
  BY <1>1, <1>2, <1>5, PopStack DEF Pop
<1>7. Frames(f, Len(done) + 1, Pop) /\ Goes(Pop[Len(Pop)], Top.kind)
  BY <1>1, <1>2, <1>5, PopFrames DEF Pop
<1>8. Tree(Top).kind = Top.kind
  BY DEF Tree, Node
<1>9. Pop[Len(Pop)].node \notin Droppers => Valued(f, r, Tree(Top).kind)
  BY <1>6, <1>8 DEF Operand
<1>10. Awaits(Pop[Len(Pop)]) /\ Goes(Pop[Len(Pop)], Tree(Top).kind)
  BY <1>6, <1>7, <1>8 DEF Operand
<1>11. Frames(f, Len(done) + 1, visits') /\ Returning(f, visits', last')
  <2> DEFINE vs == Pop
             tree == Tree(Top)
  <2>1. visits' = Taken(vs, tree, r) /\ last' = r
    BY <1>3
  <2>2. Stack(vs, f.regs) /\ vs # <<>> /\ Frames(f, Len(done) + 1, vs)
        /\ Awaits(vs[Len(vs)]) /\ Goes(vs[Len(vs)], tree.kind)
    BY <1>6, <1>7, <1>10
  <2>3. vs[Len(vs)].node \notin Droppers => Valued(f, r, tree.kind)
    BY <1>9
  <2> HIDE DEF vs, tree
  <2> QED BY <2>1, <2>2, <2>3, TakenFrames
<1> QED BY <1>1, <1>3, <1>4, <1>11, EvalStep

\* An instruction on the operands put aside, whose value is of the node's kind.
LEMMA ResultOfTyped ==
  ASSUME IInv, KInv, Supported, NEW node, node \notin Statements, Lowering(node),
         NEW op \in Opcodes, NEW args \in Seq(Nat), NEW sym \in Names,
         \A a \in DOMAIN args : args[a] \in 1 .. fn.regs, op \notin {"param", "block"},
         Proper(fn, Len(done) + 1, Instr(op, fn.regs + 1, args, sym, "")),
         Top.kind \in {"int", "text", "array"} =>
           TypeOf(Instr(op, fn.regs + 1, args, sym, "")) = TypeFor(Top.kind),
         ResultOf(op, args, sym)
  PROVE  KInv'
<1> DEFINE f == Value(fn, op, args, sym, "")
<1>1. visits # <<>> /\ "" \in Immediates
  BY Facts DEF Lowering, Complete, Immediates
<1>2. Sound(fn) /\ Tidy(fn, Len(done) + 1) /\ Open(fn)
  BY <1>1, Running
<1>3. /\ Sound(f) /\ Tidy(f, Len(done) + 1) /\ Extends(fn, f) /\ Open(f)
      /\ Has(f, fn.regs + 1, TypeOf(Instr(op, fn.regs + 1, args, sym, "")))
  BY <1>1, <1>2, ValueTidy
<1>4. Result(f, fn.regs + 1)
  BY DEF ResultOf
<1> HIDE DEF f
<1>5. Valued(f, fn.regs + 1, Top.kind)
  BY <1>3 DEF Valued
<1> QED BY <1>3, <1>4, <1>5, ResultTyped

(***************************************************************************)
(* Leaves.                                                                 *)
(***************************************************************************)
LEMMA PlainProper ==
  ASSUME NEW f, NEW n, NEW op \in {"copy", "load", "alloca", "block", "ret"}, NEW d, NEW sym, NEW imm
  PROVE  Proper(f, n, Instr(op, d, <<>>, sym, imm))
<1> DEFINE none == <<>>
           i == Instr(op, d, none, sym, imm)
<1>1. i.op = op /\ i.args = none /\ none = <<>>
  BY DEF Instr
<1>2. DOMAIN none = {}
  BY NoneSeq
<1> HIDE DEF none, i
<1>3. Proper(f, n, i)
  BY <1>1, <1>2 DEF Proper
<1> QED BY <1>3 DEF i, none

LEMMA LiteralTyped ==
  ASSUME IInv, KInv, Supported, NEW l \in pool.literals, VisitLiteral(l)
  PROVE  KInv'
<1> DEFINE i == Instr("copy", fn.regs + 1, <<>>, l.text, l.imm)
           f == Value(fn, "copy", <<>>, l.text, l.imm)
           tree == Node("literal", "", l.text, <<>>, l.kind)
<1>1. /\ "copy" \in Opcodes /\ l.text \in Names /\ l.imm \in Immediates /\ l.kind \in Kinds
      /\ pool \in Pools
  BY Facts, NamesKnown, OperatorsKnown
<1>2. Visiting("literal", l.kind, 0) /\ Leaf(f, fn.regs + 1, tree) /\ visits # <<>>
  BY DEF VisitLiteral, Visiting, Expects
<1>3. Sound(fn) /\ Tidy(fn, Len(done) + 1) /\ Open(fn)
  BY <1>2, Running
<1>4. Proper(fn, Len(done) + 1, i)
  BY PlainProper
<1>5. TypeOf(i) = ImmType(l.imm)
  BY DEF TypeOf, Instr
<1>6. /\ Sound(f) /\ Tidy(f, Len(done) + 1) /\ Extends(fn, f) /\ Open(f)
      /\ Has(f, fn.regs + 1, TypeOf(i))
  BY <1>1, <1>3, <1>4, NoArgs, ValueTidy
<1>7. /\ l.kind \in {"int", "text", "real"}
      /\ l.kind = "int" => ImmType(l.imm) = "i64"
      /\ l.kind = "text" => ImmType(l.imm) = "ptr"
  BY <1>1 DEF Supported
<1> HIDE DEF i, f
<1>8. Valued(f, fn.regs + 1, l.kind)
  BY <1>5, <1>6, <1>7 DEF Valued, TypeFor
<1>9. tree.kind = l.kind
  BY DEF Node
<1> HIDE DEF tree
<1> QED BY <1>1, <1>2, <1>6, <1>8, <1>9, LeafTyped

LEMMA LoadTyped ==
  ASSUME IInv, KInv, visits # <<>>, NEW x \in Names, x \notin Bare
  PROVE  /\ Sound(LoadOf(x)) /\ Tidy(LoadOf(x), Len(done) + 1) /\ Extends(fn, LoadOf(x))
         /\ Open(LoadOf(x)) /\ Has(LoadOf(x), fn.regs + 1, "i64")
<1>1. /\ Sound(fn) /\ Tidy(fn, Len(done) + 1) /\ Open(fn) /\ fn.regs \in Nat
      /\ "load" \in Opcodes /\ "" \in Names /\ "" \in Immediates
  BY Running, Facts, NamesKnown, OperatorsKnown
<1>2. CASE x \in DOMAIN slots
  <2> DEFINE args == <<slots[x]>>
             i == Instr("load", fn.regs + 1, args, "", "")
  <2>1. slots[x] \in 1 .. fn.regs /\ Has(fn, slots[x], "ptr")
    BY <1>2, Running DEF IInv, Current
  <2>2. args \in Seq(Nat) /\ \A a \in DOMAIN args : args[a] \in 1 .. fn.regs
    BY <1>1, <2>1, OneArg
  <2>3. i.op = "load" /\ i.args[1] = slots[x] /\ TypeOf(i) = "i64"
    BY DEF Instr, TypeOf
  <2>4. Proper(fn, Len(done) + 1, i)
    <3> HIDE DEF i, args
    <3> QED BY <2>1, <2>3 DEF Proper
  <2>5. LoadOf(x) = Value(fn, "load", args, "", "")
    BY <1>2 DEF LoadOf
  <2> HIDE DEF args
  <2> QED BY <1>1, <2>2, <2>3, <2>4, <2>5, ValueTidy
<1>3. CASE x \notin DOMAIN slots
  <2> DEFINE g == Value(fn, "load", <<>>, x, "")
             i == Instr("load", fn.regs + 1, <<>>, x, "")
  <2>1. TypeOf(i) = "i64"
    BY DEF Instr, TypeOf
  <2>2. Proper(fn, Len(done) + 1, i)
    BY PlainProper
  <2>3. LoadOf(x) = g
    BY <1>3 DEF LoadOf
  <2>4. Sound(g) /\ Tidy(g, Len(done) + 1) /\ Extends(fn, g) /\ Open(g) /\ Has(g, fn.regs + 1, TypeOf(i))
    BY <1>1, <2>2, NoArgs, ValueTidy
  <2> HIDE DEF g, i
  <2> QED BY <2>1, <2>3, <2>4
<1> QED BY <1>2, <1>3

LEMMA Unexiting ==
  ASSUME IInv, Supported
  PROVE  /\ \A x \in pool.names : x \notin Bare
         /\ \A x \in Declared \cup pool.imports : x \notin Bare
<1>1. pool \in Pools
  BY Facts
<1>2. \A d \in InSeq(pool.module) : d.name \notin Builtins
  BY <1>1 DEF Supported
<1>3. (pool.names \cup pool.imports) \cap Bare = {}
  BY <1>1 DEF Supported
<1>4. Bare \subseteq Builtins
  BY DEF Bare, Builtins
<1>5. \A x \in Declared : x \notin Bare
  BY <1>2, <1>4 DEF Declared
<1> QED BY <1>3, <1>5

LEMMA NamesTyped ==
  ASSUME IInv, KInv, Supported,
         \/ \E x \in pool.names : VisitVariable(x)
         \/ \E x \in Declared \cup pool.imports : VisitSymbol(x)
  PROVE  KInv'
<1>1. ASSUME NEW x, NEW node, NEW kind \in Kinds, kind \notin {"text", "array"}, x \in Names, x \notin Bare,
             Visiting(node, kind, 0), NEW tree, tree.kind = kind, Leaf(LoadOf(x), fn.regs + 1, tree)
      PROVE  KInv'
  <2>1. visits # <<>>
    BY <1>1 DEF Visiting, Expects
  <2>2. /\ Sound(LoadOf(x)) /\ Tidy(LoadOf(x), Len(done) + 1) /\ Extends(fn, LoadOf(x))
        /\ Open(LoadOf(x)) /\ Has(LoadOf(x), fn.regs + 1, "i64")
    BY <1>1, <2>1, LoadTyped
  <2>3. Valued(LoadOf(x), fn.regs + 1, kind)
    BY <1>1, <2>2 DEF Valued, TypeFor
  <2> QED BY <1>1, <2>2, <2>3, LeafTyped
<1>2. ASSUME NEW x \in pool.names, VisitVariable(x) PROVE KInv'
  <2>1. /\ Visiting("ident", scope[x], 0) /\ x \in DOMAIN scope /\ visits # <<>>
        /\ Leaf(LoadOf(x), fn.regs + 1, Node("ident", "", x, <<>>, scope[x]))
    BY <1>2 DEF VisitVariable, Visiting, Expects
  <2>2. scope[x] = "int" /\ x \in Names /\ x \notin Bare
    BY <2>1, Running, Facts, NamesKnown, Unexiting
  <2>3. Node("ident", "", x, <<>>, scope[x]).kind = "int" /\ "int" \in Kinds
    BY <2>2 DEF Node, Kinds
  <2> QED BY <1>1, <2>1, <2>2, <2>3
<1>3. ASSUME NEW x \in Declared \cup pool.imports, VisitSymbol(x) PROVE KInv'
  <2>1. /\ Visiting("symbol", "symbol", 0)
        /\ Leaf(LoadOf(x), fn.regs + 1, Node("symbol", "", x, <<>>, "symbol"))
    BY <1>3 DEF VisitSymbol
  <2>2. x \in Names /\ x \notin Bare
    BY Facts, NamesKnown, Unexiting
  <2>3. Node("symbol", "", x, <<>>, "symbol").kind = "symbol" /\ "symbol" \in Kinds
    BY DEF Node, Kinds
  <2> QED BY <1>1, <2>1, <2>2, <2>3
<1> QED BY <1>2, <1>3

LEMMA BareTyped ==
  ASSUME IInv, KInv, Supported, NEW x \in Bare, VisitBare(x)
  PROVE  KInv'
<1> DEFINE args == <<>>
           i == Instr("call", fn.regs + 1, args, x, "")
           f == Value(fn, "call", args, x, "")
           tree == Node("call", "", x, <<>>, "none")
<1>1. "call" \in Opcodes /\ x \in Names /\ "" \in Immediates
  BY Facts, NamesKnown, OperatorsKnown DEF Bare, Builtins
<1>2. Visiting("bare", "none", 0) /\ Leaf(f, fn.regs + 1, tree) /\ visits # <<>>
  BY DEF VisitBare, LoadOf, Visiting, Expects
<1>3. Sound(fn) /\ Tidy(fn, Len(done) + 1) /\ Open(fn)
  BY <1>2, Running
<1>4. i.op = "call" /\ i.args = args /\ i.sym = x /\ DOMAIN args = {} /\ Len(args) = 0
  BY NoneSeq DEF Instr
<1>5. args \in Seq(Nat) /\ \A a \in DOMAIN args : args[a] \in 1 .. fn.regs
  BY NoArgs
<1>6. Proper(fn, Len(done) + 1, i)
  <2> HIDE DEF i, args
  <2>1. Callee(i.sym, Len(i.args), Len(done) + 1)
    BY <1>4 DEF Callee
  <2> QED BY <1>4, <2>1 DEF Proper
<1> HIDE DEF args
<1>7. Sound(f) /\ Tidy(f, Len(done) + 1) /\ Extends(fn, f) /\ Open(f)
  BY <1>1, <1>3, <1>5, <1>6, ValueTidy
<1>8. "none" \in Kinds /\ tree.kind = "none"
  BY DEF Kinds, Node
<1>9. Valued(f, fn.regs + 1, "none")
  BY DEF Valued
<1> HIDE DEF f, tree
<1> QED BY <1>2, <1>7, <1>8, <1>9, LeafTyped

(***************************************************************************)
(* Visitors with operands.                                                 *)
(***************************************************************************)
LEMMA FreshTyped ==
  ASSUME IInv, KInv, Supported, NEW v, NEW kind \in Kinds, NEW m, Visiting(v, kind, m),
         NEW node, NEW op, NEW name, NEW need, node # "let",
         IF node = "array" THEN kind = "array" ELSE kind \notin {"text", "array"},
         node = "unary" /\ op = "&" => kind = "address",
         node = "call" => Callee(name, need, Len(done) + 1),
         Suspend(Frame(node, op, name, kind, need))
  PROVE  KInv'
<1> DEFINE f == Frame(node, op, name, kind, need)
<1>1. /\ f.node = node /\ f.kind = kind /\ f.need = need /\ f.name = name /\ f.op = op
      /\ f.kids = <<>> /\ f.regs = <<>> /\ Suspend(f)
  BY DEF Frame
<1> HIDE DEF f
<1>2. DOMAIN f.regs = {}
  BY <1>1, NoneSeq
<1>3. Filled(fn, Len(done) + 1, f)
  BY <1>1, <1>2 DEF Filled
<1> QED BY <1>1, <1>3, SuspendTyped

LEMMA VisitsTyped ==
  ASSUME IInv, KInv, Supported,
         \/ \E o \in Binaries : VisitBinary(o)
         \/ \E o \in {"-", "!", "~", "*", "&"} : VisitUnary(o)
         \/ \E m \in pool.members : VisitMember(m)
         \/ VisitIndex
         \/ \E o \in {"", "narrow"} : VisitCast(o)
         \/ \E n \in 0 .. Len(Element) : VisitArray(n)
  PROVE  KInv'
<1>0. {"int", "opaque", "array", "address"} \subseteq Kinds
  BY DEF Kinds
<1>1. ASSUME NEW o \in Binaries, VisitBinary(o) PROVE KInv'
  <2>1. Visiting("binary", "int", 2) /\ Suspend(Frame("binary", o, "", "int", 2))
    BY <1>1 DEF VisitBinary
  <2> QED BY <1>0, <2>1, FreshTyped
<1>2. ASSUME NEW o \in {"-", "!", "~", "*", "&"}, VisitUnary(o) PROVE KInv'
  <2> DEFINE kind == IF o = "&" THEN "address" ELSE "int"
  <2>1. Visiting("unary", kind, 1) /\ Suspend(Frame("unary", o, "", kind, 1))
    BY <1>2 DEF VisitUnary
  <2>2. kind \in Kinds /\ kind \notin {"text", "array"} /\ (o = "&" => kind = "address")
    BY <1>0
  <2> HIDE DEF kind
  <2> QED BY <2>1, <2>2, FreshTyped
<1>3. ASSUME NEW m \in pool.members, VisitMember(m) PROVE KInv'
  <2>1. Visiting("member", "opaque", 1) /\ Suspend(Frame("member", "", m, "opaque", 1))
    BY <1>3 DEF VisitMember
  <2> QED BY <1>0, <2>1, FreshTyped
<1>4. CASE VisitIndex
  <2>1. Visiting("index", "opaque", 2) /\ Suspend(Frame("index", "", "", "opaque", 2))
    BY <1>4 DEF VisitIndex
  <2> QED BY <1>0, <2>1, FreshTyped
<1>5. ASSUME NEW o \in {"", "narrow"}, VisitCast(o) PROVE KInv'
  <2>1. Visiting("cast", "int", 1) /\ Suspend(Frame("cast", o, "", "int", 1))
    BY <1>5 DEF VisitCast
  <2> QED BY <1>0, <2>1, FreshTyped
<1>6. ASSUME NEW n \in 0 .. Len(Element), VisitArray(n) PROVE KInv'
  <2>1. Visiting("array", "array", n) /\ Suspend(Frame("array", "", "", "array", n))
    BY <1>6 DEF VisitArray
  <2> QED BY <1>0, <2>1, FreshTyped
<1> QED BY <1>1, <1>2, <1>3, <1>4, <1>5, <1>6

\* A call is of a function visited so far, or of a builtin that is lowered.
LEMMA CallTyped ==
  ASSUME IInv, KInv, Supported, NEW x \in Declared \cup Builtins \cup {Indirect}, NEW n \in 0 .. 2,
         VisitCall(x, n)
  PROVE  KInv'
<1> DEFINE kind == ResultKind(x)
<1>1. Visiting("call", kind, n) /\ Suspend(Frame("call", "", x, kind, n)) /\ Callable(x, n)
  BY DEF VisitCall
<1>2. kind \in Kinds /\ kind \notin {"text", "array"}
  BY DEF ResultKind, Kinds
<1>3. ASSUME x \in Declared, ~(Header(x) > Len(done) + 1), n = Len(pool.module[Header(x)].params)
      PROVE  Callee(x, n, Len(done) + 1)
  <2>1. IsSeq(pool.module) /\ IsSeq(done)
    BY Facts, PoolsAssumption DEF IInv, Fixed
  <2>2. \E i \in DOMAIN pool.module : pool.module[i].name = x
    BY <1>3 DEF Declared, InSeq
  <2>3. Header(x) \in DOMAIN pool.module /\ pool.module[Header(x)].name = x
    BY <2>2 DEF Header
  <2>4. DOMAIN pool.module = 1 .. Len(pool.module) /\ Len(pool.module) \in Nat /\ Len(done) \in Nat
    BY <2>1, AppendSeq
  <2> DEFINE h == Header(x)
  <2>5. h \in 1 .. Len(done) + 1
    <3>1. h \in 1 .. Len(pool.module) /\ ~(h > Len(done) + 1)
      BY <1>3, <2>3, <2>4
    <3> HIDE DEF h
    <3> QED BY <2>4, <3>1
  <2> QED BY <1>3, <2>3, <2>5 DEF Callee
<1>4. Callee(x, n, Len(done) + 1)
  <2>1. \/ x \in Declared /\ ~(Header(x) > Len(done) + 1) /\ n = Len(pool.module[Header(x)].params)
        \/ x \in {"print", "println"} /\ n = 1
        \/ x \in {"exit", "escape", "wait"} /\ n <= 1
    BY <1>1, Unextended DEF Callable
  <2> QED BY <1>3, <2>1 DEF Callee, Printers, Bare
<1> HIDE DEF kind
<1> QED BY <1>1, <1>2, <1>4, FreshTyped

LEMMA AssignTyped ==
  ASSUME IInv, KInv, Supported, NEW o \in Compounds \cup {"="}, NEW x \in pool.names \cup {NoName},
         VisitAssign(o, x)
  PROVE  KInv'
<1> DEFINE need == IF o = "=" THEN 1 ELSE 2
           f == Frame("assign", o, x, "int", need)
<1>1. x \in Names
  <2>1. NoName \in Names
    BY DEF NoName, Names
  <2> QED BY <2>1, Facts, NamesKnown
<1>2. "int" \in Kinds
  BY DEF Kinds
<1>3. /\ f.node = "assign" /\ f.op = o /\ f.need = need /\ f.kids = <<>> /\ f.kind = "int"
      /\ f.regs = <<>> /\ f.name = x
  BY DEF Frame
<1>4. CASE o = "=" \/ x = NoName
  <2>1. Visiting("assign", "int", need) /\ Suspend(Frame("assign", o, x, "int", need))
    BY <1>3, <1>4 DEF VisitAssign
  <2> HIDE DEF need, f
  <2> QED BY <1>2, <2>1, FreshTyped
<1>5. CASE ~(o = "=" \/ x = NoName)
  <2> DEFINE r == fn.regs + 1
             g == LoadOf(x)
             tree == Node("ident", "", x, <<>>, scope[x])
             vs == Append(visits, f)
             n == Len(done) + 1
  <2>1. /\ Visiting("assign", "int", 1) /\ fn' = g /\ last' = r
        /\ visits' = Taken(vs, tree, r) /\ x \in DOMAIN scope
    BY <1>5 DEF VisitAssign
  <2>2. /\ visits # <<>> /\ Goes(visits[Len(visits)], "int") /\ Awaits(visits[Len(visits)])
        /\ Stack(visits, fn.regs) /\ Frames(fn, n, visits) /\ fn.regs \in Nat /\ scope[x] = "int"
    BY <1>2, <2>1, FitsGoes, Running
  <2>3. /\ Sound(g) /\ Tidy(g, n) /\ Extends(fn, g) /\ Open(g) /\ Has(g, r, "i64")
    BY <1>1, <1>5, <2>2, LoadTyped, Unexiting
  <2>4. g.regs \in Nat /\ fn.regs <= g.regs
    BY <2>3 DEF Sound, Typed, Extends
  <2> HIDE DEF g
  <2>5. Stack(visits, g.regs) /\ Frames(g, n, visits)
    BY <2>2, <2>3, <2>4, WidenStack, FramesKept
  <2>6. Filled(g, n, f)
    <3>1. DOMAIN f.regs = {}
      BY <1>3, NoneSeq
    <3> HIDE DEF f
    <3> QED BY <1>3, <3>1 DEF Filled
  <2>7. Visitor(f, g.regs)
    <3>1. need \in Nat /\ need >= 1 /\ (o # "=" => need = 2)
      OBVIOUS
    <3>2. Arity(f)
      <4> HIDE DEF f, need
      <4> QED BY <1>3, <3>1 DEF Arity, Statements
    <3>3. "assign" # "let"
      OBVIOUS
    <3> HIDE DEF need
    <3> QED BY <1>1, <3>1, <3>2, <3>3, FreshVisitor
  <2>8. Awaits(f) /\ f.node \notin Statements /\ f.node \notin Droppers
    <3>1. Len(f.kids) = 0 /\ f.need >= 1 /\ f.need \in Nat
      BY <1>3, NoneSeq
    <3> HIDE DEF f, need
    <3> QED BY <1>3, <3>1 DEF Awaits, Statements, Droppers
  <2> HIDE DEF f, need
  <2>9. Operand(visits[Len(visits)], f)
    BY <1>2, <1>3, <2>2 DEF Operand
  <2>10. Stack(vs, g.regs) /\ vs # <<>> /\ vs[Len(vs)] = f
    BY <2>2, <2>5, <2>7, <2>8, <2>9, PushStack
  <2>11. Frames(g, n, vs)
    BY <1>3, <2>2, <2>5, <2>6, PushFrames
  <2>12. tree.kind = "int"
    BY <2>2 DEF Node
  <2> HIDE DEF vs, tree
  <2>13. Goes(f, tree.kind)
    BY <1>3, <2>12 DEF Goes, Accepted
  <2>14. Valued(g, r, tree.kind)
    BY <2>3, <2>12 DEF Valued, TypeFor
  <2>15. Frames(g, n, visits') /\ Returning(g, visits', last')
    BY <2>1, <2>8, <2>10, <2>11, <2>13, <2>14, TakenFrames
  <2>16. pool' = pool /\ decls' = decls /\ done' = done /\ slots' = slots /\ scope' = scope
    BY <2>1 DEF Visiting
  <2> QED BY <2>1, <2>2, <2>3, <2>15, <2>16, EvalStep
<1> QED BY <1>4, <1>5

(***************************************************************************)
(* Visitors that go on after their last operand.                           *)
(***************************************************************************)
\* What a visitor that takes numbers has put aside.
LEMMA Numbers ==
  ASSUME IInv, KInv, Complete, Top.node \notin Droppers \cup {"let", "array"}
  PROVE  /\ Top.regs \in Seq(Nat) /\ Len(Top.regs) = Top.need /\ Top.need \in Nat /\ Arity(Top)
         /\ \A i \in DOMAIN Top.regs : Top.regs[i] \in 1 .. fn.regs
         /\ ~(Top.node = "unary" /\ Top.op = "*") /\ ~(Top.node = "call" /\ Top.name \in Printers) =>
              \A i \in DOMAIN Top.regs : Has(fn, Top.regs[i], "i64")
         /\ Top.node = "unary" /\ Top.op = "*" => \A i \in DOMAIN Top.regs : Has(fn, Top.regs[i], "ptr")
         /\ \A i \in DOMAIN Top.regs : Has(fn, Top.regs[i], "i64") \/ Has(fn, Top.regs[i], "ptr")
         /\ Top.kind \notin {"text", "array"}
<1>1. visits # <<>>
  BY DEF Complete
<1>2. Filled(fn, Len(done) + 1, Top)
  BY <1>1, Running
<1>3. \A i \in DOMAIN Top.regs : \E kind \in Accepted(Top) : Has(fn, Top.regs[i], TypeFor(kind))
  BY <1>2 DEF Filled
<1>4. /\ ~(Top.node = "unary" /\ Top.op = "*") /\ ~(Top.node = "call" /\ Top.name \in Printers) =>
           \A i \in DOMAIN Top.regs : Has(fn, Top.regs[i], "i64")
      /\ Top.node = "unary" /\ Top.op = "*" => \A i \in DOMAIN Top.regs : Has(fn, Top.regs[i], "ptr")
      /\ \A i \in DOMAIN Top.regs : Has(fn, Top.regs[i], "i64") \/ Has(fn, Top.regs[i], "ptr")
  BY <1>3 DEF Accepted, TypeFor
<1>5. Top.kind \notin {"text", "array"}
  BY <1>2 DEF Filled
<1> QED BY <1>4, <1>5, Completed

\* An operator on numbers.
LEMMA OperatorProper ==
  ASSUME NEW f, NEW n, NEW op, op \notin {"alloca", "param", "load", "store", "copy", "call", "ret", "block"},
         NEW args, args # <<>>, \A a \in DOMAIN args : Has(f, args[a], "i64"), NEW d, NEW sym, NEW imm
  PROVE  /\ Proper(f, n, Instr(op, d, args, sym, imm))
         /\ TypeOf(Instr(op, d, args, sym, imm)) = "i64"
<1> DEFINE i == Instr(op, d, args, sym, imm)
<1>1. i.op = op /\ i.args = args
  BY DEF Instr
<1> HIDE DEF i
<1> QED BY <1>1 DEF Proper, TypeOf, i

LEMMA OperatorsApart ==
  /\ \A o \in Binaries : binaryOpToOpcode(o) \notin {"alloca", "param", "load", "store", "copy", "call", "ret", "block"}
  /\ \A o \in {"-", "!", "~"} : unaryOpToOpcode(o) \notin {"alloca", "param", "load", "store", "copy", "call", "ret", "block"}
BY DEF binaryOpToOpcode, unaryOpToOpcode, Binaries, Arithmetic, Comparison, Logical, Bitwise

LEMMA BinaryTyped ==
  ASSUME IInv, KInv, Supported, LowerBinary
  PROVE  KInv'
<1> DEFINE op == binaryOpToOpcode(Top.op)
           args == <<Top.regs[1], Top.regs[2]>>
<1>1. Lowering("binary") /\ ResultOf(op, args, "") /\ Complete /\ Top.node = "binary"
  BY DEF LowerBinary, Lowering
<1>2. /\ Arity(Top) /\ Top.regs \in Seq(Nat) /\ Len(Top.regs) = Top.need
      /\ \A i \in DOMAIN Top.regs : Top.regs[i] \in 1 .. fn.regs
      /\ \A i \in DOMAIN Top.regs : Has(fn, Top.regs[i], "i64")
      /\ Top.kind \notin {"text", "array"}
  BY <1>1, Numbers DEF Droppers
<1>3. Top.need = 2 /\ op \in Opcodes /\ Top.op \in Binaries
  BY <1>1, <1>2, OperatorsKnown DEF Arity
<1>4. 1 \in DOMAIN Top.regs /\ 2 \in DOMAIN Top.regs
  BY <1>2, <1>3
<1>5. fn.regs \in Nat
  BY Facts
<1>6. args \in Seq(Nat) /\ \A a \in DOMAIN args : args[a] \in 1 .. fn.regs
  BY <1>2, <1>4, <1>5, TwoArgs
<1>7. args # <<>> /\ \A a \in DOMAIN args : Has(fn, args[a], "i64")
  BY <1>2, <1>4
<1>8. op \notin {"alloca", "param", "load", "store", "copy", "call", "ret", "block"}
  BY <1>3, OperatorsApart
<1>9. "binary" \notin Statements /\ "" \in Names
  BY KindsKnown DEF Names
<1> HIDE DEF op, args
<1>10. /\ Proper(fn, Len(done) + 1, Instr(op, fn.regs + 1, args, "", ""))
       /\ TypeOf(Instr(op, fn.regs + 1, args, "", "")) = "i64"
  BY <1>7, <1>8, OperatorProper
<1>11. Top.kind \in {"int", "text", "array"} => TypeFor(Top.kind) = "i64"
  BY <1>2 DEF TypeFor
<1> QED BY <1>1, <1>3, <1>6, <1>8, <1>9, <1>10, <1>11, ResultOfTyped

LEMMA Itself ==
  ASSUME NEW f, f.regs \in Nat
  PROVE  Extends(f, f)
BY DEF Extends

LEMMA UnaryTyped ==
  ASSUME IInv, KInv, Supported, LowerUnary
  PROVE  KInv'
<1> DEFINE v == Top.regs[1]
           args == <<v>>
<1>1. Lowering("unary") /\ Complete /\ Top.node = "unary" /\ visits # <<>>
  BY DEF LowerUnary, Lowering, Complete
<1>2. v \in 1 .. fn.regs /\ Arity(Top) /\ 1 \in DOMAIN Top.regs
  BY <1>1, FirstOperand
<1>3. /\ Top.op \in {"-", "!", "~", "*", "&"} /\ fn.regs \in Nat
      /\ "unary" \notin Statements /\ "" \in Names
      /\ Top.op = "*" => Has(fn, v, "ptr")
      /\ Top.op # "*" => Has(fn, v, "i64")
      /\ Top.kind \notin {"text", "array"}
      /\ "unary" \notin Droppers \cup {"let", "array"}
  BY <1>1, <1>2, Numbers, Facts, KindsKnown DEF Arity, Names, Droppers
<1>4. args \in Seq(Nat) /\ \A a \in DOMAIN args : args[a] \in 1 .. fn.regs
  BY <1>2, <1>3, OneArg
<1>5. args # <<>> /\ args[1] = v /\ \A a \in DOMAIN args : args[a] = v
  OBVIOUS
<1>6. Top.kind \in {"int", "text", "array"} => TypeFor(Top.kind) = "i64"
  BY <1>3 DEF TypeFor
<1>7. CASE Top.op = "*"
  <2> DEFINE i == Instr("load", fn.regs + 1, args, "", "")
  <2>1. ResultOf("load", args, "") /\ "load" \in Opcodes
    BY <1>7, OperatorsKnown DEF LowerUnary
  <2>2. i.op = "load" /\ i.args = args /\ TypeOf(i) = "i64"
    BY DEF Instr, TypeOf
  <2>3. Proper(fn, Len(done) + 1, i)
    <3> HIDE DEF i, args
    <3> QED BY <1>3, <1>5, <1>7, <2>2 DEF Proper
  <2> HIDE DEF args
  <2> QED BY <1>1, <1>3, <1>4, <1>6, <2>1, <2>2, <2>3, ResultOfTyped
<1>8. CASE Top.op = "&"
  <2>1. Result(fn, v)
    BY <1>8 DEF LowerUnary
  <2>2. Top.kind = "address"
    BY <1>1, <1>8, Running DEF Filled
  <2>3. Valued(fn, v, Top.kind)
    BY <2>2 DEF Valued
  <2>4. Sound(fn) /\ Tidy(fn, Len(done) + 1) /\ Open(fn) /\ Extends(fn, fn)
    BY <1>1, <1>3, Running, Itself
  <2> HIDE DEF v
  <2> QED BY <1>1, <1>3, <2>1, <2>3, <2>4, ResultTyped
<1>9. CASE Top.op \in {"-", "!", "~"}
  <2> DEFINE op == unaryOpToOpcode(Top.op)
  <2>1. ResultOf(op, args, "")
    BY <1>9 DEF LowerUnary
  <2>2. /\ op \in Opcodes
        /\ op \notin {"alloca", "param", "load", "store", "copy", "call", "ret", "block"}
    BY <1>9, UnaryKnown, OperatorsApart
  <2>4. \A a \in DOMAIN args : Has(fn, args[a], "i64")
    BY <1>3, <1>5, <1>9
  <2> HIDE DEF args, op
  <2>3. /\ Proper(fn, Len(done) + 1, Instr(op, fn.regs + 1, args, "", ""))
        /\ TypeOf(Instr(op, fn.regs + 1, args, "", "")) = "i64"
    BY <1>5, <2>2, <2>4, OperatorProper
  <2> QED BY <1>1, <1>3, <1>4, <1>6, <2>1, <2>2, <2>3, ResultOfTyped
<1> QED BY <1>3, <1>7, <1>8, <1>9

\* A store of a register to a slot.
LEMMA StoreTyped ==
  ASSUME NEW f, Sound(f), NEW n, Tidy(f, n), Open(f), NEW v \in 1 .. f.regs, NEW slot,
         Has(f, slot, "ptr")
  PROVE  LET g == Emit(f, Instr("store", NoReg, <<v, slot>>, "", ""))
         IN  Sound(g) /\ Tidy(g, n) /\ Extends(f, g) /\ Open(g) /\ g.regs = f.regs
<1> DEFINE args == <<v, slot>>
           i == Instr("store", NoReg, args, "", "")
<1>1. f.regs \in Nat /\ slot \in 1 .. f.regs /\ NoReg \in Nat
  BY DEF Sound, Typed, Has, NoReg
<1>2. "store" \in Opcodes /\ "" \in Names /\ "" \in Immediates
  BY OperatorsKnown DEF Names, Immediates
<1>3. args \in Seq(Nat) /\ \A a \in DOMAIN args : args[a] \in 1 .. f.regs
  BY <1>1, TwoArgs
<1>4. Len(args) = 2 /\ args[2] = slot
  OBVIOUS
<1> HIDE DEF args
<1>5. i \in InstrType /\ i.args = args /\ i.op = "store" /\ i.dest = NoReg
  BY <1>1, <1>2, <1>3 DEF Instr, InstrType
<1> HIDE DEF i
<1>6. Proper(f, n, i)
  BY <1>4, <1>5 DEF Proper
<1>7. LET g == Emit(f, i)
      IN  Sound(g) /\ Tidy(g, n) /\ Extends(f, g) /\ Open(g) /\ g.regs = f.regs
  BY <1>3, <1>5, <1>6, EmitTidy
<1> QED BY <1>7 DEF i, args

LEMMA ExtendsTwice ==
  ASSUME NEW f, NEW g, NEW h, Extends(f, g), Extends(g, h), f.regs \in Nat, g.regs \in Nat, h.regs \in Nat
  PROVE  Extends(f, h)
BY DEF Extends

LEMMA StoredTyped ==
  ASSUME IInv, KInv, Supported, LowerAssign
  PROVE  KInv'
<1> DEFINE plain == Top.op = "="
           op == binaryOpToOpcode(Top.op)
           f == IF plain THEN fn ELSE Value(fn, op, Top.regs, "", "")
           v == IF plain THEN Top.regs[1] ELSE fn.regs + 1
           g == IF Top.name \in DOMAIN slots
                THEN Emit(f, Instr("store", NoReg, <<v, slots[Top.name]>>, "", "")) ELSE f
           n == Len(done) + 1
<1>1. /\ Lowering("assign") /\ Complete /\ Top.node = "assign" /\ Result(g, v) /\ visits # <<>>
  BY DEF LowerAssign, Lowering, Complete
<1>10. /\ Top.regs[1] \in 1 .. fn.regs /\ Arity(Top) /\ Top.regs \in Seq(Nat)
       /\ \A i \in DOMAIN Top.regs : Top.regs[i] \in 1 .. fn.regs
       /\ Len(Top.regs) = Top.need /\ Top.need \in Nat /\ Top.need >= 1
  BY <1>1, FirstOperand
<1>2. /\ Top.regs[1] \in 1 .. fn.regs /\ Arity(Top) /\ Top.regs \in Seq(Nat) /\ 1 \in DOMAIN Top.regs
      /\ \A i \in DOMAIN Top.regs : Top.regs[i] \in 1 .. fn.regs
  BY <1>10
<1>3. /\ fn.regs \in Nat /\ Sound(fn) /\ Tidy(fn, n) /\ Open(fn)
      /\ \A x \in DOMAIN slots : Has(fn, slots[x], "ptr")
  BY <1>1, Running
<1>4. /\ \A i \in DOMAIN Top.regs : Has(fn, Top.regs[i], "i64")
      /\ Top.kind \notin {"text", "array"}
  BY <1>1, Numbers DEF Droppers
<1>5. Sound(f) /\ Tidy(f, n) /\ Extends(fn, f) /\ Open(f) /\ Has(f, v, "i64")
  <2>1. CASE plain
    <3>1. f = fn /\ v = Top.regs[1] /\ fn.regs <= fn.regs
      BY <1>3, <2>1
    <3> HIDE DEF f, v, plain, n
    <3> QED BY <1>2, <1>3, <1>4, <3>1 DEF Extends
  <2>2. CASE ~plain
    <3> DEFINE h == Value(fn, op, Top.regs, "", "")
               i == Instr(op, fn.regs + 1, Top.regs, "", "")
    <3>1. Top.op \in Binaries /\ op \in Opcodes
      <4>1. Top.op \in Compounds
        BY <1>1, <1>2, <2>2 DEF Arity
      <4> QED BY <4>1, OperatorsKnown
    <3>2. op \notin {"alloca", "param", "load", "store", "copy", "call", "ret", "block"}
      BY <3>1, OperatorsApart
    <3>3. "" \in Names /\ "" \in Immediates /\ Top.regs # <<>>
      BY <1>2, NoneSeq DEF Names, Immediates
    <3>4. f = h /\ v = fn.regs + 1
      BY <2>2
    <3> HIDE DEF op, n
    <3>5. Proper(fn, n, i) /\ TypeOf(i) = "i64"
      BY <1>4, <3>2, <3>3, OperatorProper
    <3>6. Sound(h) /\ Tidy(h, n) /\ Extends(fn, h) /\ Open(h) /\ Has(h, fn.regs + 1, TypeOf(i))
      BY <1>2, <1>3, <3>1, <3>2, <3>3, <3>5, ValueTidy
    <3> HIDE DEF f, h, plain, v, i
    <3> QED BY <3>4, <3>5, <3>6
  <2> QED BY <2>1, <2>2
<1> HIDE DEF f, v, op
<1>6. Sound(g) /\ Tidy(g, n) /\ Extends(fn, g) /\ Open(g) /\ Has(g, v, "i64")
  <2>1. CASE Top.name \in DOMAIN slots
    <3> DEFINE slot == slots[Top.name]
               h == Emit(f, Instr("store", NoReg, <<v, slot>>, "", ""))
    <3>1. Has(f, slot, "ptr") /\ v \in 1 .. f.regs
      <4>1. Has(fn, slot, "ptr")
        BY <1>3, <2>1
      <4>2. Has(f, slot, "ptr")
        BY <1>5, <4>1 DEF Extends
      <4> QED BY <1>5, <4>2 DEF Has
    <3>4. g = h
      BY <2>1
    <3> HIDE DEF slot, g, n
    <3>2. Sound(h) /\ Tidy(h, n) /\ Extends(f, h) /\ Open(h)
      BY <1>5, <3>1, StoreTyped
    <3> HIDE DEF h
    <3>3. Extends(fn, h)
      BY <1>3, <1>5, <3>2, ExtendsTwice DEF Sound, Typed
    <3> QED BY <1>5, <3>2, <3>3, <3>4 DEF Extends
  <2>2. CASE Top.name \notin DOMAIN slots
    <3>1. g = f
      BY <2>2
    <3> HIDE DEF g
    <3> QED BY <1>5, <3>1
  <2> QED BY <2>1, <2>2
<1>7. Valued(g, v, Top.kind)
  BY <1>4, <1>6 DEF Valued, TypeFor
<1>8. "assign" \notin Statements
  BY KindsKnown
<1> HIDE DEF g
<1> QED BY <1>1, <1>6, <1>7, <1>8, ResultTyped

LEMMA PlaceholdersTyped ==
  ASSUME IInv, KInv, Supported, LowerMember \/ LowerIndex \/ LowerCast
  PROVE  KInv'
<1>1. CASE LowerMember
  <2> DEFINE args == <<>>
             i == Instr("load", fn.regs + 1, args, Top.name, "")
  <2>1. /\ Lowering("member") /\ ResultOf("load", args, Top.name) /\ Complete /\ Top.node = "member"
        /\ visits # <<>>
    BY <1>1 DEF LowerMember, Lowering, Complete
  <2>2. Top.name \in Names
    BY <2>1, Completed
  <2>3. args \in Seq(Nat) /\ \A a \in DOMAIN args : args[a] \in 1 .. fn.regs
    BY NoArgs
  <2>4. "member" \notin Statements /\ "load" \in Opcodes
    BY KindsKnown, OperatorsKnown
  <2>5. Proper(fn, Len(done) + 1, i)
    BY PlainProper
  <2>6. TypeOf(i) = "i64"
    BY DEF TypeOf, Instr
  <2>7. Top.kind \notin {"text", "array"}
    BY <2>1, Running DEF Filled
  <2> HIDE DEF args
  <2> QED BY <2>1, <2>2, <2>3, <2>4, <2>5, <2>6, <2>7, ResultOfTyped DEF TypeFor
<1>2. CASE LowerIndex
  <2> DEFINE i == Instr("add", fn.regs + 1, Top.regs, "", "")
  <2>1. Lowering("index") /\ ResultOf("add", Top.regs, "") /\ Complete /\ Top.node = "index"
    BY <1>2 DEF LowerIndex, Lowering
  <2>2. /\ Top.regs \in Seq(Nat) /\ \A a \in DOMAIN Top.regs : Top.regs[a] \in 1 .. fn.regs
        /\ \A a \in DOMAIN Top.regs : Has(fn, Top.regs[a], "i64")
        /\ Top.kind \notin {"text", "array"} /\ Len(Top.regs) = 2
    BY <2>1, Numbers DEF Droppers, Arity
  <2>3. "index" \notin Statements /\ "" \in Names /\ Top.regs # <<>>
    <3>1. "index" \notin Statements
      BY DEF Statements
    <3>2. "" \in Names
      BY DEF Names
    <3>3. Top.regs # <<>>
      <4>1. Len(Top.regs) # Len(<<>>)
        BY <2>2, NoneSeq
      <4> QED BY <4>1
    <3> QED BY <3>1, <3>2, <3>3
  <2>4. "add" \in Opcodes
    <3>1. "+" \in Binaries /\ binaryOpToOpcode("+") = "add"
      BY DEF Binaries, Arithmetic, binaryOpToOpcode
    <3> QED BY <3>1, OperatorsKnown
  <2>5. Proper(fn, Len(done) + 1, i) /\ TypeOf(i) = "i64"
    BY <2>2, <2>3, OperatorProper
  <2>6. Top.kind \in {"int", "text", "array"} => TypeOf(i) = TypeFor(Top.kind)
    BY <2>2, <2>5 DEF TypeFor
  <2> QED BY <2>1, <2>2, <2>3, <2>4, <2>5, <2>6, ResultOfTyped
<1>3. CASE LowerCast
  <2> DEFINE i == Instr("cast", fn.regs + 1, Top.regs, "?", "")
  <2>1. Lowering("cast") /\ ResultOf("cast", Top.regs, "?") /\ Complete /\ Top.node = "cast"
    BY <1>3 DEF LowerCast, Lowering
  <2>2. /\ Top.regs \in Seq(Nat) /\ \A a \in DOMAIN Top.regs : Top.regs[a] \in 1 .. fn.regs
        /\ \A a \in DOMAIN Top.regs : Has(fn, Top.regs[a], "i64")
        /\ Top.kind \notin {"text", "array"} /\ Len(Top.regs) >= 1
    BY <2>1, Numbers DEF Droppers, Arity
  <2>3. "cast" \notin Statements /\ "?" \in Names /\ "cast" \in Opcodes /\ Top.regs # <<>>
    BY <2>2, KindsKnown, OperatorsKnown, NoneSeq DEF Names
  <2>5. Proper(fn, Len(done) + 1, i) /\ TypeOf(i) = "i64"
    BY <2>2, <2>3, OperatorProper
  <2>6. Top.kind \in {"int", "text", "array"} => TypeOf(i) = TypeFor(Top.kind)
    BY <2>2, <2>5 DEF TypeFor
  <2> QED BY <2>1, <2>2, <2>3, <2>5, <2>6, ResultOfTyped
<1> QED BY <1>1, <1>2, <1>3

LEMMA ArrayTyped ==
  ASSUME IInv, KInv, Supported, LowerArray
  PROVE  KInv'
<1> DEFINE v == IF Top.need = 0 THEN NoReg ELSE Top.regs[1]
<1>1. Lowering("array") /\ Complete /\ Top.node = "array" /\ Result(fn, v) /\ visits # <<>>
  BY DEF LowerArray, Lowering, Complete
<1>2. /\ Top.regs \in Seq(Nat) /\ Len(Top.regs) = Top.need /\ Top.need \in Nat
  BY <1>1, Completed DEF Droppers
<1>3. /\ Sound(fn) /\ Tidy(fn, Len(done) + 1) /\ Open(fn) /\ Extends(fn, fn)
      /\ Filled(fn, Len(done) + 1, Top)
  BY <1>1, Running, Itself
<1>4. Valued(fn, v, Top.kind) \/ Top.need = 0
  <2>1. Top.kind = "array" /\ \A i \in DOMAIN Top.regs : Has(fn, Top.regs[i], "ptr")
    BY <1>1, <1>3 DEF Filled
  <2>2. Top.need # 0 => 1 \in DOMAIN Top.regs
    BY <1>2
  <2> QED BY <2>1, <2>2 DEF Valued, TypeFor
<1>5. "array" \notin Statements
  BY KindsKnown
<1> HIDE DEF v
<1> QED BY <1>1, <1>3, <1>4, <1>5, ResultTyped

LEMMA CalledTyped ==
  ASSUME IInv, KInv, Supported, LowerCall
  PROVE  KInv'
<1> DEFINE i == Instr("call", fn.regs + 1, Top.regs, Top.name, "")
           n == Len(done) + 1
<1>1. Lowering("call") /\ Complete /\ Top.node = "call" /\ visits # <<>>
  BY DEF LowerCall, Lowering, Complete
<1>2. /\ Top.regs \in Seq(Nat) /\ Len(Top.regs) = Top.need
      /\ \A a \in DOMAIN Top.regs : Top.regs[a] \in 1 .. fn.regs
      /\ Top.kind \notin {"text", "array"}
      /\ \A a \in DOMAIN Top.regs : Has(fn, Top.regs[a], "i64") \/ Has(fn, Top.regs[a], "ptr")
      /\ Top.name \notin Printers => \A a \in DOMAIN Top.regs : Has(fn, Top.regs[a], "i64")
  BY <1>1, Numbers DEF Droppers
<1>3. Callee(Top.name, Top.need, n)
  BY <1>1, Running DEF Filled
<1>4. Top.name # Indirect
  <2>1. \A h \in DOMAIN pool.module : pool.module[h].name # ""
    BY Facts, PoolsAssumption DEF InSeq
  <2> QED BY <1>3, <2>1 DEF Callee, Indirect, Printers, Bare
<1>5. ResultOf("call", Top.regs, Top.name)
  BY <1>4 DEF LowerCall
<1>6. "call" \notin Statements /\ "call" \in Opcodes /\ Top.name \in Names
  BY <1>1, KindsKnown, OperatorsKnown, Completed
<1>7. i.op = "call" /\ i.args = Top.regs /\ i.sym = Top.name /\ TypeOf(i) = "i64"
  BY DEF Instr, TypeOf
<1>8. Proper(fn, n, i)
  <2> HIDE DEF i, n
  <2> QED BY <1>2, <1>3, <1>7 DEF Proper
<1>9. Top.kind \in {"int", "text", "array"} => TypeOf(i) = TypeFor(Top.kind)
  BY <1>2, <1>7 DEF TypeFor
<1> QED BY <1>1, <1>2, <1>5, <1>6, <1>8, <1>9, ResultOfTyped

LEMMA ElementTyped ==
  ASSUME IInv, KInv, Supported, StoreElement
  PROVE  KInv'
<1> DEFINE slot == fn.regs + 1
           n == Len(done) + 1
           x == Element[Len(Top.kids)]
           i == Instr("alloca", slot, <<>>, x, "")
           a == Value(fn, "alloca", <<>>, x, "")
           g == Emit(a, Instr("store", NoReg, <<last, slot>>, "", ""))
           w == [Top EXCEPT !.regs = Append(@, slot)]
<1>1. /\ visits # <<>> /\ Top.node = "array" /\ Len(Top.regs) < Len(Top.kids)
      /\ fn' = g /\ visits' = [visits EXCEPT ![Len(visits)].regs = Append(@, slot)]
      /\ pool' = pool /\ decls' = decls /\ done' = done /\ slots' = slots
      /\ last' = last /\ scope' = scope
  BY DEF StoreElement
<1>2. /\ Sound(fn) /\ Tidy(fn, n) /\ Open(fn) /\ fn.regs \in Nat /\ Stack(visits, fn.regs)
      /\ Frames(fn, n, visits) /\ Top = visits[Len(visits)] /\ Filled(fn, n, Top)
  BY <1>1, Running
<1>3. /\ Visitor(Top, fn.regs) /\ Len(visits) \in Nat \ {0} /\ DOMAIN visits = 1 .. Len(visits)
  BY <1>1, <1>2, StackShape DEF Top
<1>4. /\ Arity(Top) /\ IsSeq(Top.kids) /\ Top.regs \in Seq(Nat)
      /\ Len(Top.kids) <= Top.need /\ Top.need \in Nat
      /\ DOMAIN Top = {"node", "op", "name", "kind", "need", "kids", "regs"}
  BY <1>3 DEF Visitor, Frame
<1>5. Len(Top.kids) \in Nat /\ Len(Top.regs) \in Nat /\ DOMAIN Top.kids = 1 .. Len(Top.kids)
  BY <1>4, AppendSeq
<1>6. x \in Names /\ Top.kids # <<>>
  <2> DEFINE k == Len(Top.kids)
             m == Len(Top.regs)
  <2>1. k \in Nat /\ m \in Nat /\ m < k /\ k <= Top.need /\ Top.need <= 3 /\ Top.need \in Nat
    <3>1. Len(Element) = 3
      BY DEF Element
    <3> QED BY <1>1, <1>4, <1>5, <3>1 DEF Arity
  <2> HIDE DEF k, m
  <2>2. k \in 1 .. 3 /\ k # 0
    BY <2>1
  <2>3. DOMAIN Element = 1 .. 3
    BY DEF Element
  <2>4. Element[k] \in InSeq(Element)
    BY <2>2, <2>3 DEF InSeq
  <2>5. Element[k] \in Names
    BY <2>4 DEF Names
  <2> QED BY <2>2, <2>5, NoneSeq DEF k
<1>7. last \in 1 .. fn.regs
  <2>1. Top.node \notin Droppers
    BY <1>1 DEF Droppers
  <2> QED BY <1>1, <1>2, <1>6, <2>1, Facts DEF Recent
<1>8. /\ Sound(a) /\ Tidy(a, n) /\ Extends(fn, a) /\ Open(a) /\ a.regs = fn.regs + 1
      /\ Has(a, slot, "ptr")
  <2>1. "alloca" \in Opcodes /\ "" \in Immediates
    BY OperatorsKnown DEF Immediates
  <2>2. Proper(fn, n, i)
    BY PlainProper
  <2>3. TypeOf(i) = "ptr"
    BY DEF TypeOf, Instr
  <2> HIDE DEF x, n
  <2>4. /\ Sound(a) /\ Tidy(a, n) /\ Extends(fn, a) /\ Open(a) /\ a.regs = fn.regs + 1
        /\ Has(a, fn.regs + 1, TypeOf(i))
    BY <1>2, <1>6, <2>1, <2>2, NoArgs, ValueTidy
  <2> HIDE DEF a, i
  <2> QED BY <2>3, <2>4
<1>9. Sound(g) /\ Tidy(g, n) /\ Extends(fn, g) /\ Open(g) /\ Has(g, slot, "ptr") /\ g.regs = slot
  <2>1. last \in 1 .. a.regs
    <3>1. a.regs = fn.regs + 1 /\ fn.regs \in Nat
      BY <1>2, <1>8
    <3> HIDE DEF a
    <3> QED BY <1>7, <3>1
  <2> HIDE DEF a, slot, n
  <2>2. Sound(g) /\ Tidy(g, n) /\ Extends(a, g) /\ Open(g) /\ g.regs = a.regs
    BY <1>8, <2>1, StoreTyped
  <2> HIDE DEF g
  <2>3. Extends(fn, g)
    BY <1>2, <1>8, <2>2, ExtendsTwice DEF Sound, Typed
  <2> QED BY <1>8, <2>2, <2>3 DEF Extends, slot
<1> HIDE DEF g, a
<1>10. visits' = [visits EXCEPT ![Len(visits)] = w]
  BY <1>1, <1>2
<1>11. /\ w.node = Top.node /\ w.op = Top.op /\ w.name = Top.name
       /\ w.kind = Top.kind /\ w.need = Top.need /\ w.regs = Append(Top.regs, slot)
  BY <1>4
<1> HIDE DEF w, slot, n
<1>12. Filled(g, n, w)
  <2>1. \A j \in DOMAIN Top.regs : Has(fn, Top.regs[j], "ptr")
    BY <1>1, <1>2 DEF Filled
  <2>2. ASSUME NEW j \in DOMAIN w.regs PROVE Has(g, w.regs[j], "ptr")
    <3>1. (j \in DOMAIN Top.regs /\ w.regs[j] = Top.regs[j]) \/ w.regs[j] = slot
      BY <1>4, <1>11
    <3> QED BY <1>9, <2>1, <3>1 DEF Extends
  <2>3. w.node = "array" /\ w.kind = "array"
    BY <1>1, <1>2, <1>11 DEF Filled
  <2> QED BY <2>2, <2>3 DEF Filled
<1>13. Stack(visits, g.regs) /\ Frames(g, n, visits)
  BY <1>2, <1>9, WidenStack, FramesKept DEF Sound, Typed, Extends
<1>14. Frames(g, n, visits')
  <2>1. w.kind = visits[Len(visits)].kind /\ visits # <<>>
    BY <1>1, <1>2, <1>11
  <2> DEFINE t == [visits EXCEPT ![Len(visits)] = w]
  <2>2. Frames(g, n, t)
    BY <1>12, <1>13, <2>1, AdvanceFrames
  <2>3. visits' = t
    BY <1>10
  <2> HIDE DEF t
  <2> QED BY <2>2, <2>3
<1>15. visits'[Len(visits')] = w
  <2> DEFINE t == [visits EXCEPT ![Len(visits)] = w]
  <2>1. IsSeq(visits) /\ Len(visits) \in DOMAIN visits
    BY <1>2, <1>3 DEF Stack
  <2>2. Len(t) = Len(visits) /\ t[Len(visits)] = w
    BY <2>1, ReplaceSeq
  <2> HIDE DEF t
  <2> QED BY <1>10, <2>2 DEF t
<1>16. Returning(g, visits', last')
  BY <1>1, <1>11, <1>15 DEF Returning
<1> QED BY <1>1, <1>9, <1>14, <1>16, EvalStep DEF n

(***************************************************************************)
(* Statements.                                                             *)
(***************************************************************************)
LEMMA StatementTyped ==
  ASSUME IInv, KInv, NEW node, NEW f, Statement(node, f),
         NEW g, Tidy(g, Len(done) + 1), Extends(fn, g), Open(g), fn' = g,
         Filled(g, Len(done) + 1, f), f.kids = <<>>,
         \A x \in DOMAIN slots' : Has(g, slots'[x], "ptr")
  PROVE  KInv'
<1>1. /\ visits' = <<f>> /\ fn.name # "" /\ ~Returned
      /\ pool' = pool /\ decls' = decls /\ done' = done /\ scope' = scope
  BY DEF Statement
<1>10. pool' = pool /\ done' = done
  BY <1>1
<1>2. g.body = fn.body /\ g.name = fn.name /\ g.params = fn.params
  BY DEF Extends
<1>3. Visited'
  BY <1>1, <1>2 DEF KInv, Visited
<1>4. Compiled'
  BY <1>10 DEF KInv, Compiled, Tidy, Proper, Callee
<1>5. ~Returned'
  BY <1>1, <1>2 DEF Returned
<1>6. Frames(g, Len(done) + 1, visits') /\ Returning(g, visits', last')
  <2> DEFINE t == <<f>>
  <2>1. DOMAIN t = 1 .. 1 /\ t[1] = f /\ Len(t) = 1
    OBVIOUS
  <2>2. visits' = t
    BY <1>1
  <2> HIDE DEF t
  <2>3. \A k \in DOMAIN t : t[k] = f /\ ~(k > 1)
    BY <2>1
  <2> QED BY <2>1, <2>2, <2>3 DEF Frames, Returning
<1>7. Tidy(g, Len(done) + 1)' /\ Frames(g, Len(done) + 1, visits)'
  BY <1>6, <1>10 DEF Tidy, Proper, Frames, Filled, Callee
<1>8. \A x \in DOMAIN scope : scope[x] = "int"
  BY <1>1 DEF KInv, Active
<1>9. Active'
  BY <1>1, <1>5, <1>6, <1>7, <1>8 DEF Active
<1> QED BY <1>3, <1>4, <1>9 DEF KInv

\* A tree more in the body.
LEMMA AlsoTidy ==
  ASSUME Sound(fn), NEW n, Tidy(fn, n), NEW tree
  PROVE  LET g == Also(tree)
         IN  /\ Sound(g) /\ Tidy(g, n) /\ g.regs = fn.regs /\ g.code = fn.code
             /\ g.name = fn.name /\ g.params = fn.params /\ g.body = Append(fn.body, tree)
             /\ \A r, t : Has(fn, r, t) => Has(g, r, t)
<1> DEFINE g == Also(tree)
<1>1. DOMAIN fn = {"name", "params", "returns", "code", "regs", "body"}
  BY DEF Sound, Typed, NoFunction
<1>2. /\ g.regs = fn.regs /\ g.code = fn.code
      /\ g.name = fn.name /\ g.params = fn.params /\ g.body = Append(fn.body, tree)
  BY <1>1 DEF Also
<1>3. Sound(g)
  BY AlsoSound
<1> HIDE DEF g
<1>4. \A r, t : Has(fn, r, t) <=> Has(g, r, t)
  BY <1>2 DEF Has
<1>5. IsSeq(g.body)
  <2> DEFINE s == fn.body
  <2>1. IsSeq(s)
    BY DEF Tidy
  <2> HIDE DEF s
  <2>2. IsSeq(Append(s, tree))
    BY <2>1, AppendSeq
  <2> QED BY <1>2, <2>2 DEF s
<1>6. \A k \in DOMAIN g.code : Proper(g, n, g.code[k])
  BY <1>2, <1>4 DEF Tidy, Proper
<1>7. Tidy(g, n)
  BY <1>2, <1>5, <1>6 DEF Tidy, ParamsAt
<1> QED BY <1>2, <1>3, <1>4, <1>7 DEF g

LEMMA EndStatementTyped ==
  ASSUME IInv, KInv, NEW node \in Statements, EndStatement(node),
         NEW g, Tidy(g, Len(done) + 1), fn' = g, slots' = slots,
         g.name = fn.name, g.params = fn.params, g.body = Append(fn.body, Tree(Top)),
         \A r, t : Has(fn, r, t) => Has(g, r, t),
         IF node = "return" THEN Shut(g) ELSE Open(g),
         \A x \in DOMAIN scope' : scope'[x] = "int"
  PROVE  KInv'
<1>1. /\ visits' = <<>> /\ pool' = pool /\ decls' = decls /\ done' = done
      /\ Top.node = node
  BY DEF EndStatement
<1>2. fn.name # "" /\ Tidy(fn, Len(done) + 1) /\ \A x \in DOMAIN slots : Has(fn, slots[x], "ptr")
  BY Ended DEF KInv, Active
<1>3. Visited'
  BY <1>1 DEF KInv, Visited
<1>4. Compiled'
  BY <1>1 DEF KInv, Compiled, Tidy, Proper, Callee
<1>5. Returned' <=> node = "return"
  <2> DEFINE s == fn.body
             tree == Tree(Top)
             t == Append(s, tree)
  <2>1. IsSeq(s)
    BY <1>2 DEF Tidy
  <2>2. tree.node = node
    BY <1>1 DEF Tree, Node
  <2>3. g.body = t
    OBVIOUS
  <2> HIDE DEF s, tree
  <2>4. t # <<>> /\ Len(t) = Len(s) + 1 /\ t[Len(s) + 1] = tree
    BY <2>1, AppendSeq
  <2> HIDE DEF t
  <2>5. g.body # <<>> /\ g.body[Len(g.body)].node = node
    BY <2>2, <2>3, <2>4
  <2> QED BY <2>5 DEF Returned
<1>6. Frames(g, Len(done) + 1, visits') /\ Returning(g, visits', last')
  BY <1>1, NoneSeq DEF Frames, Returning
<1>7. Tidy(g, Len(done) + 1)' /\ Frames(g, Len(done) + 1, visits)'
  BY <1>1, <1>6 DEF Tidy, Proper, Frames, Filled, Callee
<1>8. Active'
  BY <1>1, <1>2, <1>5, <1>6, <1>7 DEF Active
<1> QED BY <1>3, <1>4, <1>8 DEF KInv

LEMMA VarDeclTyped ==
  ASSUME IInv, KInv, NEW x \in pool.names, VisitVarDecl(x)
  PROVE  KInv'
<1> DEFINE n == Len(done) + 1
           g == Value(fn, "alloca", <<>>, x, "")
           i == Instr("alloca", fn.regs + 1, <<>>, x, "")
           e == Frame("let", "", x, "", 1)
           f == [e EXCEPT !.regs = <<fn.regs + 1>>]
<1>1. Statement("let", f) /\ fn' = g /\ fn.name # "" /\ ~Returned
  BY DEF VisitVarDecl, Statement
<1>2. /\ Sound(fn) /\ Tidy(fn, n) /\ Open(fn) /\ x \in Names
      /\ "alloca" \in Opcodes /\ "" \in Immediates
      /\ \A y \in DOMAIN slots : Has(fn, slots[y], "ptr")
  BY <1>1, Facts, NamesKnown, OperatorsKnown DEF KInv, Active
<1>3. Proper(fn, n, i)
  BY PlainProper
<1>4. TypeOf(i) = "ptr"
  BY DEF TypeOf, Instr
<1> HIDE DEF n
<1>5. Sound(g) /\ Tidy(g, n) /\ Extends(fn, g) /\ Open(g) /\ Has(g, fn.regs + 1, TypeOf(i))
  BY <1>2, <1>3, NoArgs, ValueTidy
<1> HIDE DEF g, i
<1>6. /\ f.node = "let" /\ f.kids = <<>> /\ f.regs = <<fn.regs + 1>> /\ f.kind = ""
  BY DEF Frame
<1> HIDE DEF f
<1>7. Filled(g, n, f)
  <2>1. f.regs[1] = fn.regs + 1 /\ DOMAIN f.kids = {}
    <3>1. \A r : <<r>>[1] = r
      OBVIOUS
    <3> QED BY <1>6, <3>1, NoneSeq
  <2> QED BY <1>4, <1>5, <1>6, <2>1 DEF Filled
<1>8. \A y \in DOMAIN slots' : Has(g, slots'[y], "ptr")
  <2>1. /\ DOMAIN slots' = DOMAIN slots \cup {x}
        /\ \A y \in DOMAIN slots' : slots'[y] = IF y = x THEN fn.regs + 1 ELSE slots[y]
    BY DEF VisitVarDecl
  <2> QED BY <1>2, <1>4, <1>5, <2>1 DEF Extends
<1> QED BY <1>1, <1>5, <1>6, <1>7, <1>8, StatementTyped DEF n

LEMMA EndVarDeclTyped ==
  ASSUME IInv, KInv, EndVarDecl
  PROVE  KInv'
<1> DEFINE n == Len(done) + 1
           tree == Tree(Top)
           g == Also(tree)
           slot == Top.regs[1]
           h == Emit(g, Instr("store", NoReg, <<last, slot>>, "", ""))
<1>1. /\ EndStatement("let") /\ fn' = h /\ slots' = slots /\ visits # <<>> /\ Complete
      /\ Top.node = "let"
      /\ DOMAIN scope' = DOMAIN scope \cup {Top.name}
      /\ \A y \in DOMAIN scope' : scope'[y] = IF y = Top.name THEN Top.kids[1].kind ELSE scope[y]
  BY DEF EndVarDecl, EndStatement, Complete
<1>2. "let" \in Statements /\ "let" # "return"
  BY DEF Statements
<1>3. last \in 1 .. fn.regs
  BY <1>1, <1>2, Ended
<1>4. /\ Sound(fn) /\ Tidy(fn, n) /\ Open(fn) /\ Has(fn, slot, "ptr")
      /\ \A y \in DOMAIN scope : scope[y] = "int"
      /\ \A j \in DOMAIN Top.kids : Top.kids[j].kind = "int"
  BY <1>1, Running DEF Filled
<1>5. Top.kids[1].kind = "int"
  <2>1. /\ IsSeq(Top.kids) /\ Arity(Top) /\ Len(Top.kids) = Top.need
    BY <1>1, Completed DEF Visitor
  <2>2. Len(Top.kids) >= 1
    BY <1>1, <1>2, <2>1 DEF Arity
  <2>3. DOMAIN Top.kids = 1 .. Len(Top.kids) /\ Len(Top.kids) \in Nat
    BY <2>1, AppendSeq
  <2>4. 1 \in DOMAIN Top.kids
    BY <2>2, <2>3
  <2> QED BY <1>4, <2>4
<1> HIDE DEF n, tree, slot
<1>6. /\ Sound(g) /\ Tidy(g, n) /\ g.regs = fn.regs /\ g.code = fn.code
      /\ g.name = fn.name /\ g.params = fn.params /\ g.body = Append(fn.body, tree)
      /\ \A r, t : Has(fn, r, t) => Has(g, r, t)
  BY <1>4, AlsoTidy
<1>7. Open(g)
  BY <1>4, <1>6 DEF Open
<1>8. last \in 1 .. g.regs /\ Has(g, slot, "ptr")
  BY <1>3, <1>4, <1>6
<1> HIDE DEF g
<1>9. Tidy(h, n) /\ Extends(g, h) /\ Open(h)
  BY <1>6, <1>7, <1>8, StoreTyped
<1> HIDE DEF h
<1>10. /\ h.name = fn.name /\ h.params = fn.params /\ h.body = Append(fn.body, tree)
       /\ \A r, t : Has(fn, r, t) => Has(h, r, t)
  BY <1>6, <1>9 DEF Extends
<1>11. \A y \in DOMAIN scope' : scope'[y] = "int"
  BY <1>1, <1>4, <1>5
<1> QED BY <1>1, <1>2, <1>9, <1>10, <1>11, EndStatementTyped DEF n, tree

LEMMA EnteredTyped ==
  ASSUME IInv, KInv, VisitExprStmt \/ VisitReturn
  PROVE  KInv'
<1>1. ASSUME NEW node \in {"expr", "return"}, Statement(node, Frame(node, "", "", "", 1)),
             UNCHANGED <<fn, slots>>
      PROVE  KInv'
  <2> DEFINE f == Frame(node, "", "", "", 1)
  <2>1. Statement(node, f) /\ fn.name # "" /\ ~Returned /\ fn' = fn /\ slots' = slots
    BY <1>1 DEF Statement
  <2>2. /\ Tidy(fn, Len(done) + 1) /\ Open(fn) /\ \A y \in DOMAIN slots : Has(fn, slots[y], "ptr")
    BY <2>1 DEF KInv, Active
  <2>3. f.node = node /\ f.kids = <<>> /\ f.regs = <<>> /\ f.kind = ""
    BY DEF Frame
  <2> HIDE DEF f
  <2>4. DOMAIN f.regs = {}
    BY <2>3, NoneSeq
  <2>5. Filled(fn, Len(done) + 1, f)
    BY <1>1, <2>3, <2>4 DEF Filled
  <2>6. Extends(fn, fn)
    BY Facts, Itself
  <2> QED BY <2>1, <2>2, <2>3, <2>5, <2>6, StatementTyped
<1>2. CASE VisitExprStmt
  BY <1>1, <1>2 DEF VisitExprStmt
<1>3. CASE VisitReturn
  BY <1>1, <1>3 DEF VisitReturn
<1> QED BY <1>2, <1>3

LEMMA EndExprStmtTyped ==
  ASSUME IInv, KInv, EndExprStmt
  PROVE  KInv'
<1> DEFINE n == Len(done) + 1
           tree == Tree(Top)
           g == Also(tree)
<1>1. /\ EndStatement("expr") /\ fn' = g /\ slots' = slots /\ scope' = scope /\ visits # <<>>
  BY DEF EndExprStmt, EndStatement, Complete
<1>2. "expr" \in Statements /\ "expr" # "return"
  BY DEF Statements
<1>3. /\ Sound(fn) /\ Tidy(fn, n) /\ Open(fn) /\ \A y \in DOMAIN scope : scope[y] = "int"
  BY <1>1, Running
<1> HIDE DEF n, tree
<1>4. /\ Tidy(g, n) /\ g.code = fn.code
      /\ g.name = fn.name /\ g.params = fn.params /\ g.body = Append(fn.body, tree)
      /\ \A r, t : Has(fn, r, t) => Has(g, r, t)
  BY <1>3, AlsoTidy
<1>5. Open(g)
  BY <1>3, <1>4 DEF Open
<1> HIDE DEF g
<1> QED BY <1>1, <1>2, <1>3, <1>4, <1>5, EndStatementTyped DEF n, tree

\* The end of a function's code.
LEMMA Shutting ==
  ASSUME NEW f, NEW g, NEW i, IsSeq(f.code), g.code = Append(f.code, i),
         Open(f) \/ (Shut(f) /\ i.op = "ret" /\ i.args = <<>>)
  PROVE  Shut(g)
<1> DEFINE s == f.code
           t == Append(s, i)
<1>1. /\ Len(s) \in Nat /\ DOMAIN s = 1 .. Len(s) /\ DOMAIN t = 1 .. Len(s) + 1
      /\ \A k \in 1 .. Len(s) : t[k] = s[k]
      /\ t[Len(s) + 1] = i
  BY AppendSeq
<1>2. g.code = t
  OBVIOUS
<1> HIDE DEF t
<1>3. ASSUME NEW k \in DOMAIN t, NEW m \in DOMAIN t, t[k].op = "block", m > k
      PROVE  t[m].op = "ret" /\ t[m].args = <<>>
  <2>1. k \in DOMAIN s /\ t[k] = s[k]
    BY <1>1, <1>3
  <2>2. Shut(f) /\ i.op = "ret" /\ i.args = <<>>
    BY <1>3, <2>1 DEF Open
  <2>3. CASE m \in DOMAIN s
    BY <1>1, <1>3, <2>1, <2>2, <2>3 DEF Shut
  <2>4. CASE m = Len(s) + 1
    BY <1>1, <2>2, <2>4
  <2> QED BY <1>1, <2>3, <2>4
<1> QED BY <1>2, <1>3 DEF Shut

\* An instruction of a block's end, which reads nothing or a number.
LEMMA EndReturnTyped ==
  ASSUME IInv, KInv, Supported, EndReturn
  PROVE  KInv'
<1> DEFINE n == Len(done) + 1
           tree == Tree(Top)
           value == IF last = NoReg THEN <<>> ELSE <<last>>
           i == Instr("ret", NoReg, value, "", "")
           j == Instr("block", NoReg, <<>>, "after_ret", "")
           g == Also(tree)
           h == Emit(g, i)
           k == Emit(h, j)
<1>1. /\ EndStatement("return") /\ fn' = k /\ slots' = slots /\ scope' = scope /\ visits # <<>>
      /\ Complete /\ Top.node = "return"
  BY DEF EndReturn, EndStatement, Complete
<1>2. "return" \in Statements
  BY DEF Statements
<1>3. /\ Sound(fn) /\ Tidy(fn, n) /\ Open(fn) /\ \A y \in DOMAIN scope : scope[y] = "int"
      /\ Top = visits[Len(visits)]
  BY <1>1, Running
<1>4. last \in 1 .. fn.regs /\ fn.regs \in Nat
  BY <1>1, <1>2, Ended, Facts
<1>5. Has(fn, last, "i64")
  <2>1. Returning(fn, visits, last)
    <3>1. fn.name # ""
      BY <1>1, Running
    <3> QED BY <3>1 DEF KInv, Active
  <2>2. Top.kids # <<>>
    <3>1. /\ Arity(Top) /\ Len(Top.kids) = Top.need
      BY <1>1, Completed
    <3>2. Len(Top.kids) >= 1
      BY <1>1, <1>2, <3>1 DEF Arity
    <3> QED BY <3>2, NoneSeq
  <2> QED BY <1>1, <1>3, <2>1, <2>2 DEF Returning
<1>6. value = <<last>> /\ DOMAIN value = 1 .. 1 /\ value[1] = last
  <2>1. last # NoReg
    BY <1>4 DEF NoReg
  <2> QED BY <2>1
<1> HIDE DEF n, tree, value
<1>7. /\ Sound(g) /\ Tidy(g, n) /\ g.regs = fn.regs /\ g.code = fn.code
      /\ g.name = fn.name /\ g.params = fn.params /\ g.body = Append(fn.body, tree)
      /\ \A r, t : Has(fn, r, t) => Has(g, r, t)
  BY <1>3, AlsoTidy
<1>8. Open(g) /\ Has(g, last, "i64") /\ g.regs \in Nat /\ last \in 1 .. g.regs
  BY <1>3, <1>4, <1>5, <1>7 DEF Open
<1> HIDE DEF g
<1>9. /\ {"ret", "block"} \subseteq Opcodes /\ {"after_ret", ""} \subseteq Names /\ "" \in Immediates
      /\ NoReg \in Nat
  BY OperatorsKnown DEF Names, Immediates, NoReg
<1>10. value \in Seq(Nat) /\ \A a \in DOMAIN value : value[a] \in 1 .. g.regs
  <2>1. <<last>> \in Seq(Nat)
    BY <1>4
  <2> QED BY <1>6, <1>8, <2>1
<1>11. i \in InstrType /\ i.args = value /\ i.op = "ret" /\ i.dest = NoReg
  BY <1>9, <1>10 DEF Instr, InstrType
<1>12. j \in InstrType /\ j.args = <<>> /\ j.op = "block" /\ j.dest = NoReg
  <2>1. <<>> \in Seq(Nat)
    OBVIOUS
  <2> QED BY <1>9, <2>1, InstrTyped DEF Instr
<1>13. \A f : Proper(f, n, j)
  BY PlainProper
<1> HIDE DEF i, j
<1>14. Proper(g, n, i)
  BY <1>6, <1>8, <1>11 DEF Proper
<1>15. Sound(h) /\ Tidy(h, n) /\ Extends(g, h) /\ Open(h) /\ h.regs = g.regs
  BY <1>7, <1>8, <1>10, <1>11, <1>14, EmitTidy
<1> HIDE DEF h
<1>16. Tidy(k, n) /\ Extends(h, k) /\ k.code = Append(h.code, j)
  <2>1. \A a \in DOMAIN j.args : j.args[a] \in 1 .. h.regs
    BY <1>12, NoneSeq
  <2> QED BY <1>12, <1>13, <1>15, <2>1, EmitTidy
<1> HIDE DEF k
<1>17. Shut(k)
  <2>1. IsSeq(h.code)
    BY <1>15, RangeSeq DEF Sound, Typed
  <2> QED BY <1>15, <1>16, <2>1, Shutting
<1>18. /\ k.name = fn.name /\ k.params = fn.params /\ k.body = Append(fn.body, tree)
       /\ \A r, t : Has(fn, r, t) => Has(k, r, t)
  BY <1>7, <1>15, <1>16 DEF Extends
<1> QED BY <1>1, <1>2, <1>3, <1>16, <1>17, <1>18, EndStatementTyped DEF n, tree

(***************************************************************************)
(* Functions.                                                              *)
(***************************************************************************)
\* The code of n parameters.
LEMMA ParamTriples ==
  ASSUME NEW params, IsSeq(params)
  PROVE  LET code == ParamCode(params)
             n    == Len(params)
         IN  /\ n \in Nat /\ DOMAIN params = 1 .. n /\ DOMAIN code = 1 .. 3 * n
             /\ \A i \in 1 .. n :
                  /\ 3 * i - 2 \in 1 .. 3 * n /\ 3 * i - 1 \in 1 .. 3 * n /\ 3 * i \in 1 .. 3 * n
                  /\ code[3 * i - 2] = Instr("alloca", 2 * i - 1, <<>>, params[i], "")
                  /\ code[3 * i - 1] = Instr("param", 2 * i, <<i>>, "", "")
                  /\ code[3 * i] = Instr("store", NoReg, <<2 * i, 2 * i - 1>>, "", "")
             /\ \A k \in 1 .. 3 * n : \E i \in 1 .. n : k = 3 * i - 2 \/ k = 3 * i - 1 \/ k = 3 * i
<1> DEFINE n == Len(params)
           code == ParamCode(params)
<1>1. n \in Nat /\ DOMAIN params = 1 .. n
  BY AppendSeq
<1>2. DOMAIN code = 1 .. 3 * n
  BY DEF ParamCode
<1>3. \A i \in 1 .. n :
         /\ 3 * i - 2 \in 1 .. 3 * n /\ 3 * i - 1 \in 1 .. 3 * n /\ 3 * i \in 1 .. 3 * n
         /\ code[3 * i - 2] = Instr("alloca", 2 * i - 1, <<>>, params[i], "")
         /\ code[3 * i - 1] = Instr("param", 2 * i, <<i>>, "", "")
         /\ code[3 * i] = Instr("store", NoReg, <<2 * i, 2 * i - 1>>, "", "")
  <2> TAKE i \in 1 .. n
  <2>1. /\ 3 * i - 2 \in 1 .. 3 * n /\ 3 * i - 1 \in 1 .. 3 * n /\ 3 * i \in 1 .. 3 * n
    BY <1>1
  <2>2. i \in DOMAIN params
    BY <1>1
  <2> QED BY <2>1, <2>2, ParamInstr
<1>4. ASSUME NEW k \in 1 .. 3 * n
      PROVE  \E i \in 1 .. n : k = 3 * i - 2 \/ k = 3 * i - 1 \/ k = 3 * i
  <2>1. k % 3 = 1 \/ k % 3 = 2 \/ k % 3 \notin {1, 2}
    OBVIOUS
  <2> QED BY <1>1, <2>1, ParamPlace
<1> HIDE DEF n, code
<1> QED BY <1>1, <1>2, <1>3, <1>4 DEF n, code

LEMMA ParamsTyped ==
  ASSUME NEW f, IsSeq(f.params), f.code = ParamCode(f.params), f.regs = 2 * Len(f.params),
         f.body = <<>>, NEW m
  PROVE  /\ Tidy(f, m) /\ Open(f)
         /\ \A i \in DOMAIN f.params : Has(f, 2 * i - 1, "ptr")
<1> DEFINE params == f.params
           n == Len(params)
           code == ParamCode(params)
           alloca(i) == Instr("alloca", 2 * i - 1, <<>>, params[i], "")
           param(i) == Instr("param", 2 * i, <<i>>, "", "")
           store(i) == Instr("store", NoReg, <<2 * i, 2 * i - 1>>, "", "")
<1>1. /\ n \in Nat /\ DOMAIN params = 1 .. n /\ DOMAIN code = 1 .. 3 * n
      /\ \A i \in 1 .. n :
           /\ 3 * i - 2 \in 1 .. 3 * n /\ 3 * i - 1 \in 1 .. 3 * n /\ 3 * i \in 1 .. 3 * n
           /\ code[3 * i - 2] = alloca(i) /\ code[3 * i - 1] = param(i) /\ code[3 * i] = store(i)
      /\ \A k \in 1 .. 3 * n : \E i \in 1 .. n : k = 3 * i - 2 \/ k = 3 * i - 1 \/ k = 3 * i
  BY ParamTriples
<1>2. \A i \in 1 .. n :
         /\ alloca(i).op = "alloca" /\ alloca(i).dest = 2 * i - 1 /\ TypeOf(alloca(i)) = "ptr"
         /\ param(i).op = "param" /\ param(i).dest = 2 * i
         /\ store(i).op = "store" /\ store(i).dest = 0 /\ Len(store(i).args) = 2
         /\ store(i).args[2] = 2 * i - 1
  BY DEF Instr, TypeOf, NoReg
<1>7. n = Len(f.params) /\ f.code = code
  OBVIOUS
<1> HIDE DEF alloca, param, store, n, code
<1>3. \A i \in DOMAIN params : Has(f, 2 * i - 1, "ptr")
  <2> SUFFICES ASSUME NEW i \in 1 .. n PROVE Has(f, 2 * i - 1, "ptr")
    BY <1>1
  <2>1. 2 * i - 1 \in 1 .. f.regs
    <3>1. f.regs = 2 * n
      BY <1>7
    <3> QED BY <1>1, <3>1
  <2>2. ASSUME NEW j \in DOMAIN code, code[j].dest = 2 * i - 1
        PROVE  TypeOf(code[j]) = "ptr"
    <3>1. PICK h \in 1 .. n : j = 3 * h - 2 \/ j = 3 * h - 1 \/ j = 3 * h
      BY <1>1
    <3>2. CASE j = 3 * h - 2
      BY <1>1, <1>2, <3>2
    <3>5. 2 * h # 2 * i - 1 /\ 0 # 2 * i - 1
      BY <1>1
    <3>3. CASE j = 3 * h - 1
      <4>1. code[j] = param(h)
        BY <1>1, <3>3
      <4> QED BY <1>2, <2>2, <3>5, <4>1
    <3>4. CASE j = 3 * h
      <4>1. code[j] = store(h)
        BY <1>1, <3>4
      <4> QED BY <1>2, <2>2, <3>5, <4>1
    <3> QED BY <3>1, <3>2, <3>3, <3>4
  <2> QED BY <1>7, <2>1, <2>2 DEF Has
<1>4. ASSUME NEW k \in DOMAIN code PROVE code[k].dest <= f.regs /\ Proper(f, m, code[k]) /\ code[k].op # "block"
  <2>1. PICK i \in 1 .. n : k = 3 * i - 2 \/ k = 3 * i - 1 \/ k = 3 * i
    BY <1>1
  <2>2. f.regs = 2 * n
    BY <1>7
  <2>3. CASE k = 3 * i - 2
    <3>1. code[k] = alloca(i)
      BY <1>1, <2>3
    <3>2. code[k].op = "alloca" /\ code[k].dest <= f.regs
      BY <1>1, <1>2, <2>2, <3>1
    <3> QED BY <3>2 DEF Proper
  <2>4. CASE k = 3 * i - 1
    <3>1. code[k] = param(i)
      BY <1>1, <2>4
    <3>2. code[k].op = "param" /\ code[k].dest <= f.regs
      BY <1>1, <1>2, <2>2, <3>1
    <3> QED BY <3>2 DEF Proper
  <2>5. CASE k = 3 * i
    <3>1. code[k] = store(i)
      BY <1>1, <2>5
    <3>2. code[k].op = "store" /\ code[k].dest <= f.regs
      BY <1>1, <1>2, <2>2, <3>1
    <3>4. code[k].args = store(i).args /\ Has(f, 2 * i - 1, "ptr")
      BY <1>1, <1>3, <3>1
    <3>5. Len(store(i).args) = 2 /\ store(i).args[2] = 2 * i - 1
      BY <1>2
    <3>3. Len(code[k].args) = 2 /\ Has(f, code[k].args[2], "ptr")
      BY <3>4, <3>5
    <3> QED BY <3>2, <3>3 DEF Proper
  <2> QED BY <2>1, <2>3, <2>4, <2>5
<1>5. ParamsAt(f)
  <2>1. ASSUME NEW k \in DOMAIN code, code[k].op = "param" PROVE k \in {3 * i - 1 : i \in 1 .. n}
    <3>1. PICK i \in 1 .. n : k = 3 * i - 2 \/ k = 3 * i - 1 \/ k = 3 * i
      BY <1>1
    <3>3. CASE k = 3 * i - 2
      <4>1. code[k] = alloca(i)
        BY <1>1, <3>3
      <4> QED BY <1>2, <2>1, <4>1
    <3>4. CASE k = 3 * i
      <4>1. code[k] = store(i)
        BY <1>1, <3>4
      <4> QED BY <1>2, <2>1, <4>1
    <3>2. k = 3 * i - 1
      BY <3>1, <3>3, <3>4
    <3> QED BY <3>2
  <2>2. ASSUME NEW i \in 1 .. n PROVE 3 * i - 1 \in DOMAIN code /\ code[3 * i - 1].op = "param"
    BY <1>1, <1>2
  <2>3. {k \in DOMAIN code : code[k].op = "param"} = {3 * i - 1 : i \in 1 .. n}
    BY <2>1, <2>2
  <2> QED BY <1>7, <2>3 DEF ParamsAt
<1>6. IsSeq(f.body)
  BY NoneSeq
<1> QED BY <1>3, <1>4, <1>5, <1>6, <1>7 DEF Tidy, Open

LEMMA FunctionTyped ==
  ASSUME IInv, KInv, VisitFunctionDecl
  PROVE  KInv'
<1> DEFINE d == decls[1]
           ps == d.params
           f == [name |-> d.name, params |-> d.params, returns |-> d.returns,
                 code |-> ParamCode(d.params), regs |-> 2 * Len(d.params), body |-> <<>>]
           n == Len(done) + 1
<1>1. /\ fn.name = "" /\ decls # <<>> /\ d.node = "fn" /\ fn' = f
      /\ slots' = [x \in InSeq(ps) |-> 2 * Position(ps, x) - 1]
      /\ scope' = [x \in InSeq(ps) |-> "int"]
      /\ pool' = pool /\ decls' = decls /\ done' = done /\ last' = last
      /\ visits' = visits /\ stage' = stage
  BY DEF VisitFunctionDecl
<1>2. /\ pool \in Pools /\ IsSeq(decls) /\ InSeq(decls) \subseteq InSeq(pool.module)
  BY DEF IInv, Fixed
<1>3. d \in InSeq(pool.module)
  <2>1. Len(decls) \in Nat \ {0} /\ DOMAIN decls = 1 .. Len(decls)
    BY <1>1, <1>2, FrontSeq
  <2>2. 1 \in DOMAIN decls
    BY <2>1
  <2> QED BY <1>2, <2>2 DEF InSeq
<1>4. IsSeq(d.params)
  BY <1>1, <1>2, <1>3, PoolsAssumption
<1>5. /\ f.name = d.name /\ f.params = ps /\ f.code = ParamCode(f.params)
      /\ f.regs = 2 * Len(f.params) /\ f.body = <<>>
  OBVIOUS
<1>11. pool' = pool /\ decls' = decls /\ done' = done /\ visits' = <<>>
  BY <1>1 DEF IInv, Current
<1> HIDE DEF f
<1>6. /\ Tidy(f, n) /\ Open(f) /\ \A i \in DOMAIN ps : Has(f, 2 * i - 1, "ptr")
  BY <1>4, <1>5, ParamsTyped
<1>7. \A x \in DOMAIN slots' : Has(f, slots'[x], "ptr")
  <2> SUFFICES ASSUME NEW x \in InSeq(ps)
               PROVE  Has(f, slots'[x], "ptr")
    BY <1>1
  <2>1. Position(ps, x) \in DOMAIN ps
    BY DEF Position, InSeq
  <2>2. slots'[x] = 2 * Position(ps, x) - 1
    BY <1>1
  <2> QED BY <1>6, <2>1, <2>2
<1>8. Visited'
  BY <1>1, <1>5, <1>11 DEF KInv, Visited
<1>9. Compiled'
  BY <1>11 DEF KInv, Compiled, Tidy, Proper, Callee
<1>10. Active'
  <2>1. ~Returned'
    BY <1>1, <1>5 DEF Returned
  <2>2. Frames(f, n, visits') /\ Returning(f, visits', last')
    BY <1>11, NoneSeq DEF Frames, Returning
  <2>5. pool' = pool /\ done' = done /\ fn' = f
    BY <1>1, <1>11
  <2>6. Tidy(fn, Len(done) + 1)'
    BY <1>6, <2>5 DEF Tidy, Proper, Callee
  <2>3. Frames(fn, Len(done) + 1, visits)'
    BY <2>2, <2>5 DEF Frames, Filled, Callee
  <2>4. \A x \in DOMAIN scope' : scope'[x] = "int"
    BY <1>1
  <2>7. Returning(fn, visits, last)'
    BY <2>2, <2>5
  <2>8. \A x \in DOMAIN slots' : Has(fn', slots'[x], "ptr")
    BY <1>7, <2>5
  <2> QED BY <1>6, <2>1, <2>3, <2>4, <2>5, <2>6, <2>7, <2>8 DEF Active
<1> QED BY <1>8, <1>9, <1>10 DEF KInv

LEMMA EndFunctionTyped ==
  ASSUME IInv, KInv, EndFunction
  PROVE  KInv'
<1> DEFINE n == Len(done) + 1
           i == Instr("ret", NoReg, <<>>, "", "")
           g == Emit(fn, i)
<1>1. /\ fn.name # "" /\ visits = <<>> /\ done' = Append(done, g)
      /\ fn' = NoFunction /\ decls' = Tail(decls) /\ pool' = pool
  BY DEF EndFunction
<1>2. /\ Sound(fn) /\ Tidy(fn, n) /\ (Open(fn) \/ Shut(fn))
  BY <1>1, Facts DEF KInv, Active
<1>3. i \in InstrType /\ i.args = <<>> /\ i.op = "ret" /\ i.dest = NoReg
  <2>1. "ret" \in Opcodes /\ "" \in Names /\ "" \in Immediates /\ NoReg \in Nat
    BY OperatorsKnown DEF Names, Immediates, NoReg
  <2>2. <<>> \in Seq(Nat)
    OBVIOUS
  <2> QED BY <2>1, <2>2, InstrTyped DEF Instr
<1>4. Proper(fn, n, i)
  BY PlainProper
<1> HIDE DEF i
<1>5. Tidy(g, n) /\ g.name = fn.name /\ g.params = fn.params /\ g.code = Append(fn.code, i)
  <2>1. \A a \in DOMAIN i.args : i.args[a] \in 1 .. fn.regs
    BY <1>3, NoneSeq
  <2> QED BY <1>2, <1>3, <1>4, <2>1, EmitTidy DEF Extends
<1> HIDE DEF g
<1>6. Shut(g)
  <2>1. IsSeq(fn.code)
    BY <1>2, RangeSeq DEF Sound, Typed
  <2> QED BY <1>2, <1>3, <1>5, <2>1, Shutting
<1>7. /\ Len(done) \in Nat /\ DOMAIN done = 1 .. Len(done) /\ DOMAIN done' = 1 .. Len(done) + 1
      /\ Len(done') = Len(done) + 1 /\ done'[Len(done) + 1] = g
      /\ \A k \in 1 .. Len(done) : done'[k] = done[k]
  <2> DEFINE t == Append(done, g)
  <2>1. IsSeq(done)
    BY DEF IInv, Fixed
  <2>2. /\ Len(done) \in Nat /\ DOMAIN done = 1 .. Len(done) /\ DOMAIN t = 1 .. Len(done) + 1
        /\ Len(t) = Len(done) + 1 /\ t[Len(done) + 1] = g
        /\ \A k \in 1 .. Len(done) : t[k] = done[k]
    BY <2>1, AppendSeq
  <2>3. done' = t
    BY <1>1
  <2> HIDE DEF t
  <2> QED BY <2>2, <2>3
<1>8. /\ Len(decls) \in Nat \ {0} /\ DOMAIN decls = 1 .. Len(decls)
      /\ Len(decls') = Len(decls) - 1 /\ DOMAIN decls' = 1 .. Len(decls) - 1
      /\ \A k \in DOMAIN decls' : decls'[k] = decls[k + 1]
  <2> DEFINE S == InSeq(decls)
  <2>1. decls \in Seq(S) /\ decls # <<>>
    BY <1>1 DEF IInv, Fixed, Current, IsSeq
  <2> HIDE DEF S
  <2>2. /\ Len(decls) \in Nat \ {0} /\ DOMAIN decls = 1 .. Len(decls)
        /\ Len(Tail(decls)) = Len(decls) - 1 /\ DOMAIN Tail(decls) = 1 .. Len(decls) - 1
        /\ \A k \in DOMAIN Tail(decls) : Tail(decls)[k] = decls[k + 1]
    BY <2>1
  <2> QED BY <1>1, <2>2
<1>9. pool' = pool
  BY <1>1
<1>10. /\ Len(done) + Len(decls) = Len(pool.module)
       /\ \A k \in DOMAIN decls : decls[k] = pool.module[Len(done) + k]
       /\ \A k \in DOMAIN done : /\ pool.module[k].node = "fn"
                                 /\ done[k].name = pool.module[k].name
                                 /\ done[k].params = pool.module[k].params
       /\ decls[1].node = "fn" /\ fn.name = decls[1].name /\ fn.params = decls[1].params
  BY <1>1 DEF KInv, Visited
<1>11. Visited'
  <2>1. Len(done') + Len(decls') = Len(pool.module)
    <3> DEFINE a == Len(done)
               b == Len(decls)
    <3>1. /\ a \in Nat /\ b \in Nat \ {0} /\ Len(done') = a + 1 /\ Len(decls') = b - 1
          /\ a + b = Len(pool.module)
      BY <1>7, <1>8, <1>10
    <3> HIDE DEF a, b
    <3>2. (a + 1) + (b - 1) = a + b
      BY <3>1
    <3> QED BY <3>1, <3>2
  <2>2. \A k \in DOMAIN decls' : decls'[k] = pool.module[Len(done') + k]
    <3> SUFFICES ASSUME NEW k \in DOMAIN decls' PROVE decls'[k] = pool.module[Len(done') + k]
      OBVIOUS
    <3>1. k + 1 \in DOMAIN decls /\ k \in Nat /\ Len(done) + (k + 1) = Len(done') + k
      BY <1>7, <1>8
    <3> QED BY <1>8, <1>10, <3>1
  <2>3. ASSUME NEW k \in DOMAIN done'
        PROVE  /\ pool.module[k].node = "fn" /\ done'[k].name = pool.module[k].name
               /\ done'[k].params = pool.module[k].params
    <3>1. CASE k \in DOMAIN done
      BY <1>7, <1>10, <3>1
    <3>2. CASE k = Len(done) + 1
      <4>1. 1 \in DOMAIN decls
        BY <1>8
      <4>2. decls[1] = pool.module[k]
        BY <1>10, <3>2, <4>1
      <4> QED BY <1>5, <1>7, <1>10, <3>2, <4>2
    <3> QED BY <1>7, <3>1, <3>2
  <2>4. fn'.name = ""
    BY <1>1, NoFunctionSound
  <2> QED BY <1>9, <2>1, <2>2, <2>3, <2>4 DEF Visited
<1>12. Compiled'
  <2>1. ASSUME NEW k \in DOMAIN done' PROVE Tidy(done'[k], k) /\ Shut(done'[k])
    <3>1. CASE k \in DOMAIN done
      BY <1>7, <3>1 DEF KInv, Compiled
    <3>2. CASE k = Len(done) + 1
      BY <1>5, <1>6, <1>7, <3>2
    <3> QED BY <1>7, <3>1, <3>2
  <2>2. ASSUME NEW k \in DOMAIN done' PROVE Tidy(done[k], k)'
    BY <1>9, <2>1 DEF Tidy, Proper, Callee
  <2> QED BY <2>1, <2>2 DEF Compiled
<1>13. Active'
  BY <1>1, NoFunctionSound DEF Active
<1> QED BY <1>11, <1>12, <1>13 DEF KInv

LEMMA ModuleTyped ==
  ASSUME IInv, KInv, VisitGlobal \/ EndModule \/ UNCHANGED genVars
  PROVE  KInv'
<1>1. /\ pool' = pool /\ decls' = decls /\ done' = done /\ fn' = fn /\ slots' = slots
      /\ last' = last /\ visits' = visits /\ scope' = scope
  BY DEF VisitGlobal, EndModule, genVars
<1>2. Visited'
  BY <1>1 DEF KInv, Visited
<1>3. Compiled'
  BY <1>1 DEF KInv, Compiled, Tidy, Proper, Callee
<1>4. Returned' = Returned
  BY <1>1 DEF Returned
<1>5. fn.name # "" => /\ Tidy(fn, Len(done) + 1) /\ Frames(fn, Len(done) + 1, visits)
  BY DEF KInv, Active
<1>6. ASSUME fn.name # "" PROVE Tidy(fn, Len(done) + 1)' /\ Frames(fn, Len(done) + 1, visits)'
  <2>1. pool' = pool /\ done' = done /\ fn' = fn /\ visits' = visits
    BY <1>1
  <2>2. Tidy(fn, Len(done) + 1) /\ Frames(fn, Len(done) + 1, visits)
    BY <1>5, <1>6
  <2>3. Tidy(fn, Len(done) + 1)'
    BY <2>1, <2>2 DEF Tidy, Proper, Callee
  <2>4. Frames(fn, Len(done) + 1, visits)'
    BY <2>1, <2>2 DEF Frames, Filled, Callee
  <2> QED BY <2>3, <2>4
<1>7. Active'
  BY <1>1, <1>4, <1>6 DEF KInv, Active
<1> QED BY <1>2, <1>3, <1>7 DEF KInv

LEMMA InitTyped ==
  ASSUME Init
  PROVE  KInv
<1>1. /\ decls = pool.module /\ pool \in Pools /\ done = <<>> /\ fn = NoFunction
  BY DEF Init
<1>2. Len(decls) \in Nat /\ DOMAIN decls = 1 .. Len(decls)
  <2>1. IsSeq(decls)
    BY <1>1, PoolsAssumption
  <2> QED BY <2>1, AppendSeq
<1>3. Len(done) = 0 /\ DOMAIN done = {}
  BY <1>1, NoneSeq
<1>4. fn.name = ""
  BY <1>1, NoFunctionSound
<1>5. Visited
  <2>1. \A i \in DOMAIN decls : Len(done) + i = i
    BY <1>2, <1>3
  <2>2. Len(done) + Len(decls) = Len(pool.module)
    BY <1>1, <1>2, <1>3
  <2>3. \A i \in DOMAIN decls : decls[i] = pool.module[Len(done) + i]
    BY <1>1, <2>1
  <2> QED BY <1>3, <1>4, <2>2, <2>3 DEF Visited
<1> QED BY <1>3, <1>4, <1>5 DEF KInv, Compiled, Active

LEMMA NextTyped ==
  ASSUME IInv, KInv, Supported, [GenNext]_genVars
  PROVE  KInv'
<1>1. CASE VisitFunctionDecl
  BY <1>1, FunctionTyped
<1>2. CASE EndFunction
  BY <1>2, EndFunctionTyped
<1>3. CASE VisitGlobal \/ EndModule \/ UNCHANGED genVars
  BY <1>3, ModuleTyped
<1>4. ASSUME NEW x \in pool.names, VisitVarDecl(x) PROVE KInv'
  BY <1>4, VarDeclTyped
<1>5. CASE EndVarDecl
  BY <1>5, EndVarDeclTyped
<1>6. CASE VisitExprStmt \/ VisitReturn
  BY <1>6, EnteredTyped
<1>7. CASE EndExprStmt
  BY <1>7, EndExprStmtTyped
<1>8. CASE EndReturn
  BY <1>8, EndReturnTyped
<1>9. ASSUME NEW l \in pool.literals, VisitLiteral(l) PROVE KInv'
  BY <1>9, LiteralTyped
<1>10. CASE (\E x \in pool.names : VisitVariable(x)) \/ (\E x \in Declared \cup pool.imports : VisitSymbol(x))
  BY <1>10, NamesTyped
<1>11. ASSUME NEW x \in Bare, VisitBare(x) PROVE KInv'
  BY <1>11, BareTyped
<1>12. CASE \/ \E o \in Binaries : VisitBinary(o)
            \/ \E o \in {"-", "!", "~", "*", "&"} : VisitUnary(o)
            \/ \E m \in pool.members : VisitMember(m)
            \/ VisitIndex
            \/ \E o \in {"", "narrow"} : VisitCast(o)
            \/ \E n \in 0 .. Len(Element) : VisitArray(n)
  BY <1>12, VisitsTyped
<1>13. CASE LowerBinary
  BY <1>13, BinaryTyped
<1>14. CASE LowerUnary
  BY <1>14, UnaryTyped
<1>15. ASSUME NEW o \in Compounds \cup {"="}, NEW x \in pool.names \cup {NoName},
              VisitAssign(o, x)
       PROVE  KInv'
  BY <1>15, AssignTyped
<1>16. CASE LowerAssign
  BY <1>16, StoredTyped
<1>17. CASE LowerMember \/ LowerIndex \/ LowerCast
  BY <1>17, PlaceholdersTyped
<1>18. CASE StoreElement
  BY <1>18, ElementTyped
<1>19. CASE LowerArray
  BY <1>19, ArrayTyped
<1>20. ASSUME NEW x \in Declared \cup Builtins \cup {Indirect}, NEW n \in 0 .. 2,
              VisitCall(x, n)
       PROVE  KInv'
  BY <1>20, CallTyped
<1>21. CASE LowerCall
  BY <1>21, CalledTyped
<1> QED BY <1>1, <1>2, <1>3, <1>4, <1>5, <1>6, <1>7, <1>8, <1>9, <1>10, <1>11, <1>12,
           <1>13, <1>14, <1>15, <1>16, <1>17, <1>18, <1>19, <1>20, <1>21 DEF GenNext

-----------------------------------------------------------------------------
(***************************************************************************)
(* The LLVM module.  s has the functions lowered so far, the first n, and  *)
(* what the code generator declares itself.                                *)
(***************************************************************************)
Table(s, n) ==
  /\ \A x \in DOMAIN s : \/ x \in CSymbols /\ ~s[x].body
                         \/ \E h \in 1 .. n : x = done[h].name
  /\ \A h \in 1 .. n : LET x == done[h].name
                       IN  /\ x \in DOMAIN s /\ s[x].body /\ s[x].ret \in {"void", "i64"}
                           /\ s[x].params = Len(done[h].params)
Right(i, s) ==
  /\ i.op = "call" => /\ i.sym \in DOMAIN s /\ s[i.sym].body /\ Len(i.args) = s[i.sym].params
                      /\ Types(i.args) \subseteq {"i64"}
  /\ i.op \in CSymbols => i.op \in DOMAIN s /\ ~s[i.op].body
  /\ i.op \in IntOps \cup Truths \cup {"exit", "usleep", "ret"} => Types(i.args) \subseteq {"i64"}
  /\ i.op \in Compares => Types(i.args) = {"i64"}
  /\ i.op = "load" => i.args[1].type = "ptr"
  /\ i.op = "store" => i.args[2].type = "ptr"
  /\ i.op = "printf" => Types(i.args) \subseteq {"i64", "ptr"}
Lowered ==
  /\ stage # "generated" => bodies = <<>> /\ syms = <<>> /\ verdict = "none"
  /\ verdict # "rejected"
  /\ IsSeq(bodies) /\ Len(bodies) <= Len(done)
  /\ Table(syms, Len(bodies))
  /\ \A b \in DOMAIN bodies : \A k \in DOMAIN bodies[b].code : Right(bodies[b].code[k], syms)

(***************************************************************************)
(* The code generator.  s has the symbols that a function began with, e is *)
(* what the first p of its instructions have become.                       *)
(***************************************************************************)
Grows(s, t) == \A x \in DOMAIN s : x \in DOMAIN t /\ t[x] = s[x]

Ready(f, n) ==
  f.code \in Seq(InstrType) /\ DefinedBefore(f.code) /\ Tidy(f, n) /\ Shut(f)
Named(n) ==
  \A h \in 1 .. n : /\ done[h].name \notin Builtins \cup CSymbols
                    /\ pool.module[h].name = done[h].name
                    /\ pool.module[h].params = done[h].params

Bound(e, f, p) ==
  \A r \in DOMAIN e.regs :
    \E k \in 1 .. p : f.code[k].dest = r /\ e.regs[r].type = TypeOf(f.code[k])
Reached(e, f, p) ==
  ~Terminated(e.code) /\ (\A k \in 1 .. p : f.code[k].op # "block") =>
    \A k \in 1 .. p : f.code[k].dest # NoReg /\ TypeOf(f.code[k]) = "ptr" =>
                        f.code[k].dest \in DOMAIN e.regs
Emitted(e, s, f, n, p) ==
  /\ DOMAIN e = {"syms", "code", "regs", "ret"}
  /\ IsSeq(e.code) /\ \A k \in DOMAIN e.code : Right(e.code[k], e.syms)
  /\ Table(e.syms, n) /\ Grows(s, e.syms)
  /\ Bound(e, f, p) /\ Reached(e, f, p)

LEMMA RightKept ==
  ASSUME NEW s, NEW t, Grows(s, t), NEW i, Right(i, s)
  PROVE  Right(i, t)
BY DEF Right, Grows

LEMMA GrowsOn ==
  ASSUME NEW s, NEW t, NEW u, Grows(s, t), Grows(t, u)
  PROVE  Grows(s, u)
BY DEF Grows

\* Instructions appended.
LEMMA Appended ==
  ASSUME NEW c, IsSeq(c), NEW s, \A k \in DOMAIN c : Right(c[k], s), NEW i, Right(i, s)
  PROVE  IsSeq(Append(c, i)) /\ \A k \in DOMAIN Append(c, i) : Right(Append(c, i)[k], s)
<1> DEFINE t == Append(c, i)
           m == Len(c)
<1>1. /\ m \in Nat /\ DOMAIN c = 1 .. m /\ IsSeq(t) /\ DOMAIN t = 1 .. m + 1
      /\ t[m + 1] = i /\ \A k \in 1 .. m : t[k] = c[k]
  BY AppendSeq
<1> HIDE DEF t, m
<1>2. ASSUME NEW k \in DOMAIN t PROVE Right(t[k], s)
  <2>1. k \in 1 .. m \/ k = m + 1
    BY <1>1
  <2> QED BY <1>1, <2>1
<1> QED BY <1>1, <1>2 DEF t

\* One instruction more.  g has the code and the symbols, and a value when the
\* instruction has one.
LEMMA OneMore ==
  ASSUME NEW e, NEW s, NEW f, NEW n, NEW p \in Nat, Emitted(e, s, f, n, p),
         NEW g, DOMAIN g = {"syms", "code", "regs", "ret"},
         IsSeq(g.code), \A k \in DOMAIN g.code : Right(g.code[k], g.syms),
         Table(g.syms, n), Grows(e.syms, g.syms),
         f.code[p + 1].op = "block" \/ ~Terminated(e.code),
         \/ /\ g.regs = e.regs
            /\ \/ f.code[p + 1].op \in {"block", "store", "ret"}
               \/ f.code[p + 1].op = "call"
         \/ \E v : /\ v.type = TypeOf(f.code[p + 1])
                   /\ g.regs = [q \in DOMAIN e.regs \cup {f.code[p + 1].dest} |->
                                  IF q = f.code[p + 1].dest THEN v ELSE e.regs[q]]
  PROVE  Emitted(g, s, f, n, p + 1)
<1> DEFINE i == f.code[p + 1]
           d == i.dest
<1>1. p + 1 \in 1 .. p + 1 /\ \A k \in 1 .. p : k \in 1 .. p + 1
  OBVIOUS
<1>2. \A k \in 1 .. p + 1 : k \in 1 .. p \/ k = p + 1
  OBVIOUS
<1>3. Grows(s, g.syms)
  BY GrowsOn DEF Emitted
<1>4. Bound(e, f, p) /\ Reached(e, f, p)
  BY DEF Emitted
<1>5. CASE g.regs = e.regs /\ i.op \in {"block", "store", "ret", "call"}
  <2>1. Bound(g, f, p + 1)
    BY <1>1, <1>4, <1>5 DEF Bound
  <2>2. TypeOf(i) # "ptr"
    BY <1>5 DEF TypeOf
  <2>3. Reached(g, f, p + 1)
    BY <1>1, <1>2, <1>4, <1>5, <2>2 DEF Reached
  <2> QED BY <1>3, <2>1, <2>3 DEF Emitted
<1>6. ASSUME NEW v, v.type = TypeOf(i),
             g.regs = [q \in DOMAIN e.regs \cup {d} |-> IF q = d THEN v ELSE e.regs[q]]
      PROVE  Emitted(g, s, f, n, p + 1)
  <2>0. /\ DOMAIN g.regs = DOMAIN e.regs \cup {d} /\ g.regs[d] = v
        /\ \A r \in DOMAIN e.regs : r # d => g.regs[r] = e.regs[r]
    BY <1>6
  <2>1. Bound(g, f, p + 1)
    <3>1. ASSUME NEW r \in DOMAIN g.regs
          PROVE  \E k \in 1 .. p + 1 : f.code[k].dest = r /\ g.regs[r].type = TypeOf(f.code[k])
      <4>1. CASE r = d
        BY <1>1, <1>6, <2>0, <4>1
      <4>2. CASE r # d
        BY <1>1, <1>4, <2>0, <4>2 DEF Bound
      <4> QED BY <4>1, <4>2
    <3> QED BY <3>1 DEF Bound
  <2>2. Reached(g, f, p + 1)
    <3> SUFFICES ASSUME ~Terminated(g.code), \A k \in 1 .. p + 1 : f.code[k].op # "block",
                        NEW k \in 1 .. p + 1, f.code[k].dest # NoReg, TypeOf(f.code[k]) = "ptr"
                 PROVE  f.code[k].dest \in DOMAIN g.regs
      BY DEF Reached
    <3>1. ~Terminated(e.code)
      BY <1>1
    <3>2. CASE k = p + 1
      BY <2>0, <3>2
    <3>3. CASE k \in 1 .. p
      BY <1>1, <1>4, <2>0, <3>1, <3>3 DEF Reached
    <3> QED BY <1>2, <3>2, <3>3
  <2> QED BY <1>3, <2>1, <2>2 DEF Emitted
<1> QED BY <1>5, <1>6

\* The operands of an instruction.
LEMMA Resolved ==
  ASSUME NEW e, NEW f, NEW p \in Nat, p <= Len(f.code), f.code \in Seq(InstrType),
         Bound(e, f, p), NEW r, NEW t, Has(f, r, t)
  PROVE  /\ r \in DOMAIN e.regs => Resolve(e, r).type = t
         /\ r \notin DOMAIN e.regs => Resolve(e, r).type = "i64"
<1>1. CASE r \in DOMAIN e.regs
  <2>1. PICK k \in 1 .. p : f.code[k].dest = r /\ e.regs[r].type = TypeOf(f.code[k])
    BY <1>1 DEF Bound
  <2>2. k \in DOMAIN f.code
    OBVIOUS
  <2> QED BY <1>1, <2>1, <2>2 DEF Has, Resolve
<1>2. CASE r \notin DOMAIN e.regs
  BY <1>2 DEF Resolve, Undef, Val
<1> QED BY <1>1, <1>2

LEMMA AllNumbers ==
  ASSUME NEW e, NEW f, NEW p \in Nat, p <= Len(f.code), f.code \in Seq(InstrType),
         Bound(e, f, p), NEW regs \in Seq(Nat), \A a \in DOMAIN regs : Has(f, regs[a], "i64")
  PROVE  LET args == [a \in DOMAIN regs |-> Resolve(e, regs[a])]
         IN  Types(args) \subseteq {"i64"}
<1> DEFINE args == [a \in DOMAIN regs |-> Resolve(e, regs[a])]
<1>1. \A a \in DOMAIN regs : args[a] = Resolve(e, regs[a]) /\ args[a].type = "i64"
  BY Resolved
<1>2. DOMAIN args = DOMAIN regs
  OBVIOUS
<1> HIDE DEF args
<1> QED BY <1>1, <1>2 DEF Types, args

\* A pointer that is read is there.
LEMMA PointerThere ==
  ASSUME NEW e, NEW s, NEW f, NEW n, NEW p \in Nat, p < Len(f.code), Ready(f, n), Emitted(e, s, f, n, p),
         ~Terminated(e.code), \A k \in 1 .. p : f.code[k].op # "block",
         f.code[p + 1].op # "param", NEW a \in DOMAIN f.code[p + 1].args,
         Has(f, f.code[p + 1].args[a], "ptr")
  PROVE  Resolve(e, f.code[p + 1].args[a]).type = "ptr"
<1> DEFINE r == f.code[p + 1].args[a]
<1>1. f.code \in Seq(InstrType) /\ Len(f.code) \in Nat /\ DOMAIN f.code = 1 .. Len(f.code)
  BY DEF Ready
<1>2. p + 1 \in DOMAIN f.code /\ (p + 1) - 1 = p
  BY <1>1
<1>3. PICK j \in 1 .. p : f.code[j].dest = r /\ f.code[j].dest # NoReg
  BY <1>2 DEF Ready, DefinedBefore
<1>4. j \in DOMAIN f.code
  BY <1>1
<1>5. TypeOf(f.code[j]) = "ptr"
  BY <1>3, <1>4 DEF Has
<1>6. r \in DOMAIN e.regs
  BY <1>3, <1>5 DEF Emitted, Reached
<1> HIDE DEF r
<1>7. Has(f, r, "ptr") /\ Bound(e, f, p)
  BY DEF r, Emitted
<1>8. Resolve(e, r).type = "ptr"
  BY <1>1, <1>6, <1>7, Resolved
<1> QED BY <1>8 DEF r

(***************************************************************************)
(* The parts of emit.                                                      *)
(***************************************************************************)
LEMMA DoParts ==
  ASSUME NEW e, DOMAIN e = {"syms", "code", "regs", "ret"}, NEW i
  PROVE  LET g == Do(e, i)
         IN  /\ DOMAIN g = {"syms", "code", "regs", "ret"}
             /\ g.syms = e.syms /\ g.regs = e.regs /\ g.ret = e.ret /\ g.code = Append(e.code, i)
BY DEF Do

LEMMA BindParts ==
  ASSUME NEW e, DOMAIN e = {"syms", "code", "regs", "ret"}, NEW r, NEW v
  PROVE  LET g == Bind(e, r, v)
         IN  /\ DOMAIN g = {"syms", "code", "regs", "ret"}
             /\ g.syms = e.syms /\ g.code = e.code /\ g.ret = e.ret
             /\ g.regs = [q \in DOMAIN e.regs \cup {r} |-> IF q = r THEN v ELSE e.regs[q]]
BY DEF Bind

LEMMA MakeParts ==
  ASSUME NEW e, DOMAIN e = {"syms", "code", "regs", "ret"}, NEW r, NEW type, NEW op, NEW args, NEW sym
  PROVE  LET g == Make(e, r, type, op, args, sym)
         IN  /\ DOMAIN g = {"syms", "code", "regs", "ret"}
             /\ g.syms = e.syms /\ g.code = Append(e.code, LL(op, r, args, sym)) /\ g.ret = e.ret
             /\ g.regs = [q \in DOMAIN e.regs \cup {r} |-> IF q = r THEN Val(type, r) ELSE e.regs[q]]
<1> DEFINE h == Do(e, LL(op, r, args, sym))
<1>1. /\ DOMAIN h = {"syms", "code", "regs", "ret"}
      /\ h.syms = e.syms /\ h.regs = e.regs /\ h.ret = e.ret
      /\ h.code = Append(e.code, LL(op, r, args, sym))
  BY DoParts
<1> HIDE DEF h
<1> DEFINE v == Val(type, r)
           t == Bind(h, r, v)
<1> HIDE DEF v
<1>2. /\ DOMAIN t = {"syms", "code", "regs", "ret"}
      /\ t.syms = h.syms /\ t.code = h.code /\ t.ret = h.ret
      /\ t.regs = [q \in DOMAIN h.regs \cup {r} |-> IF q = r THEN v ELSE h.regs[q]]
  BY <1>1 DEF Bind
<1>3. Make(e, r, type, op, args, sym) = t
  BY DEF Make, h, v
<1> HIDE DEF t
<1> QED BY <1>1, <1>2, <1>3 DEF v

\* A symbol of the C library is declared when it is missing.
LEMMA Declaring ==
  ASSUME NEW e, DOMAIN e = {"syms", "code", "regs", "ret"}, NEW n, Named(n), Table(e.syms, n),
         NEW x \in CSymbols, NEW sym, ~sym.body
  PROVE  LET g == Insert(e, x, sym)
         IN  /\ DOMAIN g = {"syms", "code", "regs", "ret"}
             /\ g.code = e.code /\ g.regs = e.regs /\ g.ret = e.ret
             /\ Table(g.syms, n) /\ Grows(e.syms, g.syms) /\ x \in DOMAIN g.syms /\ ~g.syms[x].body
<1> DEFINE g == Insert(e, x, sym)
<1>1. CASE x \in DOMAIN e.syms
  <2>1. g = e
    BY <1>1 DEF Insert
  <2>2. ~e.syms[x].body
    BY <1>1 DEF Table, Named
  <2> QED BY <1>1, <2>1, <2>2 DEF Grows
<1>2. CASE x \notin DOMAIN e.syms
  <2> DEFINE t == [y \in DOMAIN e.syms \cup {x} |-> IF y = x THEN sym ELSE e.syms[y]]
  <2>1. g = [e EXCEPT !.syms = t]
    BY <1>2 DEF Insert
  <2>2. /\ DOMAIN g = {"syms", "code", "regs", "ret"}
        /\ g.code = e.code /\ g.regs = e.regs /\ g.ret = e.ret /\ g.syms = t
    BY <2>1
  <2>3. /\ DOMAIN t = DOMAIN e.syms \cup {x} /\ t[x] = sym
        /\ \A y \in DOMAIN e.syms : t[y] = e.syms[y]
    BY <1>2
  <2> HIDE DEF g, t
  <2>4. Table(t, n)
    <3>1. \A y \in DOMAIN t : \/ y \in CSymbols /\ ~t[y].body
                              \/ \E h \in 1 .. n : y = done[h].name
      BY <2>3 DEF Table
    <3>2. ASSUME NEW h \in 1 .. n
          PROVE  LET y == done[h].name
                 IN  /\ y \in DOMAIN t /\ t[y].body /\ t[y].ret \in {"void", "i64"}
                     /\ t[y].params = Len(done[h].params)
      BY <2>3 DEF Table
    <3> QED BY <3>1, <3>2 DEF Table
  <2>5. Grows(e.syms, t)
    BY <2>3 DEF Grows
  <2> QED BY <2>2, <2>3, <2>4, <2>5 DEF g
<1> QED BY <1>1, <1>2

\* What e is followed by: h, which has its values and at least its symbols.
LEMMA Kept ==
  ASSUME NEW e, NEW s, NEW f, NEW n, NEW p, Emitted(e, s, f, n, p),
         NEW h, h.code = e.code, Grows(e.syms, h.syms)
  PROVE  IsSeq(h.code) /\ \A k \in DOMAIN h.code : Right(h.code[k], h.syms)
BY RightKept DEF Emitted

LEMMA Doing ==
  ASSUME NEW e, NEW s, NEW f, NEW n, NEW p \in Nat, Emitted(e, s, f, n, p),
         NEW h, DOMAIN h = {"syms", "code", "regs", "ret"}, h.regs = e.regs,
         IsSeq(h.code), \A k \in DOMAIN h.code : Right(h.code[k], h.syms),
         Table(h.syms, n), Grows(e.syms, h.syms),
         f.code[p + 1].op \in {"block", "store", "ret", "call"},
         f.code[p + 1].op = "block" \/ ~Terminated(e.code),
         NEW c, Right(c, h.syms)
  PROVE  Emitted(Do(h, c), s, f, n, p + 1)
<1> DEFINE g == Do(h, c)
<1>1. /\ DOMAIN g = {"syms", "code", "regs", "ret"}
      /\ g.syms = h.syms /\ g.regs = h.regs /\ g.code = Append(h.code, c)
  BY DoParts
<1> DEFINE t == h.syms
           d == h.code
<1>2. IsSeq(d) /\ \A k \in DOMAIN d : Right(d[k], t)
  OBVIOUS
<1>3. Right(c, t)
  OBVIOUS
<1> HIDE DEF g, t, d
<1>4. IsSeq(Append(d, c)) /\ \A k \in DOMAIN Append(d, c) : Right(Append(d, c)[k], t)
  BY <1>2, <1>3, Appended
<1>5. g.code = Append(d, c) /\ g.syms = t /\ g.regs = e.regs
  BY <1>1 DEF t, d
<1>6. IsSeq(g.code) /\ \A k \in DOMAIN g.code : Right(g.code[k], g.syms)
  BY <1>4, <1>5
<1>7. Table(g.syms, n) /\ Grows(e.syms, g.syms)
  BY <1>1
<1>8. Emitted(g, s, f, n, p + 1)
  BY <1>1, <1>5, <1>6, <1>7, OneMore
<1> QED BY <1>8 DEF g

LEMMA Binding ==
  ASSUME NEW e, NEW s, NEW f, NEW n, NEW p \in Nat, Emitted(e, s, f, n, p),
         NEW h, DOMAIN h = {"syms", "code", "regs", "ret"}, h.regs = e.regs,
         IsSeq(h.code), \A k \in DOMAIN h.code : Right(h.code[k], h.syms),
         Table(h.syms, n), Grows(e.syms, h.syms), ~Terminated(e.code),
         NEW v, v.type = TypeOf(f.code[p + 1])
  PROVE  Emitted(Bind(h, f.code[p + 1].dest, v), s, f, n, p + 1)
<1> DEFINE r == f.code[p + 1].dest
           g == Bind(h, r, v)
<1>1. /\ DOMAIN g = {"syms", "code", "regs", "ret"}
      /\ g.syms = h.syms /\ g.code = h.code
      /\ g.regs = [q \in DOMAIN h.regs \cup {r} |-> IF q = r THEN v ELSE h.regs[q]]
  BY DEF Bind
<1>2. g.regs = [q \in DOMAIN e.regs \cup {f.code[p + 1].dest} |->
                  IF q = f.code[p + 1].dest THEN v ELSE e.regs[q]]
  BY <1>1
<1> HIDE DEF g
<1>3. /\ IsSeq(g.code) /\ \A k \in DOMAIN g.code : Right(g.code[k], g.syms)
      /\ Table(g.syms, n) /\ Grows(e.syms, g.syms)
  BY <1>1
<1>4. \E w : /\ w.type = TypeOf(f.code[p + 1])
             /\ g.regs = [q \in DOMAIN e.regs \cup {f.code[p + 1].dest} |->
                            IF q = f.code[p + 1].dest THEN w ELSE e.regs[q]]
  BY <1>2
<1>5. Emitted(g, s, f, n, p + 1)
  BY <1>1, <1>3, <1>4, OneMore
<1> QED BY <1>5 DEF g, r

LEMMA Making ==
  ASSUME NEW e, NEW s, NEW f, NEW n, NEW p \in Nat, Emitted(e, s, f, n, p),
         NEW h, DOMAIN h = {"syms", "code", "regs", "ret"}, h.regs = e.regs,
         IsSeq(h.code), \A k \in DOMAIN h.code : Right(h.code[k], h.syms),
         Table(h.syms, n), Grows(e.syms, h.syms), ~Terminated(e.code),
         NEW op, NEW args, NEW sym, Right(LL(op, f.code[p + 1].dest, args, sym), h.syms)
  PROVE  Emitted(Make(h, f.code[p + 1].dest, TypeOf(f.code[p + 1]), op, args, sym), s, f, n, p + 1)
<1> DEFINE r == f.code[p + 1].dest
           c == LL(op, r, args, sym)
           d == Do(h, c)
           v == Val(TypeOf(f.code[p + 1]), r)
<1>0. /\ v.type = TypeOf(f.code[p + 1])
      /\ Make(h, f.code[p + 1].dest, TypeOf(f.code[p + 1]), op, args, sym) = Bind(d, f.code[p + 1].dest, v)
  BY DEF Val, Make
<1>1. Right(c, h.syms)
  OBVIOUS
<1> HIDE DEF c, v
<1>2. /\ DOMAIN d = {"syms", "code", "regs", "ret"}
      /\ d.syms = h.syms /\ d.regs = e.regs /\ d.code = Append(h.code, c)
  BY DoParts
<1> HIDE DEF d
<1> DEFINE t == h.syms
           b == h.code
<1>3. IsSeq(b) /\ (\A k \in DOMAIN b : Right(b[k], t)) /\ Right(c, t)
  BY <1>1
<1>4. d.code = Append(b, c) /\ d.syms = t
  BY <1>2
<1> HIDE DEF t, b
<1>5. IsSeq(Append(b, c)) /\ \A k \in DOMAIN Append(b, c) : Right(Append(b, c)[k], t)
  BY <1>3, Appended
<1>6. IsSeq(d.code) /\ \A k \in DOMAIN d.code : Right(d.code[k], d.syms)
  BY <1>4, <1>5
<1>7. Table(d.syms, n) /\ Grows(e.syms, d.syms)
  BY <1>2
<1>8. Emitted(Bind(d, f.code[p + 1].dest, v), s, f, n, p + 1)
  BY <1>0, <1>2, <1>6, <1>7, Binding
<1> QED BY <1>0, <1>8

\* Code behind a terminator.
LEMMA Skipping ==
  ASSUME NEW e, NEW s, NEW f, NEW n, NEW p \in Nat, Emitted(e, s, f, n, p),
         Terminated(e.code), f.code[p + 1].op # "block"
  PROVE  Emitted(e, s, f, n, p + 1)
<1>1. \A k \in 1 .. p : k \in 1 .. p + 1
  OBVIOUS
<1>2. Bound(e, f, p + 1)
  BY <1>1 DEF Emitted, Bound
<1>3. Reached(e, f, p + 1)
  BY DEF Reached
<1> QED BY <1>2, <1>3 DEF Emitted

(***************************************************************************)
(* Instructions that may stand anywhere, and those that take numbers.      *)
(***************************************************************************)
LEMMA Plain ==
  ASSUME NEW op \in {"block", "alloca", "arg", "const", "unreachable"},
         NEW id, NEW args, NEW sym, NEW s
  PROVE  Right(LL(op, id, args, sym), s)
BY DEF Right, LL, CSymbols, IntOps, Truths, Compares

Operators == IntOps \cup Compares \cup Truths
LEMMA OpsMapped ==
  ASSUME NEW op \in Opcodes,
         op \notin {"alloca", "param", "load", "store", "copy", "cast", "call", "ret", "block"}
  PROVE  LLVMOp(op) \in Operators
<1>1. CASE op \in {"neg", "lnot", "bnot"}
  BY <1>1 DEF LLVMOp, Operators, IntOps, Compares, Truths
<1>2. ASSUME NEW o \in Binaries, op = binaryOpToOpcode(o)
      PROVE  LLVMOp(op) \in Operators
  <2>1. CASE o \in Arithmetic
    BY <1>2, <2>1 DEF Arithmetic, binaryOpToOpcode, LLVMOp, Operators, IntOps, Compares, Truths
  <2>2. CASE o \in Comparison
    BY <1>2, <2>2 DEF Comparison, binaryOpToOpcode, LLVMOp, Operators, IntOps, Compares, Truths
  <2>3. CASE o \in Logical
    BY <1>2, <2>3 DEF Logical, binaryOpToOpcode, LLVMOp, Operators, IntOps, Compares, Truths
  <2>4. CASE o \in Bitwise
    BY <1>2, <2>4 DEF Bitwise, binaryOpToOpcode, LLVMOp, Operators, IntOps, Compares, Truths
  <2> QED BY <2>1, <2>2, <2>3, <2>4 DEF Binaries
<1> QED BY <1>1, <1>2 DEF Opcodes

LEMMA Numeric ==
  ASSUME NEW op \in Operators, NEW id, NEW args, Types(args) = {"i64"}, NEW sym, NEW s
  PROVE  Right(LL(op, id, args, sym), s)
<1>1. op \notin {"call", "load", "store", "printf"} \cup CSymbols
  BY DEF Operators, IntOps, Compares, Truths, CSymbols
<1> QED BY <1>1 DEF Right, LL

LEMMA Returns ==
  ASSUME NEW args, Types(args) \subseteq {"i64"}, NEW s
  PROVE  Right(LL("ret", NoReg, args, ""), s)
BY DEF Right, LL, CSymbols, IntOps, Compares, Truths

LEMMA Loads ==
  ASSUME NEW id, NEW args, args[1].type = "ptr", NEW s
  PROVE  Right(LL("load", id, args, ""), s)
BY DEF Right, LL, CSymbols, IntOps, Compares, Truths

LEMMA Stores ==
  ASSUME NEW args, args[2].type = "ptr", NEW s
  PROVE  Right(LL("store", NoReg, args, ""), s)
BY DEF Right, LL, CSymbols, IntOps, Compares, Truths

LEMMA Libraries ==
  ASSUME NEW op \in CSymbols, NEW s, op \in DOMAIN s, ~s[op].body, NEW id, NEW sym,
         NEW args, \/ Types(args) \subseteq {"i64"}
                   \/ op = "printf" /\ Types(args) \subseteq {"i64", "ptr"}
  PROVE  Right(LL(op, id, args, sym), s)
BY DEF Right, LL, CSymbols, IntOps, Compares, Truths

LEMMA Calls ==
  ASSUME NEW s, NEW sym \in DOMAIN s, s[sym].body, NEW id,
         NEW args, Types(args) \subseteq {"i64"}, Len(args) = s[sym].params
  PROVE  Right(LL("call", id, args, sym), s)
BY DEF Right, LL, CSymbols, IntOps, Compares, Truths

Values(e, i) == [a \in DOMAIN i.args |-> Resolve(e, i.args[a])]

LEMMA Reading ==
  ASSUME NEW f, NEW n, NEW p \in Nat, p < Len(f.code), Ready(f, n)
  PROVE  LET i == f.code[p + 1]
         IN  /\ f.code \in Seq(InstrType) /\ p <= Len(f.code)
             /\ p + 1 \in DOMAIN f.code /\ i \in InstrType /\ Proper(f, n, i)
             /\ i.op \in Opcodes /\ i.args \in Seq(Nat)
<1>1. f.code \in Seq(InstrType) /\ Len(f.code) \in Nat /\ DOMAIN f.code = 1 .. Len(f.code)
  BY DEF Ready
<1>2. p + 1 \in DOMAIN f.code /\ p <= Len(f.code)
  BY <1>1
<1>3. f.code[p + 1] \in InstrType
  BY <1>1, <1>2
<1>4. Proper(f, n, f.code[p + 1])
  BY <1>2 DEF Ready, Tidy
<1>5. f.code[p + 1].op \in Opcodes /\ f.code[p + 1].args \in Seq(Nat)
  BY <1>3 DEF InstrType
<1> QED BY <1>1, <1>2, <1>3, <1>4, <1>5

\* What e is, seen as the h of Doing, Binding and Making.
LEMMA Self ==
  ASSUME NEW e, NEW s, NEW f, NEW n, NEW p, Emitted(e, s, f, n, p)
  PROVE  /\ DOMAIN e = {"syms", "code", "regs", "ret"}
         /\ IsSeq(e.code) /\ \A k \in DOMAIN e.code : Right(e.code[k], e.syms)
         /\ Table(e.syms, n) /\ Grows(e.syms, e.syms)
BY DEF Emitted, Grows

Numeral(f, i) == \A a \in DOMAIN i.args : Has(f, i.args[a], "i64")
SomeI64(vs) == Types(vs) = {"i64"} /\ vs[1].type = "i64"

LEMMA NoValues ==
  ASSUME NEW e, NEW i, i.args \in Seq(Nat)
  PROVE  /\ Values(e, i) = <<>> <=> i.args = <<>>
         /\ DOMAIN Values(e, i) = DOMAIN i.args
         /\ \A a \in DOMAIN i.args : Values(e, i)[a] = Resolve(e, i.args[a])
BY DEF Values

LEMMA NumbersRead ==
  ASSUME NEW e, NEW s, NEW f, NEW n, NEW p \in Nat, p < Len(f.code), Ready(f, n),
         Emitted(e, s, f, n, p), NEW i, i = f.code[p + 1],
         Numeral(f, i)
  PROVE  Types(Values(e, i)) \subseteq {"i64"}
<1>1. i.args \in Seq(Nat) /\ p <= Len(f.code) /\ f.code \in Seq(InstrType)
  BY Reading
<1>2. Bound(e, f, p)
  BY DEF Emitted
<1>3. PICK regs \in Seq(Nat) : regs = i.args
  BY <1>1
<1>4. \A a \in DOMAIN regs : Has(f, regs[a], "i64")
  BY <1>3 DEF Numeral
<1> DEFINE vs == [a \in DOMAIN regs |-> Resolve(e, regs[a])]
<1>5. Types(vs) \subseteq {"i64"}
  BY <1>1, <1>2, <1>4, AllNumbers
<1>6. Values(e, i) = vs
  BY <1>3 DEF Values
<1> HIDE DEF vs
<1> QED BY <1>5, <1>6

LEMMA SomeNumbers ==
  ASSUME NEW e, NEW s, NEW f, NEW n, NEW p \in Nat, p < Len(f.code), Ready(f, n),
         Emitted(e, s, f, n, p), NEW i, i = f.code[p + 1], Numeral(f, i), i.args # <<>>
  PROVE  SomeI64(Values(e, i))
<1>1. Types(Values(e, i)) \subseteq {"i64"}
  BY NumbersRead
<1>2. i.args \in Seq(Nat)
  BY Reading
<1>3. 1 \in DOMAIN i.args
  BY <1>2
<1>4. 1 \in DOMAIN Values(e, i)
  BY <1>2, <1>3, NoValues
<1>5. Values(e, i)[1].type \in Types(Values(e, i))
  BY <1>4 DEF Types
<1>6. SomeI64(Values(e, i))
  BY <1>1, <1>5 DEF SomeI64
<1> QED BY <1>6

LEMMA NoOperator ==
  ASSUME NEW op \in {"alloca", "param", "load", "store", "copy", "cast", "call", "ret", "block"}
  PROVE  LLVMOp(op) \notin IntOps
BY DEF LLVMOp, IntOps

\* emit, opcode by opcode.
LEMMA EmitParts ==
  ASSUME NEW e, NEW i
  PROVE  LET args == Values(e, i)
         IN  /\ i.op = "block" => emit(e, i) = Do(e, LL("block", NoReg, <<>>, ""))
             /\ i.op # "block" /\ Terminated(e.code) => emit(e, i) = e
             /\ ~Terminated(e.code) =>
                  /\ i.op = "alloca" => emit(e, i) = Make(e, i.dest, "ptr", "alloca", <<>>, i.sym)
                  /\ i.op = "param" => emit(e, i) = Make(e, i.dest, "i64", "arg", i.args, "")
                  /\ i.op = "load" =>
                       emit(e, i) = IF args = <<>> THEN Bind(e, i.dest, Undef)
                                    ELSE Make(e, i.dest, "i64", "load", args, "")
                  /\ i.op = "store" => emit(e, i) = Do(e, LL("store", NoReg, args, ""))
                  /\ i.op = "copy" =>
                       emit(e, i) = Make(e, i.dest, ImmType(i.imm), "const", <<>>, i.sym)
                  /\ i.op = "cast" => emit(e, i) = Bind(e, i.dest, args[1])
                  /\ i.op = "call" => emit(e, i) = EmitCall(e, i, args)
                  /\ i.op = "ret" =>
                       emit(e, i) =
                         Do(e, IF e.ret = "void" THEN LL("ret", NoReg, <<>>, "")
                               ELSE IF args = <<>> THEN LL("unreachable", NoReg, <<>>, "")
                               ELSE LL("ret", NoReg, args, ""))
                  /\ i.op \notin {"alloca", "param", "load", "store", "copy", "cast", "call",
                                  "ret", "block"} /\ 1 \in DOMAIN i.args =>
                       emit(e, i) = IF LLVMOp(i.op) \in IntOps
                                    THEN Make(e, i.dest, args[1].type, LLVMOp(i.op), args, "")
                                    ELSE Make(e, i.dest, "i64", LLVMOp(i.op), args, "")
<1> DEFINE args == Values(e, i)
<1>1. args = [a \in DOMAIN i.args |-> Resolve(e, i.args[a])]
  BY DEF Values
<1> HIDE DEF args
<1>2. i.op = "block" => emit(e, i) = Do(e, LL("block", NoReg, <<>>, ""))
  BY DEF emit
<1>3. i.op # "block" /\ Terminated(e.code) => emit(e, i) = e
  BY DEF emit
<1>4. ASSUME ~Terminated(e.code), i.op = "alloca"
      PROVE  emit(e, i) = Make(e, i.dest, "ptr", "alloca", <<>>, i.sym)
  BY <1>4, NoOperator DEF emit
<1>5. ASSUME ~Terminated(e.code), i.op = "param"
      PROVE  emit(e, i) = Make(e, i.dest, "i64", "arg", i.args, "")
  BY <1>5, NoOperator DEF emit
<1>6. ASSUME ~Terminated(e.code), i.op = "load"
      PROVE  emit(e, i) = IF args = <<>> THEN Bind(e, i.dest, Undef)
                          ELSE Make(e, i.dest, "i64", "load", args, "")
  BY <1>1, <1>6, NoOperator DEF emit
<1>7. ASSUME ~Terminated(e.code), i.op = "store"
      PROVE  emit(e, i) = Do(e, LL("store", NoReg, args, ""))
  BY <1>1, <1>7, NoOperator DEF emit
<1>8. ASSUME ~Terminated(e.code), i.op = "copy"
      PROVE  emit(e, i) = Make(e, i.dest, ImmType(i.imm), "const", <<>>, i.sym)
  BY <1>8, NoOperator DEF emit
<1>9. ASSUME ~Terminated(e.code), i.op = "cast"
      PROVE  emit(e, i) = Bind(e, i.dest, args[1])
  BY <1>1, <1>9, NoOperator DEF emit
<1>10. ASSUME ~Terminated(e.code), i.op = "call"
       PROVE  emit(e, i) = EmitCall(e, i, args)
  BY <1>1, <1>10, NoOperator DEF emit
<1>11. ASSUME ~Terminated(e.code), i.op = "ret"
       PROVE  emit(e, i) = Do(e, IF e.ret = "void" THEN LL("ret", NoReg, <<>>, "")
                                 ELSE IF args = <<>> THEN LL("unreachable", NoReg, <<>>, "")
                                 ELSE LL("ret", NoReg, args, ""))
  BY <1>1, <1>11, NoOperator DEF emit
<1>12. ASSUME ~Terminated(e.code),
              i.op \notin {"alloca", "param", "load", "store", "copy", "cast", "call", "ret", "block"},
              1 \in DOMAIN i.args
       PROVE  emit(e, i) = IF LLVMOp(i.op) \in IntOps
                           THEN Make(e, i.dest, args[1].type, LLVMOp(i.op), args, "")
                           ELSE Make(e, i.dest, "i64", LLVMOp(i.op), args, "")
  <2> DEFINE o == LLVMOp(i.op)
  <2> HIDE DEF o
  <2>1. emit(e, i) = IF o \in IntOps THEN Make(e, i.dest, args[1].type, o, args, "")
                     ELSE Make(e, i.dest, "i64", o, args, "")
    BY <1>1, <1>12 DEF emit, o
  <2> QED BY <2>1 DEF o
<1> QED BY <1>2, <1>3, <1>4, <1>5, <1>6, <1>7, <1>8, <1>9, <1>10, <1>11, <1>12 DEF args

\* Instructions without operands to check, and the skipped ones.
LEMMA PlainEmitted ==
  ASSUME NEW e, NEW s, NEW f, NEW n, NEW p \in Nat, p < Len(f.code), Ready(f, n),
         Emitted(e, s, f, n, p), NEW i, i = f.code[p + 1],
         \/ i.op = "block"
         \/ Terminated(e.code)
         \/ i.op \in {"alloca", "param", "copy"}
  PROVE  Emitted(emit(e, i), s, f, n, p + 1)
<1>0. /\ DOMAIN e = {"syms", "code", "regs", "ret"}
      /\ IsSeq(e.code) /\ \A k \in DOMAIN e.code : Right(e.code[k], e.syms)
      /\ Table(e.syms, n) /\ Grows(e.syms, e.syms)
  BY Self
<1>1. CASE i.op = "block"
  <2>1. emit(e, i) = Do(e, LL("block", NoReg, <<>>, ""))
    BY <1>1, EmitParts
  <2>2. Right(LL("block", NoReg, <<>>, ""), e.syms)
    BY Plain
  <2> QED BY <1>0, <1>1, <2>1, <2>2, Doing
<1>2. CASE i.op # "block" /\ Terminated(e.code)
  <2>1. emit(e, i) = e
    BY <1>2, EmitParts
  <2> QED BY <1>2, <2>1, Skipping
<1>3. CASE ~Terminated(e.code) /\ i.op = "alloca"
  <2>1. emit(e, i) = Make(e, i.dest, "ptr", "alloca", <<>>, i.sym)
    BY <1>3, EmitParts
  <2>2. TypeOf(i) = "ptr"
    BY <1>3 DEF TypeOf
  <2>3. Right(LL("alloca", i.dest, <<>>, i.sym), e.syms)
    BY Plain
  <2>4. Emitted(Make(e, i.dest, TypeOf(i), "alloca", <<>>, i.sym), s, f, n, p + 1)
    BY <1>0, <1>3, <2>3, Making
  <2> QED BY <2>1, <2>2, <2>4
<1>4. CASE ~Terminated(e.code) /\ i.op = "param"
  <2>1. emit(e, i) = Make(e, i.dest, "i64", "arg", i.args, "")
    BY <1>4, EmitParts
  <2>2. TypeOf(i) = "i64"
    BY <1>4 DEF TypeOf
  <2>3. Right(LL("arg", i.dest, i.args, ""), e.syms)
    BY Plain
  <2>4. Emitted(Make(e, i.dest, TypeOf(i), "arg", i.args, ""), s, f, n, p + 1)
    BY <1>0, <1>4, <2>3, Making
  <2> QED BY <2>1, <2>2, <2>4
<1>5. CASE ~Terminated(e.code) /\ i.op = "copy"
  <2>1. emit(e, i) = Make(e, i.dest, ImmType(i.imm), "const", <<>>, i.sym)
    BY <1>5, EmitParts
  <2>2. TypeOf(i) = ImmType(i.imm)
    BY <1>5 DEF TypeOf
  <2>3. Right(LL("const", i.dest, <<>>, i.sym), e.syms)
    BY Plain
  <2>4. Emitted(Make(e, i.dest, TypeOf(i), "const", <<>>, i.sym), s, f, n, p + 1)
    BY <1>0, <1>5, <2>3, Making
  <2> QED BY <2>1, <2>2, <2>4
<1> QED BY <1>1, <1>2, <1>3, <1>4, <1>5

\* Behind a block there is the bare ret.
LEMMA NoBlockYet ==
  ASSUME NEW f, NEW n, NEW p \in Nat, p < Len(f.code), Ready(f, n), f.code[p + 1].op # "ret"
  PROVE  \A k \in 1 .. p : f.code[k].op # "block"
<1>1. f.code \in Seq(InstrType) /\ Len(f.code) \in Nat /\ DOMAIN f.code = 1 .. Len(f.code)
  BY DEF Ready
<1>2. p + 1 \in DOMAIN f.code /\ \A k \in 1 .. p : k \in DOMAIN f.code /\ p + 1 > k
  BY <1>1
<1> QED BY <1>2 DEF Ready, Shut

LEMMA LoadEmitted ==
  ASSUME NEW e, NEW s, NEW f, NEW n, NEW p \in Nat, p < Len(f.code), Ready(f, n),
         Emitted(e, s, f, n, p), NEW i, i = f.code[p + 1],
         ~Terminated(e.code), i.op \in {"load", "store"}
  PROVE  Emitted(emit(e, i), s, f, n, p + 1)
<1> DEFINE args == Values(e, i)
<1>0. /\ DOMAIN e = {"syms", "code", "regs", "ret"}
      /\ IsSeq(e.code) /\ \A k \in DOMAIN e.code : Right(e.code[k], e.syms)
      /\ Table(e.syms, n) /\ Grows(e.syms, e.syms)
  BY Self
<1>1. i.args \in Seq(Nat) /\ Proper(f, n, i)
  BY Reading
<1>2. /\ args = <<>> <=> i.args = <<>>
      /\ \A a \in DOMAIN i.args : args[a] = Resolve(e, i.args[a])
  BY <1>1, NoValues
<1>3. \A k \in 1 .. p : f.code[k].op # "block"
  BY NoBlockYet
<1>4. \A a \in DOMAIN i.args : Has(f, i.args[a], "ptr") => Resolve(e, i.args[a]).type = "ptr"
  BY <1>3, PointerThere
<1>5. CASE i.op = "load" /\ i.args = <<>>
  <2>1. emit(e, i) = Bind(e, i.dest, Undef)
    BY <1>2, <1>5, EmitParts
  <2>2. Undef.type = TypeOf(i)
    BY <1>5 DEF TypeOf, Undef, Val
  <2> QED BY <1>0, <2>1, <2>2, Binding
<1>6. CASE i.op = "load" /\ i.args # <<>>
  <2>1. emit(e, i) = Make(e, i.dest, "i64", "load", args, "")
    BY <1>2, <1>6, EmitParts
  <2>2. TypeOf(i) = "i64"
    BY <1>6 DEF TypeOf
  <2>3. 1 \in DOMAIN i.args
    BY <1>1, <1>6
  <2>4. args[1].type = "ptr"
    BY <1>1, <1>2, <1>4, <1>6, <2>3 DEF Proper
  <2> HIDE DEF args
  <2>5. Right(LL("load", i.dest, args, ""), e.syms)
    BY <2>4, Loads
  <2>6. Emitted(Make(e, i.dest, TypeOf(i), "load", args, ""), s, f, n, p + 1)
    BY <1>0, <2>5, Making
  <2> QED BY <2>1, <2>2, <2>6
<1>7. CASE i.op = "store"
  <2>1. emit(e, i) = Do(e, LL("store", NoReg, args, ""))
    BY <1>7, EmitParts
  <2>2. Len(i.args) = 2 /\ Has(f, i.args[2], "ptr")
    BY <1>1, <1>7 DEF Proper
  <2>3. 2 \in DOMAIN i.args
    BY <1>1, <2>2
  <2>4. args[2].type = "ptr"
    BY <1>2, <1>4, <2>2, <2>3
  <2> HIDE DEF args
  <2>5. Right(LL("store", NoReg, args, ""), e.syms)
    BY <2>4, Stores
  <2> QED BY <1>0, <1>7, <2>1, <2>5, Doing
<1> QED BY <1>5, <1>6, <1>7

LEMMA ReturnEmitted ==
  ASSUME NEW e, NEW s, NEW f, NEW n, NEW p \in Nat, p < Len(f.code), Ready(f, n),
         Emitted(e, s, f, n, p), NEW i, i = f.code[p + 1],
         ~Terminated(e.code), i.op = "ret"
  PROVE  Emitted(emit(e, i), s, f, n, p + 1)
<1> DEFINE args == Values(e, i)
<1>0. /\ DOMAIN e = {"syms", "code", "regs", "ret"}
      /\ IsSeq(e.code) /\ \A k \in DOMAIN e.code : Right(e.code[k], e.syms)
      /\ Table(e.syms, n) /\ Grows(e.syms, e.syms)
  BY Self
<1>1. Proper(f, n, i)
  BY Reading
<1>2. Numeral(f, i)
  BY <1>1 DEF Proper, Numeral
<1>3. Types(args) \subseteq {"i64"}
  BY <1>2, NumbersRead
<1>4. PICK c : /\ emit(e, i) = Do(e, c)
               /\ \/ c = LL("ret", NoReg, <<>>, "")
                  \/ c = LL("unreachable", NoReg, <<>>, "")
                  \/ c = LL("ret", NoReg, args, "")
  <2> DEFINE c == IF e.ret = "void" THEN LL("ret", NoReg, <<>>, "")
                  ELSE IF args = <<>> THEN LL("unreachable", NoReg, <<>>, "")
                  ELSE LL("ret", NoReg, args, "")
  <2>1. emit(e, i) = Do(e, c)
    BY EmitParts
  <2>2. \/ c = LL("ret", NoReg, <<>>, "")
        \/ c = LL("unreachable", NoReg, <<>>, "")
        \/ c = LL("ret", NoReg, args, "")
    OBVIOUS
  <2> HIDE DEF c
  <2> QED BY <2>1, <2>2
<1> HIDE DEF args
<1>5. Types(<<>>) \subseteq {"i64"}
  BY DEF Types
<1>6. Right(c, e.syms)
  BY <1>3, <1>4, <1>5, Returns, Plain
<1> QED BY <1>0, <1>4, <1>6, Doing

LEMMA OperatorEmitted ==
  ASSUME NEW e, NEW s, NEW f, NEW n, NEW p \in Nat, p < Len(f.code), Ready(f, n),
         Emitted(e, s, f, n, p), NEW i, i = f.code[p + 1], ~Terminated(e.code),
         i.op \notin {"alloca", "param", "load", "store", "copy", "call", "ret", "block"}
  PROVE  Emitted(emit(e, i), s, f, n, p + 1)
<1> DEFINE args == Values(e, i)
           op   == LLVMOp(i.op)
<1>0. /\ DOMAIN e = {"syms", "code", "regs", "ret"}
      /\ IsSeq(e.code) /\ \A k \in DOMAIN e.code : Right(e.code[k], e.syms)
      /\ Table(e.syms, n) /\ Grows(e.syms, e.syms)
  BY Self
<1>1. Proper(f, n, i) /\ i.op \in Opcodes /\ i.args \in Seq(Nat)
  BY Reading
<1>2. i.args # <<>> /\ Numeral(f, i)
  BY <1>1 DEF Proper, Numeral
<1>3. Types(args) = {"i64"} /\ args[1].type = "i64"
  <2>1. i.args # <<>> /\ Numeral(f, i)
    BY <1>2
  <2>2. SomeI64(Values(e, i))
    BY <2>1, SomeNumbers
  <2> QED BY <2>2 DEF SomeI64
<1>4. TypeOf(i) = "i64"
  BY DEF TypeOf
<1>5. CASE i.op = "cast"
  <2>1. emit(e, i) = Bind(e, i.dest, args[1])
    BY <1>5, EmitParts
  <2> DEFINE v == args[1]
  <2>2. v.type = TypeOf(i)
    BY <1>3, <1>4
  <2> HIDE DEF v
  <2>3. Emitted(Bind(e, i.dest, v), s, f, n, p + 1)
    BY <1>0, <2>2, Binding
  <2> QED BY <2>1, <2>3 DEF v
<1>6. CASE i.op # "cast"
  <2>1. 1 \in DOMAIN i.args
    BY <1>1, <1>2
  <2>2. emit(e, i) = IF op \in IntOps THEN Make(e, i.dest, args[1].type, op, args, "")
                     ELSE Make(e, i.dest, "i64", op, args, "")
    BY <1>6, <2>1, EmitParts
  <2>3. op \in Operators
    BY <1>1, <1>6, OpsMapped
  <2> HIDE DEF args, op
  <2>4. emit(e, i) = Make(e, i.dest, TypeOf(i), op, args, "")
    BY <1>3, <1>4, <2>2
  <2>5. Right(LL(op, i.dest, args, ""), e.syms)
    BY <1>3, <2>3, Numeric
  <2>6. Emitted(Make(e, i.dest, TypeOf(i), op, args, ""), s, f, n, p + 1)
    BY <1>0, <2>5, Making
  <2> QED BY <2>4, <2>6
<1> QED BY <1>5, <1>6

LEMMA PrintedTypes ==
  ASSUME NEW e, NEW s, NEW f, NEW n, NEW p \in Nat, p < Len(f.code), Ready(f, n),
         Emitted(e, s, f, n, p), NEW i, i = f.code[p + 1], i.op = "call"
  PROVE  Types(Values(e, i)) \subseteq {"i64", "ptr"}
<1>1. /\ i.args \in Seq(Nat) /\ p <= Len(f.code) /\ f.code \in Seq(InstrType) /\ Proper(f, n, i)
  BY Reading
<1>2. Bound(e, f, p)
  BY DEF Emitted
<1>3. ASSUME NEW a \in DOMAIN i.args
      PROVE  Values(e, i)[a].type \in {"i64", "ptr"}
  <2> DEFINE r == i.args[a]
  <2>1. PICK t \in {"i64", "ptr"} : Has(f, r, t)
    BY <1>1, <1>3 DEF Proper
  <2> HIDE DEF r
  <2>2. Resolve(e, r).type \in {"i64", t}
    BY <1>1, <1>2, <2>1, Resolved
  <2>3. Values(e, i)[a] = Resolve(e, r)
    BY <1>1, NoValues DEF r
  <2> QED BY <2>2, <2>3
<1>4. DOMAIN Values(e, i) = DOMAIN i.args
  BY <1>1, NoValues
<1> QED BY <1>3, <1>4 DEF Types

\* g has the values of e and at least its symbols.
Follows(g, e, n) ==
  /\ DOMAIN g = {"syms", "code", "regs", "ret"} /\ g.regs = e.regs
  /\ IsSeq(g.code) /\ \A k \in DOMAIN g.code : Right(g.code[k], g.syms)
  /\ Table(g.syms, n) /\ Grows(e.syms, g.syms)

\* e with a symbol of the C library, and a call of it.
LEMMA LibraryCalled ==
  ASSUME NEW e, NEW s, NEW f, NEW n, NEW p \in Nat, Emitted(e, s, f, n, p), Named(n),
         f.code[p + 1].op = "call", ~Terminated(e.code),
         NEW x \in CSymbols, NEW params, NEW ret, NEW sym,
         NEW args, \/ Types(args) \subseteq {"i64"}
                   \/ x = "printf" /\ Types(args) \subseteq {"i64", "ptr"},
         NEW h, h = Insert(e, x, Sym(params, ret, FALSE)),
         NEW g, g = Do(h, LL(x, NoReg, args, sym))
  PROVE  Follows(g, e, n) /\ Emitted(g, s, f, n, p + 1)
<1> DEFINE y == Sym(params, ret, FALSE)
           c == LL(x, NoReg, args, sym)
<1>1. ~y.body
  BY DEF Sym
<1>2. h = Insert(e, x, y) /\ g = Do(h, c)
  OBVIOUS
<1> HIDE DEF y
<1>3. DOMAIN e = {"syms", "code", "regs", "ret"} /\ Table(e.syms, n)
  BY DEF Emitted
<1>4. /\ DOMAIN h = {"syms", "code", "regs", "ret"}
      /\ h.code = e.code /\ h.regs = e.regs /\ h.ret = e.ret
      /\ Table(h.syms, n) /\ Grows(e.syms, h.syms) /\ x \in DOMAIN h.syms /\ ~h.syms[x].body
  <2> DEFINE z == Insert(e, x, y)
  <2>1. /\ DOMAIN z = {"syms", "code", "regs", "ret"}
        /\ z.code = e.code /\ z.regs = e.regs /\ z.ret = e.ret
        /\ Table(z.syms, n) /\ Grows(e.syms, z.syms) /\ x \in DOMAIN z.syms /\ ~z.syms[x].body
    BY <1>1, <1>3, Declaring
  <2>2. h = z
    BY <1>2
  <2> HIDE DEF z
  <2> QED BY <2>1, <2>2
<1>5. Right(c, h.syms)
  BY <1>4, Libraries
<1> HIDE DEF c
<1>6. /\ DOMAIN g = {"syms", "code", "regs", "ret"}
      /\ g.syms = h.syms /\ g.regs = h.regs /\ g.code = Append(h.code, c)
  <2> DEFINE z == Do(h, c)
  <2>1. /\ DOMAIN z = {"syms", "code", "regs", "ret"}
        /\ z.syms = h.syms /\ z.regs = h.regs /\ z.code = Append(h.code, c)
    BY <1>4, DoParts
  <2>2. g = z
    BY <1>2
  <2> HIDE DEF z
  <2> QED BY <2>1, <2>2
<1>7. IsSeq(h.code) /\ \A k \in DOMAIN h.code : Right(h.code[k], h.syms)
  BY <1>4, Kept
<1> DEFINE t == h.syms
           b == h.code
<1>8. IsSeq(b) /\ (\A k \in DOMAIN b : Right(b[k], t)) /\ Right(c, t)
  BY <1>5, <1>7
<1>9. g.code = Append(b, c) /\ g.syms = t
  BY <1>6
<1> HIDE DEF t, b
<1>10. IsSeq(Append(b, c)) /\ \A k \in DOMAIN Append(b, c) : Right(Append(b, c)[k], t)
  BY <1>8, Appended
<1>11. IsSeq(g.code) /\ \A k \in DOMAIN g.code : Right(g.code[k], g.syms)
  BY <1>9, <1>10
<1>12. Emitted(g, s, f, n, p + 1)
  BY <1>2, <1>4, <1>5, <1>7, Doing
<1>13. g.regs = e.regs /\ Table(g.syms, n) /\ Grows(e.syms, g.syms)
  BY <1>4, <1>6
<1>14. Follows(g, e, n)
  BY <1>6, <1>11, <1>13 DEF Follows
<1> QED BY <1>12, <1>14

\* A callee that is none of the builtins is one of the first n functions.
LEMMA Defined ==
  ASSUME NEW n, Named(n), NEW t, Table(t, n), NEW x, NEW m, Callee(x, m, n),
         x \notin Bare, ~(x \in Printers /\ m = 1)
  PROVE  /\ x \in DOMAIN t /\ t[x].body /\ t[x].ret \in {"void", "i64"} /\ t[x].params = m
         /\ x \notin Builtins
<1>1. PICK h \in 1 .. n : pool.module[h].name = x /\ m = Len(pool.module[h].params)
  BY DEF Callee
<1>2. done[h].name = x /\ done[h].params = pool.module[h].params /\ x \notin Builtins
  BY <1>1 DEF Named
<1> QED BY <1>1, <1>2 DEF Table

LEMMA CallEmitted ==
  ASSUME NEW e, NEW s, NEW f, NEW n, NEW p \in Nat, p < Len(f.code), Ready(f, n), Named(n),
         Emitted(e, s, f, n, p), NEW i, i = f.code[p + 1], ~Terminated(e.code), i.op = "call"
  PROVE  Emitted(emit(e, i), s, f, n, p + 1)
<1> DEFINE args == Values(e, i)
<1>0. /\ DOMAIN e = {"syms", "code", "regs", "ret"}
      /\ IsSeq(e.code) /\ \A k \in DOMAIN e.code : Right(e.code[k], e.syms)
      /\ Table(e.syms, n) /\ Grows(e.syms, e.syms)
  BY Self
<1>1. i.args \in Seq(Nat) /\ Proper(f, n, i)
  BY Reading
<1>2. Callee(i.sym, Len(i.args), n)
  BY <1>1 DEF Proper
<1>3. i.sym \notin Printers => Numeral(f, i)
  BY <1>1 DEF Proper, Numeral
<1>4. /\ i.sym \notin Printers => Types(args) \subseteq {"i64"}
      /\ Types(args) \subseteq {"i64", "ptr"}
  <2>1. ASSUME i.sym \notin Printers PROVE Types(args) \subseteq {"i64"}
    <3>1. Numeral(f, i)
      BY <1>3, <2>1
    <3> QED BY <3>1, NumbersRead
  <2>2. Types(args) \subseteq {"i64", "ptr"}
    BY PrintedTypes
  <2> QED BY <2>1, <2>2
<1>5. Len(args) = Len(i.args)
  BY <1>1, NoValues DEF Values
<1>6. emit(e, i) = EmitCall(e, i, args)
  BY EmitParts
<1> HIDE DEF args
<1>7. CASE i.sym \in {"exit", "escape"}
  <2> DEFINE h == Insert(e, "exit", Sym(1, "void", FALSE))
             g == Do(h, LL("exit", NoReg, args, i.sym))
             c == LL("unreachable", NoReg, <<>>, "")
  <2>1. EmitCall(e, i, args) = Do(g, c)
    BY <1>7 DEF EmitCall
  <2>2. Types(args) \subseteq {"i64"}
    BY <1>4, <1>7 DEF Printers
  <2>3. "exit" \in CSymbols
    BY DEF CSymbols
  <2>4. Follows(g, e, n)
    <3> HIDE DEF h
    <3>1. h = Insert(e, "exit", Sym(1, "void", FALSE))
      BY DEF h
    <3> HIDE DEF g
    <3> DEFINE y == i.sym
    <3>2. g = Do(h, LL("exit", NoReg, args, y))
      BY DEF g
    <3> HIDE DEF y
    <3>3. f.code[p + 1].op = "call"
      OBVIOUS
    <3>4. Follows(g, e, n) /\ Emitted(g, s, f, n, p + 1)
      BY <2>2, <2>3, <3>1, <3>2, <3>3, LibraryCalled
    <3> QED BY <3>4
  <2>5. Right(c, g.syms)
    BY Plain
  <2> HIDE DEF g, c
  <2>6. Emitted(Do(g, c), s, f, n, p + 1)
    BY <2>4, <2>5, Doing DEF Follows
  <2> QED BY <1>6, <2>1, <2>6
<1>8. CASE i.sym = "wait"
  <2> DEFINE h == Insert(e, "usleep", Sym(1, "i32", FALSE))
             g == Do(h, LL("usleep", NoReg, args, ""))
  <2>1. EmitCall(e, i, args) = g
    BY <1>8 DEF EmitCall
  <2>2. Types(args) \subseteq {"i64"}
    BY <1>4, <1>8 DEF Printers
  <2>3. "usleep" \in CSymbols
    BY DEF CSymbols
  <2> HIDE DEF h
  <2>4. h = Insert(e, "usleep", Sym(1, "i32", FALSE))
    BY DEF h
  <2> HIDE DEF g
  <2>5. g = Do(h, LL("usleep", NoReg, args, ""))
    BY DEF g
  <2>6. Emitted(g, s, f, n, p + 1)
    BY <2>2, <2>3, <2>4, <2>5, LibraryCalled
  <2> QED BY <1>6, <2>1, <2>6
<1>9. CASE Printing(i)
  <2> DEFINE h == Insert(e, "printf", Sym(1, "i32", FALSE))
             sym == IF args[1].type = "ptr" THEN "%s" ELSE "%lld"
             g == Do(h, LL("printf", NoReg, args, sym))
  <2>1. EmitCall(e, i, args) = g
    BY <1>9 DEF EmitCall, Printing
  <2>2. "printf" \in CSymbols
    BY DEF CSymbols
  <2> HIDE DEF h, sym
  <2>3. h = Insert(e, "printf", Sym(1, "i32", FALSE))
    BY DEF h
  <2> HIDE DEF g
  <2>4. g = Do(h, LL("printf", NoReg, args, sym))
    BY DEF g
  <2>5. Emitted(g, s, f, n, p + 1)
    BY <1>4, <2>2, <2>3, <2>4, LibraryCalled
  <2> QED BY <1>6, <2>1, <2>5
<1>10. CASE i.sym \notin Bare /\ ~Printing(i)
  <2> DEFINE x == i.sym
  <2>1. ~(x \in Printers /\ Len(i.args) = 1)
    BY <1>10 DEF Printing, Printers
  <2>2. /\ x \in DOMAIN e.syms /\ e.syms[x].body /\ e.syms[x].params = Len(i.args)
        /\ x \notin Builtins
    <3> DEFINE t == e.syms
               m == Len(i.args)
    <3>1. Table(t, n) /\ Callee(x, m, n) /\ x \notin Bare /\ ~(x \in Printers /\ m = 1)
      BY <1>0, <1>2, <1>10, <2>1
    <3> HIDE DEF t, m, x
    <3>2. x \in DOMAIN t /\ t[x].body /\ t[x].params = m /\ x \notin Builtins
      BY <3>1, Defined
    <3> QED BY <3>2 DEF t, m
  <2>3. Insert(e, x, Sym(Len(args), "i64", FALSE)) = e
    BY <2>2 DEF Insert
  <2>4. x \notin Printers
    BY <2>2 DEF Printers, Builtins
  <2>5. EmitCall(e, i, args) = IF e.syms[x].ret = "void"
                               THEN Do(e, LL("call", NoReg, args, x))
                               ELSE Make(e, i.dest, "i64", "call", args, x)
    BY <1>10, <2>3 DEF EmitCall, Bare
  <2>6. /\ Right(LL("call", NoReg, args, x), e.syms)
        /\ Right(LL("call", i.dest, args, x), e.syms)
    BY <1>4, <1>5, <2>2, <2>4, Calls
  <2>7. TypeOf(i) = "i64"
    BY DEF TypeOf
  <2>8. Emitted(Do(e, LL("call", NoReg, args, x)), s, f, n, p + 1)
    BY <1>0, <2>6, Doing
  <2>9. Emitted(Make(e, i.dest, TypeOf(i), "call", args, x), s, f, n, p + 1)
    BY <1>0, <2>6, Making
  <2> QED BY <1>6, <2>5, <2>7, <2>8, <2>9
<1>11. i.sym \in Bare => i.sym \in {"exit", "escape"} \/ i.sym = "wait"
  BY DEF Bare
<1> QED BY <1>7, <1>8, <1>9, <1>10, <1>11

\* One round of the loop over the code.
LEMMA EmitStep ==
  ASSUME NEW e, NEW s, NEW f, NEW n, NEW p \in Nat, p < Len(f.code), Ready(f, n), Named(n),
         Emitted(e, s, f, n, p)
  PROVE  Emitted(emit(e, f.code[p + 1]), s, f, n, p + 1)
<1>1. PICK i : i = f.code[p + 1]
  OBVIOUS
<1>2. CASE i.op \in {"block", "alloca", "param", "copy"} \/ Terminated(e.code)
  BY <1>1, <1>2, PlainEmitted
<1>3. CASE ~Terminated(e.code) /\ i.op \in {"load", "store"}
  BY <1>1, <1>3, LoadEmitted
<1>4. CASE ~Terminated(e.code) /\ i.op = "ret"
  BY <1>1, <1>4, ReturnEmitted
<1>5. CASE ~Terminated(e.code) /\ i.op = "call"
  BY <1>1, <1>5, CallEmitted
<1>6. CASE /\ ~Terminated(e.code)
           /\ i.op \notin {"alloca", "param", "load", "store", "copy", "call", "ret", "block"}
  BY <1>1, <1>6, OperatorEmitted
<1> QED BY <1>1, <1>2, <1>3, <1>4, <1>5, <1>6

(***************************************************************************)
(* The loop over the code, the recursion of EmitAll, has a solution.       *)
(***************************************************************************)
LEMMA LeastExists ==
  ASSUME NEW T, T \subseteq Nat, T # {}
  PROVE  \E m \in T : \A k \in T : m <= k
<1> DEFINE R == OpToRel(<, Nat)
<1>1. IsWellFoundedOn(R, Nat)
  BY NatLessThanWellFounded
<1>2. \A x, y \in Nat : x < y => <<x, y>> \in R
  BY DEF OpToRel
<1> HIDE DEF R
<1>3. PICK m \in T : \A y \in T : ~ (<<y, m>> \in R)
  BY <1>1, WFMin
<1>4. \A k \in T : k \in Nat /\ m \in Nat /\ ~(k < m)
  BY <1>2, <1>3
<1>5. \A k \in T : m <= k
  BY <1>4
<1> QED BY <1>5

Emits(h, e, code, count) ==
  h = [k \in 0 .. count |-> IF k = 0 THEN e ELSE emit(h[k - 1], code[k])]

LEMMA EmitsExists ==
  ASSUME NEW e, NEW code, NEW count \in Nat
  PROVE  \E h : Emits(h, e, code, count)
<1> DEFINE T == {m \in Nat : ~ \E h : Emits(h, e, code, m)}
<1>1. SUFFICES ASSUME T # {} PROVE FALSE
  OBVIOUS
<1>2. PICK m \in T : \A k \in T : m <= k
  <2>1. T \subseteq Nat
    OBVIOUS
  <2> HIDE DEF T
  <2> QED BY <1>1, <2>1, LeastExists
<1>3. m \in Nat /\ m # 0
  <2>1. Emits([k \in 0 .. 0 |-> e], e, code, 0)
    BY DEF Emits
  <2> QED BY <1>2, <2>1
<1>4. m - 1 \in Nat /\ ~(m <= m - 1)
  BY <1>3
<1>5. PICK h : Emits(h, e, code, m - 1)
  BY <1>2, <1>4
<1> DEFINE g == [k \in 0 .. m |-> IF k = 0 THEN e ELSE emit(h[k - 1], code[k])]
<1>6. ASSUME NEW k \in 0 .. m - 1 PROVE g[k] = h[k]
  <2>1. k \in 0 .. m
    BY <1>3
  <2>2. h[k] = IF k = 0 THEN e ELSE emit(h[k - 1], code[k])
    <3> HIDE DEF g
    <3> QED BY <1>5, Zenon DEF Emits
  <2> QED BY <2>1, <2>2
<1>7. \A k \in 0 .. m : k # 0 => k - 1 \in 0 .. m - 1
  BY <1>3
<1>8. Emits(g, e, code, m)
  BY <1>6, <1>7 DEF Emits
<1> HIDE DEF g
<1> QED BY <1>2, <1>8

Emitting(e, code) == CHOOSE h : Emits(h, e, code, Len(code))

LEMMA EmitRounds ==
  ASSUME NEW e, NEW code, Len(code) \in Nat
  PROVE  /\ EmitAll(e, code) = Emitting(e, code)[Len(code)]
         /\ Emitting(e, code)[0] = e
         /\ \A k \in 1 .. Len(code) :
              Emitting(e, code)[k] = emit(Emitting(e, code)[k - 1], code[k])
<1> DEFINE h == Emitting(e, code)
<1>1. Emits(h, e, code, Len(code))
  BY EmitsExists DEF Emitting
<1>2. EmitAll(e, code) = h[Len(code)]
  BY DEF EmitAll, Emits, Emitting
<1> HIDE DEF h
<1>3. h[0] = e
  BY <1>1 DEF Emits
<1>4. ASSUME NEW k \in 1 .. Len(code) PROVE h[k] = emit(h[k - 1], code[k])
  <2>1. k \in 0 .. Len(code) /\ k # 0
    OBVIOUS
  <2> QED BY <1>1, <2>1 DEF Emits
<1> QED BY <1>2, <1>3, <1>4 DEF h

\* Induction up to a bound.
LEMMA Climb ==
  ASSUME NEW hi \in Nat, NEW T, 0 \in T, \A k \in 0 .. hi - 1 : k \in T => k + 1 \in T
  PROVE  hi \in T
<1> DEFINE B == {k \in 0 .. hi : k \notin T}
<1> SUFFICES ASSUME B # {} PROVE FALSE
  OBVIOUS
<1>1. B \subseteq Nat
  OBVIOUS
<1>2. PICK k \in B : \A j \in B : k <= j
  <2> HIDE DEF B
  <2> QED BY <1>1, LeastExists
<1>3. k \in 0 .. hi /\ k \notin T /\ k # 0
  BY <1>2
<1>4. k - 1 \in 0 .. hi - 1 /\ k - 1 \notin B /\ k - 1 \in 0 .. hi
  BY <1>2, <1>3
<1>5. k - 1 \in T /\ (k - 1) + 1 = k
  BY <1>3, <1>4
<1> QED BY <1>3, <1>4, <1>5

LEMMA AllEmitted ==
  ASSUME NEW e, NEW s, NEW f, NEW n, Ready(f, n), Named(n), Emitted(e, s, f, n, 0)
  PROVE  Emitted(EmitAll(e, f.code), s, f, n, Len(f.code))
<1> DEFINE m == Len(f.code)
           h == Emitting(e, f.code)
           T == {p \in 0 .. m : Emitted(h[p], s, f, n, p)}
<1>1. m \in Nat
  BY DEF Ready
<1>2. /\ EmitAll(e, f.code) = h[m] /\ h[0] = e
      /\ \A k \in 1 .. m : h[k] = emit(h[k - 1], f.code[k])
  BY <1>1, EmitRounds
<1> HIDE DEF h
<1>3. 0 \in T
  BY <1>1, <1>2
<1>4. ASSUME NEW p \in 0 .. m - 1, p \in T PROVE p + 1 \in T
  <2>1. p \in Nat /\ p < Len(f.code) /\ p + 1 \in 0 .. m /\ p + 1 \in 1 .. m /\ (p + 1) - 1 = p
    BY <1>1
  <2> DEFINE d == h[p]
  <2>2. Emitted(d, s, f, n, p)
    BY <1>4
  <2> HIDE DEF d
  <2>3. Emitted(emit(d, f.code[p + 1]), s, f, n, p + 1)
    BY <2>1, <2>2, EmitStep
  <2>4. h[p + 1] = emit(d, f.code[p + 1])
    BY <1>2, <2>1 DEF d
  <2> QED BY <2>1, <2>3, <2>4
<1>5. m \in T
  <2> HIDE DEF T, m
  <2> QED BY <1>1, <1>3, <1>4, Climb
<1> QED BY <1>2, <1>5

\* The instructions that make the arguments, one for each parameter.
LEMMA Arguments ==
  ASSUME NEW f, NEW n, Ready(f, n), IsSeq(f.params)
  PROVE  countParams(f) = Len(f.params)
<1> DEFINE m == Len(f.params)
           S == {3 * i - 1 : i \in 1 .. m}
<1>1. m \in Nat
  BY DEF IsSeq
<1>2. countParams(f) = Cardinality(S)
  BY DEF countParams, Ready, Tidy, ParamsAt
<1> HIDE DEF m
<1> DEFINE g == [i \in 1 .. m |-> 3 * i - 1]
<1>3. g \in [1 .. m -> S]
  OBVIOUS
<1>4. \A a, b \in 1 .. m : g[a] = g[b] => a = b
  BY <1>1
<1>5. \A t \in S : \E i \in 1 .. m : g[i] = t
  OBVIOUS
<1> HIDE DEF g, S
<1>6. g \in Bijection(1 .. m, S)
  <2>1. g \in Injection(1 .. m, S)
    BY <1>3, <1>4, Zenon DEF Injection, IsInjective
  <2>2. g \in Surjection(1 .. m, S)
    BY <1>3, <1>5, Zenon DEF Surjection
  <2> QED BY <2>1, <2>2, Zenon DEF Bijection
<1>7. ExistsBijection(1 .. m, S)
  BY <1>6 DEF ExistsBijection
<1>8. Cardinality(S) = m
  BY <1>1, <1>7, FS_CountingElements
<1> QED BY <1>2, <1>8 DEF m

(***************************************************************************)
(* LLVMCodeGenerator::lower: a round of its loop, and the verifier.        *)
(***************************************************************************)
\* IRGen makes nothing once the module is generated.
LEMMA Generating == GenNext => stage = "module"
<1>1. CASE VisitFunctionDecl \/ EndFunction \/ VisitGlobal \/ EndModule
  BY <1>1 DEF VisitFunctionDecl, EndFunction, VisitGlobal, EndModule
<1>2. CASE \/ \E x \in pool.names : VisitVarDecl(x)
           \/ VisitExprStmt \/ VisitReturn
  BY <1>2 DEF VisitVarDecl, VisitExprStmt, VisitReturn, Statement
<1>3. CASE EndVarDecl \/ EndExprStmt \/ EndReturn
  BY <1>3 DEF EndVarDecl, EndExprStmt, EndReturn, EndStatement, Complete
<1>4. CASE \/ \E l \in pool.literals : VisitLiteral(l)
           \/ \E x \in pool.names : VisitVariable(x)
           \/ \E x \in Bare : VisitBare(x)
           \/ \E x \in Declared \cup pool.imports : VisitSymbol(x)
  BY <1>4 DEF VisitLiteral, VisitVariable, VisitBare, VisitSymbol, Visiting, Expects
<1>5. CASE \/ \E o \in Binaries : VisitBinary(o)
           \/ \E o \in {"-", "!", "~", "*", "&"} : VisitUnary(o)
           \/ \E m \in pool.members : VisitMember(m)
           \/ VisitIndex
           \/ \E o \in {"", "narrow"} : VisitCast(o)
           \/ \E n \in 0 .. Len(Element) : VisitArray(n)
  BY <1>5 DEF VisitBinary, VisitUnary, VisitMember, VisitIndex, VisitCast, VisitArray,
              Visiting, Expects
<1>6. CASE \/ \E o \in Compounds \cup {"="}, x \in pool.names \cup {NoName} : VisitAssign(o, x)
           \/ \E x \in Declared \cup Builtins \cup {Indirect}, n \in 0 .. 2 : VisitCall(x, n)
  BY <1>6 DEF VisitAssign, VisitCall, Visiting, Expects
<1>7. CASE \/ LowerBinary \/ LowerUnary \/ LowerAssign \/ LowerMember \/ LowerIndex
           \/ LowerCast \/ LowerArray \/ LowerCall
  BY <1>7 DEF LowerBinary, LowerUnary, LowerAssign, LowerMember, LowerIndex, LowerCast,
              LowerArray, LowerCall, Lowering, Complete
<1>8. CASE StoreElement
  BY <1>8 DEF StoreElement
<1> QED BY <1>1, <1>2, <1>3, <1>4, <1>5, <1>6, <1>7, <1>8 DEF GenNext

LEMMA FunctionsNamed ==
  ASSUME IInv, KInv, Supported, NEW n \in 0 .. Len(done)
  PROVE  /\ Named(n)
         /\ \A h, k \in 1 .. n : done[h].name = done[k].name => h = k
         /\ \A k \in 1 .. n : IsSeq(done[k].params)
<1>1. IsSeq(done) /\ pool \in Pools /\ IsSeq(decls)
  BY DEF IInv, Fixed
<1>2. Len(done) \in Nat /\ DOMAIN done = 1 .. Len(done) /\ Len(decls) \in Nat
  BY <1>1 DEF IsSeq
<1>3. IsSeq(pool.module)
  BY <1>1, PoolsAssumption
<1>4. Len(pool.module) \in Nat /\ DOMAIN pool.module = 1 .. Len(pool.module)
  BY <1>3 DEF IsSeq
<1>5. /\ Len(done) + Len(decls) = Len(pool.module)
      /\ \A k \in DOMAIN done : /\ pool.module[k].node = "fn"
                                /\ done[k].name = pool.module[k].name
                                /\ done[k].params = pool.module[k].params
  BY DEF KInv, Visited
<1>6. \A k \in 1 .. n : k \in DOMAIN done /\ k \in DOMAIN pool.module
  BY <1>2, <1>4, <1>5
<1>7. \A k \in 1 .. n : pool.module[k] \in InSeq(pool.module)
  BY <1>6 DEF InSeq
<1>8. /\ \A h, k \in DOMAIN pool.module : pool.module[h].name = pool.module[k].name => h = k
      /\ \A d \in InSeq(pool.module) : d.name \notin Builtins \cup CSymbols
  BY <1>1 DEF Supported
<1>9. Named(n)
  BY <1>5, <1>6, <1>7, <1>8 DEF Named
<1>10. \A h, k \in 1 .. n : done[h].name = done[k].name => h = k
  BY <1>5, <1>6, <1>8
<1>11. \A d \in InSeq(pool.module) : d.node = "fn" => IsSeq(d.params)
  BY <1>1, PoolsAssumption
<1>12. \A k \in 1 .. n : IsSeq(done[k].params)
  BY <1>5, <1>6, <1>7, <1>11
<1> QED BY <1>9, <1>10, <1>12

LEMMA FunctionReady ==
  ASSUME IInv, KInv, NEW n \in DOMAIN done
  PROVE  Ready(done[n], n)
<1>1. done[n].code \in Seq(InstrType) /\ DefinedBefore(done[n].code)
  BY DEF IInv, Fixed, Finished
<1>2. Tidy(done[n], n) /\ Shut(done[n])
  BY DEF KInv, Compiled
<1> QED BY <1>1, <1>2 DEF Ready

\* createFunction: the function has its own name.
LEMMA Created ==
  ASSUME NEW n \in Nat, NEW t, Table(t, n), NEW x, x = done[n + 1].name, Named(n + 1),
         \A h, k \in 1 .. n + 1 : done[h].name = done[k].name => h = k,
         NEW sym, sym.body, sym.ret \in {"void", "i64"}, sym.params = Len(done[n + 1].params),
         NEW u, u = [y \in DOMAIN t \cup {x} |-> IF y = x THEN sym ELSE t[y]]
  PROVE  x \notin DOMAIN t /\ Table(u, n + 1) /\ Grows(t, u)
<1>1. /\ n + 1 \in 1 .. n + 1 /\ \A h \in 1 .. n : h \in 1 .. n + 1 /\ h # n + 1
      /\ \A h \in 1 .. n + 1 : h \in 1 .. n \/ h = n + 1
  OBVIOUS
<1>2. x \notin CSymbols
  BY <1>1 DEF Named
<1>3. \A h \in 1 .. n : done[h].name # x
  BY <1>1
<1>4. x \notin DOMAIN t
  BY <1>2, <1>3 DEF Table
<1>5. /\ DOMAIN u = DOMAIN t \cup {x} /\ u[x] = sym
      /\ \A y \in DOMAIN t : u[y] = t[y]
  BY <1>4
<1>6. \A y \in DOMAIN u : \/ y \in CSymbols /\ ~u[y].body
                          \/ \E h \in 1 .. n + 1 : y = done[h].name
  <2>1. ASSUME NEW y \in DOMAIN t
        PROVE  \/ y \in CSymbols /\ ~u[y].body
               \/ \E h \in 1 .. n + 1 : y = done[h].name
    <3>1. (y \in CSymbols /\ ~t[y].body) \/ \E h \in 1 .. n : y = done[h].name
      BY <2>1 DEF Table
    <3> QED BY <1>1, <1>5, <3>1
  <2> QED BY <1>1, <1>5, <2>1
<1>7. ASSUME NEW h \in 1 .. n + 1
      PROVE  LET y == done[h].name
             IN  /\ y \in DOMAIN u /\ u[y].body /\ u[y].ret \in {"void", "i64"}
                 /\ u[y].params = Len(done[h].params)
  <2>1. CASE h = n + 1
    BY <1>5, <2>1
  <2>2. CASE h \in 1 .. n
    <3>1. LET y == done[h].name
          IN  /\ y \in DOMAIN t /\ t[y].body /\ t[y].ret \in {"void", "i64"}
              /\ t[y].params = Len(done[h].params)
      BY <2>2 DEF Table
    <3> QED BY <1>5, <3>1
  <2> QED BY <1>1, <2>1, <2>2
<1>8. Table(u, n + 1)
  BY <1>6, <1>7 DEF Table
<1>9. Grows(t, u)
  BY <1>5 DEF Grows
<1> QED BY <1>4, <1>8, <1>9

\* What the emission of a function begins with.
LEMMA Beginning ==
  ASSUME NEW u, NEW n, Table(u, n), NEW f, NEW ret, NEW s, Grows(s, u),
         NEW e, e = [syms |-> u, code |-> <<>>, regs |-> <<>>, ret |-> ret]
  PROVE  Emitted(e, s, f, n, 0)
<1>1. DOMAIN e = {"syms", "code", "regs", "ret"} /\ e.syms = u /\ e.code = <<>> /\ e.regs = <<>>
  OBVIOUS
<1>2. IsSeq(<<>>) /\ DOMAIN <<>> = {}
  BY DEF IsSeq
<1>3. Bound(e, f, 0)
  BY <1>1, <1>2 DEF Bound
<1>4. Reached(e, f, 0)
  BY DEF Reached
<1> QED BY <1>1, <1>2, <1>3, <1>4 DEF Emitted

LEMMA LowerFunctionStep ==
  ASSUME IInv, KInv, Lowered, Supported, LowerFunction
  PROVE  Lowered'
<1> DEFINE n    == Len(bodies)
           f    == done[n + 1]
           ret  == IF hasReturnValue(f) THEN "i64" ELSE "void"
           sym  == Sym(countParams(f), ret, TRUE)
           name == IF f.name \in DOMAIN syms THEN f.name \o ".1" ELSE f.name
           none == [syms |-> syms, code |-> <<>>, regs |-> <<>>, ret |-> ret]
           made == Insert(none, name, sym)
           u    == [y \in DOMAIN syms \cup {f.name} |-> IF y = f.name THEN sym ELSE syms[y]]
           e    == EmitAll(made, f.code)
<1>1. /\ stage = "generated" /\ verdict = "none" /\ n < Len(done)
      /\ syms' = e.syms /\ bodies' = Append(bodies, [name |-> name, code |-> e.code])
  BY DEF LowerFunction
<1>2. stage' = stage /\ verdict' = verdict /\ done' = done
  BY DEF LowerFunction, genVars
<1>3. /\ IsSeq(bodies) /\ n <= Len(done) /\ Table(syms, n)
      /\ \A b \in DOMAIN bodies : \A k \in DOMAIN bodies[b].code : Right(bodies[b].code[k], syms)
  BY DEF Lowered
<1>4. IsSeq(done)
  BY DEF IInv, Fixed
<1>5. /\ n \in Nat /\ Len(done) \in Nat /\ DOMAIN done = 1 .. Len(done) /\ DOMAIN bodies = 1 .. n
      /\ n + 1 \in 0 .. Len(done) /\ n + 1 \in DOMAIN done /\ n + 1 \in 1 .. n + 1
  BY <1>1, <1>3, <1>4 DEF IsSeq
<1> HIDE DEF n
<1>6. /\ Named(n + 1)
      /\ \A h, k \in 1 .. n + 1 : done[h].name = done[k].name => h = k
      /\ IsSeq(f.params)
  BY <1>5, FunctionsNamed
<1>7. Ready(f, n + 1)
  BY <1>5, FunctionReady
<1>8. countParams(f) = Len(f.params)
  BY <1>6, <1>7, Arguments
<1>9. sym.body /\ sym.ret \in {"void", "i64"} /\ sym.params = Len(f.params)
  BY <1>8 DEF Sym
<1> HIDE DEF sym
<1>10. f.name \notin DOMAIN syms /\ Table(u, n + 1) /\ Grows(syms, u)
  <2> DEFINE x == f.name
             t == syms
             v == [y \in DOMAIN t \cup {x} |-> IF y = x THEN sym ELSE t[y]]
  <2>1. x = done[n + 1].name /\ u = v /\ Table(t, n)
    BY <1>3
  <2>2. sym.params = Len(done[n + 1].params)
    BY <1>9
  <2>3. v = [y \in DOMAIN t \cup {x} |-> IF y = x THEN sym ELSE t[y]]
    OBVIOUS
  <2> HIDE DEF x, t, v, u
  <2>4. x \notin DOMAIN t /\ Table(v, n + 1) /\ Grows(t, v)
    BY <1>5, <1>6, <1>9, <2>1, <2>2, <2>3, Created
  <2> QED BY <2>1, <2>4 DEF x, t
<1>11. name = f.name
  BY <1>10
<1>12. made = [syms |-> u, code |-> <<>>, regs |-> <<>>, ret |-> ret]
  BY <1>10, <1>11 DEF Insert
<1> HIDE DEF u, made, ret
<1>13. Emitted(made, syms, f, n + 1, 0)
  BY <1>10, <1>12, Beginning
<1> HIDE DEF name
<1>14. Emitted(e, syms, f, n + 1, Len(f.code))
  <2> HIDE DEF f
  <2> QED BY <1>6, <1>7, <1>13, AllEmitted
<1> HIDE DEF e, f
<1>15. /\ IsSeq(e.code) /\ \A k \in DOMAIN e.code : Right(e.code[k], e.syms)
       /\ Table(e.syms, n + 1) /\ Grows(syms, e.syms)
  BY <1>14 DEF Emitted
<1> DEFINE body == [name |-> name, code |-> e.code]
           all  == Append(bodies, body)
<1>16. body.code = e.code
  OBVIOUS
<1> HIDE DEF body
<1>17. /\ IsSeq(all) /\ Len(all) = n + 1 /\ DOMAIN all = 1 .. n + 1 /\ all[n + 1] = body
       /\ \A b \in 1 .. n : all[b] = bodies[b]
  BY <1>3, AppendSeq DEF n
<1>18. bodies' = all
  BY <1>1 DEF body
<1> HIDE DEF all
<1>19. ASSUME NEW b \in DOMAIN all, NEW k \in DOMAIN all[b].code
       PROVE  Right(all[b].code[k], e.syms)
  <2>1. b \in 1 .. n \/ b = n + 1
    BY <1>5, <1>17
  <2>2. CASE b = n + 1
    BY <1>15, <1>16, <1>17, <2>2
  <2>3. CASE b \in 1 .. n
    <3>1. all[b] = bodies[b] /\ b \in DOMAIN bodies
      BY <1>5, <1>17, <2>3
    <3> DEFINE i == bodies[b].code[k]
    <3>2. Right(i, syms)
      BY <1>3, <3>1
    <3>3. all[b].code[k] = i
      BY <3>1
    <3> HIDE DEF i
    <3>4. Right(i, e.syms)
      BY <1>15, <3>2, RightKept
    <3> QED BY <3>3, <3>4
  <2> QED BY <2>1, <2>2, <2>3
<1>20. Len(all) <= Len(done)
  BY <1>5, <1>17
<1>21. \A b \in DOMAIN all : \A k \in DOMAIN all[b].code : Right(all[b].code[k], e.syms)
  BY <1>19
<1>22. Table(e.syms, Len(all))
  BY <1>15, <1>17
<1>23. syms' = e.syms
  BY <1>1
<1> DEFINE t == e.syms
<1> HIDE DEF t
<1>24. /\ syms' = t /\ IsSeq(all) /\ Len(all) <= Len(done) /\ Table(t, Len(all))
       /\ \A b \in DOMAIN all : \A k \in DOMAIN all[b].code : Right(all[b].code[k], t)
  BY <1>17, <1>20, <1>21, <1>22, <1>23 DEF t
<1>25. stage' = "generated" /\ verdict' = "none"
  BY <1>1, <1>2
<1>26. Table(syms, Len(bodies))'
  BY <1>2, <1>18, <1>24 DEF Table
<1>27. (\A b \in DOMAIN bodies : \A k \in DOMAIN bodies[b].code : Right(bodies[b].code[k], syms))'
  BY <1>18, <1>24
<1>28. (IsSeq(bodies) /\ Len(bodies) <= Len(done))'
  BY <1>2, <1>18, <1>24
<1> QED BY <1>25, <1>26, <1>27, <1>28 DEF Lowered

LEMMA RightValid ==
  ASSUME NEW i, Right(i, syms)
  PROVE  Valid(i)
<1>1. CASE i.op \in IntOps \cup Truths \cup {"exit", "usleep", "ret"}
  <2>1. i.op \notin Compares \cup {"load", "store", "printf", "call"}
    BY <1>1 DEF IntOps, Truths, Compares
  <2>2. Types(i.args) \subseteq {"i64"}
    BY <1>1 DEF Right
  <2> QED BY <1>1, <2>1, <2>2 DEF Valid
<1>2. CASE i.op \in Compares
  <2>1. i.op \notin IntOps \cup Truths \cup {"exit", "usleep", "ret", "load", "store", "printf", "call"}
    BY <1>2 DEF IntOps, Truths, Compares
  <2>2. Types(i.args) = {"i64"}
    BY <1>2 DEF Right
  <2> QED BY <1>2, <2>1, <2>2 DEF Valid
<1>3. CASE i.op \in {"load", "store", "printf", "call"}
  <2>1. i.op \notin IntOps \cup Truths \cup Compares \cup {"exit", "usleep", "ret"}
    BY <1>3 DEF IntOps, Truths, Compares
  <2> QED BY <1>3, <2>1 DEF Valid, Right
<1>4. CASE i.op \notin IntOps \cup Truths \cup Compares
                         \cup {"exit", "usleep", "ret", "load", "store", "printf", "call"}
  BY <1>4 DEF Valid
<1> QED BY <1>1, <1>2, <1>3, <1>4

LEMMA VerifyStep ==
  ASSUME IInv, Lowered, VerifyModule
  PROVE  Lowered'
<1>1. /\ stage = "generated" /\ stage' = stage /\ done' = done /\ syms' = syms /\ bodies' = bodies
      /\ verdict' = IF \A b \in DOMAIN bodies : \A k \in DOMAIN bodies[b].code :
                         Valid(bodies[b].code[k])
                    THEN "accepted" ELSE "rejected"
  BY DEF VerifyModule, genVars
<1>2. /\ IsSeq(bodies) /\ Len(bodies) <= Len(done) /\ Table(syms, Len(bodies))
      /\ \A b \in DOMAIN bodies : \A k \in DOMAIN bodies[b].code : Right(bodies[b].code[k], syms)
  BY DEF Lowered
<1>3. \A b \in DOMAIN bodies : \A k \in DOMAIN bodies[b].code : Valid(bodies[b].code[k])
  <2> SUFFICES ASSUME NEW b \in DOMAIN bodies, NEW k \in DOMAIN bodies[b].code
               PROVE  Valid(bodies[b].code[k])
    OBVIOUS
  <2> DEFINE i == bodies[b].code[k]
  <2>1. Right(i, syms)
    BY <1>2
  <2> HIDE DEF i
  <2>2. Valid(i)
    BY <2>1, RightValid
  <2> QED BY <2>2 DEF i
<1>4. verdict' = "accepted"
  BY <1>1, <1>3
<1>5. (IsSeq(bodies) /\ Len(bodies) <= Len(done))' /\ stage' = "generated"
  BY <1>1, <1>2
<1>6. Table(syms, Len(bodies))'
  BY <1>1, <1>2 DEF Table
<1>7. (\A b \in DOMAIN bodies : \A k \in DOMAIN bodies[b].code : Right(bodies[b].code[k], syms))'
  BY <1>1, <1>2
<1> QED BY <1>4, <1>5, <1>6, <1>7 DEF Lowered

\* Nothing is lowered while the module is still being generated.
LEMMA Unlowered ==
  ASSUME syms = <<>>, bodies = <<>>, verdict = "none", IsSeq(done)
  PROVE  Lowered
<1>1. IsSeq(<<>>) /\ DOMAIN <<>> = {} /\ Len(<<>>) = 0
  BY DEF IsSeq
<1>2. Len(done) \in Nat
  BY DEF IsSeq
<1>3. Table(syms, Len(bodies))
  BY <1>1 DEF Table
<1> QED BY <1>1, <1>2, <1>3 DEF Lowered

LEMMA GenerateStep ==
  ASSUME Lowered, IInv', GenNext, UNCHANGED llVars
  PROVE  Lowered'
<1>1. stage = "module"
  BY Generating
<1>2. bodies = <<>> /\ syms = <<>> /\ verdict = "none"
  BY <1>1 DEF Lowered
<1>3. bodies' = <<>> /\ syms' = <<>> /\ verdict' = "none"
  BY <1>2 DEF llVars
<1>4. IsSeq(done)'
  BY DEF IInv, Fixed
<1>5. IsSeq(<<>>) /\ DOMAIN <<>> = {} /\ Len(<<>>) = 0
  BY DEF IsSeq
<1>6. Len(done') \in Nat
  BY <1>4 DEF IsSeq
<1>7. Table(syms, Len(bodies))'
  BY <1>3, <1>5 DEF Table
<1> QED BY <1>3, <1>5, <1>6, <1>7 DEF Lowered

LEMMA IdleStep ==
  ASSUME Lowered, UNCHANGED modVars
  PROVE  Lowered'
<1>1. stage' = stage /\ done' = done /\ syms' = syms /\ bodies' = bodies /\ verdict' = verdict
  BY DEF modVars, genVars, llVars
<1>2. Table(syms, Len(bodies))'
  BY <1>1 DEF Lowered, Table
<1>3. (\A b \in DOMAIN bodies : \A k \in DOMAIN bodies[b].code : Right(bodies[b].code[k], syms))'
  BY <1>1 DEF Lowered
<1>4. /\ (stage # "generated" => bodies = <<>> /\ syms = <<>> /\ verdict = "none")'
      /\ (verdict # "rejected")' /\ (IsSeq(bodies) /\ Len(bodies) <= Len(done))'
  BY <1>1 DEF Lowered
<1> QED BY <1>2, <1>3, <1>4 DEF Lowered

LEMMA ModuleStep ==
  ASSUME IInv, KInv, Lowered, Supported, [ModNext]_modVars
  PROVE  IInv' /\ KInv' /\ Lowered'
<1>1. [GenNext]_genVars
  BY DEF ModNext, LowerFunction, VerifyModule, modVars
<1>2. EmptyArraysDropped
  BY Unextended
<1>3. IInv' /\ KInv'
  BY <1>1, <1>2, NextIInv, NextTyped
<1>4. Lowered'
  <2>1. CASE GenNext /\ UNCHANGED llVars
    BY <1>3, <2>1, GenerateStep
  <2>2. CASE LowerFunction
    BY <2>2, LowerFunctionStep
  <2>3. CASE VerifyModule
    BY <2>3, VerifyStep
  <2>4. CASE UNCHANGED modVars
    BY <2>4, IdleStep
  <2> QED BY <2>1, <2>2, <2>3, <2>4 DEF ModNext
<1> QED BY <1>3, <1>4

\* The invariant of the composition: what IRGen has made has the types that
\* its uses need, and what was lowered keeps them.
LEMMA ModuleInvariant == Supported => (ModSpec => [](IInv /\ KInv /\ Lowered))
<1> SUFFICES ASSUME Supported PROVE ModSpec => [](IInv /\ KInv /\ Lowered)
  OBVIOUS
<1>1. ASSUME ModInit PROVE IInv /\ KInv /\ Lowered
  <2>1. IInv /\ KInv
    BY <1>1, InitIInv, InitTyped DEF ModInit
  <2>2. IsSeq(done)
    BY <2>1 DEF IInv, Fixed
  <2>3. syms = <<>> /\ bodies = <<>> /\ verdict = "none"
    BY <1>1 DEF ModInit
  <2>4. Lowered
    BY <2>2, <2>3, Unlowered
  <2> QED BY <2>1, <2>4
<1>2. ModInit => IInv /\ KInv /\ Lowered
  BY <1>1
<1>3. (IInv /\ KInv /\ Lowered) /\ [ModNext]_modVars => (IInv /\ KInv /\ Lowered)'
  BY ModuleStep
<1> QED BY <1>2, <1>3, PTL DEF ModSpec

(***************************************************************************)
(* LLVM's verifier accepts every module that SemanticAnalyzer accepted and *)
(* whose constructs the code generator supports: whatever the declarations *)
(* and the expressions in them, the value that emit() resolves for a       *)
(* register has the type that the instruction reading it takes, and a call *)
(* has the operands that its symbol takes.                                 *)
(***************************************************************************)
THEOREM TypesAlwaysKept == Supported => (ModSpec => []TypesKept)
<1>1. IInv /\ KInv /\ Lowered => TypesKept
  BY DEF Lowered, TypesKept
<1> QED BY <1>1, ModuleInvariant, PTL

(***************************************************************************)
(* In such a module, where a function is called behind its definition, the *)
(* call reaches the symbol that has its body, and no declaration that      *)
(* getOrInsertFunction made in its place; exit, printf and usleep are the  *)
(* C library's.                                                            *)
(***************************************************************************)
THEOREM CallsReach == Supported => (ModSpec => []CallsReachDefinitions)
<1>1. Lowered => CallsReachDefinitions
  BY DEF Lowered, Right, CSymbols, CallsReachDefinitions
<1> QED BY <1>1, ModuleInvariant, PTL
=============================================================================
