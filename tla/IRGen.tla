------------------------------- MODULE IRGen -------------------------------
(***************************************************************************)
(* Lowering of one function body to VCC IR: the visitor IRGen and the      *)
(* IRBuilder it drives (src/ir/IRGen.cpp, IRBuilder.cpp, IRModule.cpp).    *)
(*                                                                         *)
(* The AST is revealed one statement at a time: each Visit action is the   *)
(* visitor of one statement node, up to the recursive call that lowers a   *)
(* nested body; the matching End action is the rest of that visitor, after *)
(* the body has been lowered.  A frame holds what the suspended C++ call   *)
(* keeps in its locals.  So the behaviours are the lowerings of every AST  *)
(* with at most MaxStmts statements nested at most MaxDepth deep, whose    *)
(* statements are of the kinds in Lang.                                    *)
(*                                                                         *)
(* Expressions have no control flow in IRGen (&& and || included), so an   *)
(* expression is one instruction that yields a fresh register: a literal,  *)
(* or a read of a name.  Only functions that SemanticAnalyzer accepts      *)
(* reach IRGen: env and here say what SemanticAnalyzer has in scope, and   *)
(* for each name the slot of the declaration it resolved the name to;      *)
(* reads and writes record what every use of a name was resolved to.       *)
(***************************************************************************)
EXTENDS Integers, Sequences, FiniteSets

CONSTANTS
  Names,      \* names of parameters and local variables
  Lang,       \* the kinds of statement the functions are written in
  MaxStmts,   \* bound: statements per function
  MaxDepth,   \* bound: nesting of bodies
  MaxArms     \* bound: arms of a match

ASSUME BoundsAssumption == MaxStmts \in Nat /\ MaxDepth \in Nat /\ MaxArms \in Nat
\* No variable has the name that stands for a literal or an absent expression.
ASSUME NamesAssumption == {"literal", "none"} \cap Names = {}

VARIABLES
  ir,        \* the builder: blocks of fn_, insert point, counters, lastReg_
  varSlots,  \* varSlots_: name -> alloca register, NoReg when absent
  frames,    \* suspended visitors, innermost last
  env,       \* what each name is bound to in the current scope
  here,      \* names declared in the innermost scope
  reads,     \* <<r, s>>: register r reads a name resolved to slot s
  writes,    \* <<v, s>>: value v is assigned to a name resolved to slot s
  stmts,     \* statements visited so far
  phase      \* "body" while lowering, "done" after FunctionDecl's visit

irVars  == <<ir, varSlots, frames>>
semVars == <<env, here, reads, writes>>
vars    == <<ir, varSlots, frames, env, here, reads, writes, stmts, phase>>

NoReg   == 0
NoSlot  == 0     \* declared, but IRGen allocates nothing for it
Unbound == [slot |-> -1, mut |-> TRUE]
Lit     == "literal"
None    == "none"

(***************************************************************************)
(* The builder.  A label is a prefix and the counter value newLabel gave   *)
(* it; an instruction names its result register, its register operands and *)
(* the labels it branches to.                                              *)
(***************************************************************************)
Prefixes == {"entry", "after_ret", "then", "else", "merge", "while", "vloop",
             "vloop_cond", "vloop_body", "vloop_exit", "for_cond", "for_body",
             "for_exit", "match_exit", "match_arm", "match_next"}
Label == Prefixes \X Nat
Entry == <<"entry", 0>>

Terminators == {"ret", "br", "condbr"}
Ops == Terminators \cup {"alloca", "param", "store", "load", "named", "eval", "int",
                         "test", "poll", "bump", "exit"}
Instr == [op : Ops, dest : Nat, args : Seq(Nat), to : Seq(Label)]
Block == [label : Label, instrs : Seq(Instr)]
Builder == [blocks : Seq(Block), cur : Nat, labels : Nat, regs : Nat, val : Nat]

Terminated(block) ==
  /\ block.instrs # <<>>
  /\ block.instrs[Len(block.instrs)].op \in Terminators
isTerminated(b) == Terminated(b.blocks[b.cur])

\* IRBuilder::append
Emit(b, instr) == [b EXCEPT !.blocks[b.cur].instrs = Append(@, instr)]

\* An instruction with a result: a fresh register, which becomes lastReg_.
Value(b, op, args) ==
  LET r == b.regs + 1
  IN  [Emit(b, [op |-> op, dest |-> r, args |-> args, to |-> <<>>])
         EXCEPT !.regs = r, !.val = r]

Effect(b, op, args, to) ==
  Emit(b, [op |-> op, dest |-> NoReg, args |-> args, to |-> to])

buildAlloca(b)           == Value(b, "alloca", <<>>)
buildStore(b, val, slot) == Effect(b, "store", <<val, slot>>, <<>>)
buildRet(b, args)        == Effect(b, "ret", args, <<>>)
buildBranch(b, l)        == Effect(b, "br", <<>>, <<l>>)
buildCondBranch(b, cond, yes, no) == Effect(b, "condbr", <<cond>>, <<yes, no>>)

\* The label returned by the k-th call of newLabel from b on (k = 0, 1, ...),
\* and the counter after n such calls.
newLabel(b, prefix, k) == <<prefix, b.labels + k>>
\* Mutation of Issued: the last of the labels is not counted.
IssuedOneShort(b, n) == [b EXCEPT !.labels = @ + n - 1]
Issued(b, n) == [b EXCEPT !.labels = @ + n]

\* Mutation of OpenBlock: the insert point is one past the new block.
OpenBlockPast(b, l) ==
  [b EXCEPT !.blocks = Append(@, [label |-> l, instrs |-> <<>>]),
            !.cur = Len(b.blocks) + 2]

\* setBlock(addBlock(l))
OpenBlock(b, l) ==
  [b EXCEPT !.blocks = Append(@, [label |-> l, instrs |-> <<>>]),
            !.cur = Len(b.blocks) + 1]

\* Mutation of BranchIfOpen: the block is not asked for a terminator.
BranchAlways(b, l) == buildBranch(b, l)

\* if (!isTerminated()) buildBranch(l)
BranchIfOpen(b, l) == IF isTerminated(b) THEN b ELSE buildBranch(b, l)

\* The value of expression e, with name resolution as in visit(IdentExpr).
Eval(b, slots, e) ==
  IF e = Lit THEN Value(b, "eval", <<>>)
  ELSE IF slots[e] = NoReg THEN Value(b, "named", <<>>)
  ELSE Value(b, "load", <<slots[e]>>)

(***************************************************************************)
(* Frames.  next is the label of the block to open when the body is done,  *)
(* join the label the body branches to at its end; reg is the register the *)
(* suspended visitor still needs (the match subject, the loop counter);    *)
(* at is the number of statements visited when the body began, arms the    *)
(* arms of a match begun so far.                                           *)
(***************************************************************************)
Kinds == {"block", "if", "loop", "count", "arm", "wild"}
Binding == [slot : Int, mut : BOOLEAN]
Frame == [kind : Kinds, next : Label, join : Label, reg : Nat, at : Nat,
          arms : Nat, scoped : BOOLEAN, env : [Names -> Binding], here : SUBSET Names]

Top == frames[Len(frames)]
Pop == SubSeq(frames, 1, Len(frames) - 1)

NewFrame(kind, next, join, reg, scoped) ==
  [kind |-> kind, next |-> next, join |-> join, reg |-> reg, at |-> stmts + 1,
   arms |-> 1, scoped |-> scoped, env |-> env, here |-> here]

\* A body in braces is a BlockStmt and gets a scope; a bare body is a single
\* statement without one.
InBareBody == frames # <<>> /\ ~Top.scoped
BodyAllowed(scoped, visited) == scoped \/ ("bare" \in Lang /\ visited < MaxStmts)
EnterScope(scoped) == here' = (IF scoped THEN {} ELSE here) /\ env' = env
LeaveScope(f) ==
  IF f.scoped THEN env' = f.env /\ here' = f.here ELSE UNCHANGED <<env, here>>

Bound(e) == e \in Names => env[e] # Unbound
Exprs    == {Lit} \cup Names
Usable(e) == e \in Exprs /\ Bound(e)

\* What resolving e now adds to reads, when the value of e is register r.
ReadOf(e, r) == IF e \in Names THEN {<<r, env[e].slot>>} ELSE {}

AfterExit ==
  LET code == ir.blocks[ir.cur].instrs
  IN  code # <<>> /\ code[Len(code)].op = "exit"

Visiting(kind) ==
  /\ phase = "body" /\ kind \in Lang /\ stmts < MaxStmts
  /\ InBareBody => stmts = Top.at
  /\ AfterExit => "afterexit" \in Lang
  /\ stmts' = stmts + 1 /\ phase' = phase
Nesting(kind, f) ==
  /\ Visiting(kind) /\ Len(frames) < MaxDepth
  /\ frames' = Append(frames, f)

(***************************************************************************)
(* visit(FunctionDecl): the entry block and the parameters' slots.         *)
(***************************************************************************)
EmptyBuilder == [blocks |-> <<[label |-> Entry, instrs |-> <<>>]>>, cur |-> 1,
                 labels |-> 0, regs |-> 0, val |-> NoReg]

\* alloca, param and store for one parameter; its slot is the first register.
Param(b) ==
  LET b1 == buildAlloca(b)
      b2 == Value(b1, "param", <<>>)
  IN  buildStore(b2, b2.val, b1.val)

Init ==
  /\ \E p \in {None} \cup Names :
       /\ ir = IF p = None THEN EmptyBuilder ELSE Param(EmptyBuilder)
       /\ varSlots = [x \in Names |-> IF x = p THEN 1 ELSE NoReg]
       /\ env = [x \in Names |->
                   IF x = p THEN [slot |-> 1, mut |-> TRUE] ELSE Unbound]
  /\ frames = <<>> /\ here = {} /\ reads = {} /\ writes = {}
  /\ stmts = 0 /\ phase = "body"

(***************************************************************************)
(* Statements without a body.                                              *)
(***************************************************************************)
\* visit(VarDecl): the slot is bound to the name before the initializer is
\* lowered; SemanticAnalyzer resolved the initializer before the define.
VisitVarDecl(x, e) ==
  /\ Visiting("var")
  /\ x \notin here
  /\ env[x] # Unbound => "shadow" \in Lang
  /\ e = x => "selfinit" \in Lang
  /\ InBareBody => "baredecl" \in Lang
  /\ e # None => Usable(e)
  /\ LET b1 == buildAlloca(ir)
         slots == [varSlots EXCEPT ![x] = b1.val]
         b2 == Eval(b1, slots, e)
     IN  /\ varSlots' = slots
         /\ ir' = IF e = None THEN b1 ELSE buildStore(b2, b2.val, b1.val)
         /\ reads' = IF e = None THEN reads ELSE reads \cup ReadOf(e, b2.val)
         /\ writes' = IF e = None THEN writes
                      ELSE writes \cup {<<b2.val, b1.val>>}
         /\ env' = [env EXCEPT ![x] = [slot |-> b1.val, mut |-> TRUE]]
  /\ here' = here \cup {x}
  /\ UNCHANGED frames

\* visit(ExprStmt) on a literal, a name or a call.
VisitExprStmt(e) ==
  /\ Visiting("expr") /\ Usable(e)
  /\ ir' = Eval(ir, varSlots, e)
  /\ reads' = reads \cup ReadOf(e, ir'.val)
  /\ UNCHANGED <<varSlots, frames, env, here, writes>>

\* A call of exit or escape: an ordinary call instruction of the IR.
VisitExit ==
  /\ Visiting("exit")
  /\ ir' = Value(ir, "exit", <<>>)
  /\ UNCHANGED <<varSlots, frames, semVars>>

\* Mutation of VisitAssign: a compound assignment stores its right operand.
AssignOperand(x, e, compound) ==
  /\ Visiting("assign") /\ Usable(e)
  /\ env[x].mut /\ env[x] # Unbound
  /\ LET b1 == IF compound THEN Eval(ir, varSlots, x) ELSE ir
         b2 == Eval(b1, varSlots, e)
         b3 == IF compound THEN Value(b2, "eval", <<b1.val, b2.val>>) ELSE b2
     IN  /\ ir' = buildStore(b3, b2.val, varSlots[x])
         /\ reads' = reads \cup ReadOf(e, b2.val)
                       \cup (IF compound THEN {<<b1.val, env[x].slot>>} ELSE {})
         /\ writes' = writes \cup {<<b3.val, env[x].slot>>}
  /\ UNCHANGED <<varSlots, frames, env, here>>

\* visit(AssignExpr), plain and compound.  SemanticAnalyzer rejects an
\* immutable target and declares an unknown one in the current scope; IRGen
\* emits no store when the name has no slot.
VisitAssign(x, e, compound) ==
  /\ Visiting("assign") /\ Usable(e)
  /\ env[x].mut
  /\ env[x] = Unbound => "implicit" \in Lang
  /\ LET bnd == IF env[x] = Unbound THEN [slot |-> NoSlot, mut |-> TRUE]
                                    ELSE env[x]
         b1 == IF compound THEN Eval(ir, varSlots, x) ELSE ir
         b2 == Eval(b1, varSlots, e)
         b3 == IF compound THEN Value(b2, "eval", <<b1.val, b2.val>>) ELSE b2
     IN  /\ ir' = IF varSlots[x] = NoReg THEN b3
                  ELSE buildStore(b3, b3.val, varSlots[x])
         /\ env' = [env EXCEPT ![x] = bnd]
         /\ here' = IF env[x] = Unbound THEN here \cup {x} ELSE here
         /\ reads' = reads \cup ReadOf(e, b2.val)
                       \cup (IF compound THEN {<<b1.val, bnd.slot>>} ELSE {})
         /\ writes' = writes \cup {<<b3.val, bnd.slot>>}
  /\ UNCHANGED <<varSlots, frames>>

\* visit(ReturnStmt): what follows in the body goes to an unreachable block.
VisitReturn(e) ==
  /\ Visiting("return")
  /\ e # None => Usable(e)
  /\ LET b1 == IF e = None THEN buildRet(ir, <<>>)
               ELSE LET v == Eval(ir, varSlots, e) IN buildRet(v, <<v.val>>)
     IN  /\ ir' = Issued(OpenBlock(b1, newLabel(b1, "after_ret", 0)), 1)
         /\ reads' = IF e = None THEN reads ELSE reads \cup ReadOf(e, b1.val)
  /\ UNCHANGED <<varSlots, frames, env, here, writes>>

\* visit(BreakStmt), visit(ContinueStmt): the no-ops of ASTVisitorBase.
VisitBreak    == Visiting("break") /\ UNCHANGED <<irVars, semVars>>
VisitContinue == Visiting("continue") /\ UNCHANGED <<irVars, semVars>>

(***************************************************************************)
(* Statements with a body.                                                 *)
(***************************************************************************)
VisitBlock ==
  /\ Nesting("block", NewFrame("block", Entry, Entry, NoReg, TRUE))
  /\ EnterScope(TRUE)
  /\ UNCHANGED <<ir, varSlots, reads, writes>>

\* visit(IfStmt) up to the then branch.  While an else branch is still to
\* come, the frame's next is its label; afterwards next is the merge label.
VisitIf(e, hasElse, scoped) ==
  /\ Usable(e)
  /\ BodyAllowed(scoped, stmts + 1)
  /\ LET b1    == Eval(ir, varSlots, e)
         then  == newLabel(b1, "then", 0)
         else  == newLabel(b1, "else", 1)
         merge == newLabel(b1, "merge", IF hasElse THEN 2 ELSE 1)
         next  == IF hasElse THEN else ELSE merge
         b2    == buildCondBranch(b1, b1.val, then, next)
     IN  /\ ir' = Issued(OpenBlock(b2, then), IF hasElse THEN 3 ELSE 2)
         /\ reads' = reads \cup ReadOf(e, b1.val)
         /\ Nesting("if", NewFrame("if", next, merge, NoReg, scoped))
  /\ EnterScope(scoped)
  /\ UNCHANGED <<varSlots, writes>>

\* visit(WhileStmt), and visit(VloopStmt) with a condition: the prefix of
\* the labels is all that differs.
VisitLoop(e, kind) ==
  /\ Usable(e)
  /\ LET cond == newLabel(ir, kind, 0)
         body == newLabel(ir, kind, 1)
         exit == newLabel(ir, kind, 2)
         b1   == OpenBlock(buildBranch(ir, cond), cond)
         b2   == Eval(b1, varSlots, e)
         b3   == buildCondBranch(b2, b2.val, body, exit)
     IN  /\ ir' = Issued(OpenBlock(b3, body), 3)
         /\ reads' = reads \cup ReadOf(e, b2.val)
         /\ Nesting(kind, NewFrame("loop", exit, cond, NoReg, TRUE))
  /\ EnterScope(TRUE)
  /\ UNCHANGED <<varSlots, writes>>

\* visit(VloopStmt) with an integer literal: a counter in a slot of its own.
VisitCountedVloop ==
  /\ LET cond == newLabel(ir, "vloop_cond", 1)
         body == newLabel(ir, "vloop_body", 2)
         exit == newLabel(ir, "vloop_exit", 3)
         b1   == buildAlloca(ir)
         b2   == Value(b1, "int", <<>>)
         b3   == buildBranch(buildStore(b2, b2.val, b1.val), cond)
         b4   == Value(OpenBlock(b3, cond), "poll", <<b1.val>>)
         b5   == buildCondBranch(b4, b4.val, body, exit)
     IN  /\ ir' = Issued(OpenBlock(b5, body), 4)
         /\ Nesting("count", NewFrame("count", exit, cond, b1.val, TRUE))
  /\ EnterScope(TRUE)
  /\ UNCHANGED <<varSlots, reads, writes>>

\* Mutation of VisitFor: the name is bound to the slot of the iterator.
ForBindsIterator(x, e) ==
  /\ env[x] # Unbound => "shadow" \in Lang
  /\ e \in Exprs /\ e # x /\ Bound(e)
  /\ LET b1    == buildAlloca(ir)
         b2    == Eval(b1, varSlots, e)
         b3    == buildAlloca(b2)
         b4    == buildStore(b3, b2.val, b3.val)
         cond  == newLabel(ir, "for_cond", 0)
         body  == newLabel(ir, "for_body", 1)
         exit  == newLabel(ir, "for_exit", 2)
         b5    == OpenBlock(buildBranch(b4, cond), cond)
         b6    == Value(b5, "poll", <<b3.val>>)
         b7    == buildCondBranch(b6, b6.val, body, exit)
     IN  /\ varSlots' = [varSlots EXCEPT ![x] = b3.val]
         /\ ir' = Issued(OpenBlock(b7, body), 3)
         /\ reads' = reads \cup ReadOf(e, b2.val)
         /\ Nesting("for", NewFrame("loop", exit, cond, NoReg, TRUE))
         /\ env' = [env EXCEPT ![x] = [slot |-> b1.val, mut |-> FALSE]]
  /\ here' = {}
  /\ UNCHANGED writes

\* visit(ForStmt).  SemanticAnalyzer defines the (immutable) loop variable
\* before it visits the iterable, so the iterable may read it.
VisitFor(x, e) ==
  /\ env[x] # Unbound => "shadow" \in Lang
  /\ LET b1    == buildAlloca(ir)
         slots == [varSlots EXCEPT ![x] = b1.val]
         inner == [env EXCEPT ![x] = [slot |-> b1.val, mut |-> FALSE]]
         b2    == Eval(b1, slots, e)
         b3    == buildAlloca(b2)
         b4    == buildStore(b3, b2.val, b3.val)
         cond  == newLabel(ir, "for_cond", 0)
         body  == newLabel(ir, "for_body", 1)
         exit  == newLabel(ir, "for_exit", 2)
         b5    == OpenBlock(buildBranch(b4, cond), cond)
         b6    == Value(b5, "poll", <<b3.val>>)
         b7    == buildCondBranch(b6, b6.val, body, exit)
     IN  /\ e \in Exprs /\ (e \in Names => inner[e] # Unbound)
         /\ varSlots' = slots
         /\ ir' = Issued(OpenBlock(b7, body), 3)
         /\ reads' = reads \cup
              (IF e \in Names THEN {<<b2.val, inner[e].slot>>} ELSE {})
         /\ Nesting("for", NewFrame("loop", exit, cond, NoReg, TRUE))
         /\ env' = inner
  /\ here' = {}
  /\ UNCHANGED writes

\* One iteration of visit(MatchStmt)'s loop up to the arm's body: wild says
\* that the arm's pattern is '_', last that no arm follows.
Arm(b, subj, exit, wild, last) ==
  LET body == newLabel(b, "match_arm", 0)
      next == IF last THEN exit ELSE newLabel(b, "match_next", 1)
      b1   == Value(b, "test", <<subj>>)
      b2   == IF wild THEN buildBranch(b, body)
                      ELSE buildCondBranch(b1, b1.val, body, next)
  IN  [ir |-> Issued(OpenBlock(b2, body), IF last THEN 1 ELSE 2), next |-> next]

\* A match either ends in a wildcard arm or, with "partial", need not.
ArmAllowed(arms, wild, last) ==
  IF last THEN wild \/ "partial" \in Lang ELSE arms < MaxArms

VisitMatch(e, wild, last, scoped) ==
  /\ Usable(e) /\ ArmAllowed(1, wild, last) /\ BodyAllowed(scoped, stmts + 1)
  /\ LET b1   == Eval(ir, varSlots, e)
         exit == newLabel(b1, "match_exit", 0)
         arm  == Arm(Issued(b1, 1), b1.val, exit, wild, last)
         kind == IF wild THEN "wild" ELSE "arm"
     IN  /\ ir' = arm.ir
         /\ reads' = reads \cup ReadOf(e, b1.val)
         /\ Nesting("match", NewFrame(kind, arm.next, exit, b1.val, scoped))
  /\ EnterScope(scoped)
  /\ UNCHANGED <<varSlots, writes>>

\* A match without arms.
VisitEmptyMatch(e) ==
  /\ Visiting("match") /\ Usable(e)
  /\ LET b1   == Eval(ir, varSlots, e)
         exit == newLabel(b1, "match_exit", 0)
     IN  /\ ir' = Issued(OpenBlock(buildBranch(b1, exit), exit), 1)
         /\ reads' = reads \cup ReadOf(e, b1.val)
  /\ UNCHANGED <<varSlots, frames, env, here, writes>>

(***************************************************************************)
(* The rest of those visitors, once the body has been lowered.             *)
(***************************************************************************)
Ending(kinds) ==
  /\ phase = "body" /\ frames # <<>> /\ Top.kind \in kinds
  /\ InBareBody => stmts > Top.at
  /\ UNCHANGED <<varSlots, reads, writes, stmts, phase>>

EndBlock ==
  /\ Ending({"block"})
  /\ LeaveScope(Top)
  /\ frames' = Pop
  /\ UNCHANGED ir

\* The then branch of an if that has an else branch is done.
EndThen(scoped) ==
  /\ Ending({"if"}) /\ Top.next # Top.join
  /\ BodyAllowed(scoped, stmts)
  /\ ir' = OpenBlock(BranchIfOpen(ir, Top.join), Top.next)
  /\ LET e == IF Top.scoped THEN Top.env ELSE env
         h == IF Top.scoped THEN Top.here ELSE here
     IN  /\ frames' = Append(Pop, [Top EXCEPT !.next = Top.join, !.env = e,
                                              !.here = h, !.scoped = scoped,
                                              !.at = stmts])
         /\ env' = e
         /\ here' = IF scoped THEN {} ELSE h

EndIf ==
  /\ Ending({"if"}) /\ Top.next = Top.join
  /\ ir' = OpenBlock(BranchIfOpen(ir, Top.join), Top.join)
  /\ LeaveScope(Top)
  /\ frames' = Pop

\* Mutations of EndLoop: the body does not go back to the condition; the
\* block opened after the loop is labelled like its condition; lastReg_ is
\* incremented instead of the counter.
EndLoopOnce ==
  /\ Ending({"loop", "count"})
  /\ ir' = OpenBlock(BranchIfOpen(ir, Top.next), Top.next)
  /\ LeaveScope(Top)
  /\ frames' = Pop
EndLoopAtCondition ==
  /\ Ending({"loop", "count"})
  /\ ir' = OpenBlock(BranchIfOpen(ir, Top.join), Top.join)
  /\ LeaveScope(Top)
  /\ frames' = Pop

EndLoopLastReg ==
  /\ Ending({"loop", "count"})
  /\ LET b1 == IF Top.kind = "count" /\ ~isTerminated(ir)
               THEN Effect(ir, "bump", <<ir.val>>, <<>>) ELSE ir
     IN  ir' = OpenBlock(BranchIfOpen(b1, Top.join), Top.next)
  /\ LeaveScope(Top)
  /\ frames' = Pop

\* Of a counted vloop the counter is incremented before the back edge.
EndLoop ==
  /\ Ending({"loop", "count"})
  /\ LET b1 == IF Top.kind = "count" /\ ~isTerminated(ir)
               THEN Effect(ir, "bump", <<Top.reg>>, <<>>) ELSE ir
     IN  ir' = OpenBlock(BranchIfOpen(b1, Top.join), Top.next)
  /\ LeaveScope(Top)
  /\ frames' = Pop

\* An arm with a pattern, and another arm after it.
EndArm(wild, last, scoped) ==
  /\ Ending({"arm"}) /\ Top.next # Top.join
  /\ ArmAllowed(Top.arms + 1, wild, last) /\ BodyAllowed(scoped, stmts)
  /\ LET b1  == OpenBlock(BranchIfOpen(ir, Top.join), Top.next)
         arm == Arm(b1, Top.reg, Top.join, wild, last)
         e   == IF Top.scoped THEN Top.env ELSE env
         h   == IF Top.scoped THEN Top.here ELSE here
     IN  /\ ir' = arm.ir
         /\ frames' = Append(Pop,
              [Top EXCEPT !.kind = IF wild THEN "wild" ELSE "arm",
                          !.next = arm.next, !.env = e, !.here = h,
                          !.scoped = scoped, !.at = stmts,
                          !.arms = @ + 1])
         /\ env' = e
         /\ here' = IF scoped THEN {} ELSE h

\* The last arm: a wildcard, or a pattern whose next label is the exit's.
EndMatch ==
  /\ Ending({"arm", "wild"})
  /\ Top.kind = "arm" => Top.next = Top.join
  /\ LET b1 == BranchIfOpen(ir, Top.join)
         b2 == IF Top.kind = "wild" THEN b1 ELSE OpenBlock(b1, Top.next)
     IN  ir' = OpenBlock(BranchIfOpen(b2, Top.join), Top.join)
  /\ LeaveScope(Top)
  /\ frames' = Pop

\* The end of visit(FunctionDecl).
EndFunction ==
  /\ phase = "body" /\ frames = <<>>
  /\ ir' = IF isTerminated(ir) THEN ir ELSE buildRet(ir, <<>>)
  /\ phase' = "done"
  /\ UNCHANGED <<varSlots, frames, semVars, stmts>>

Finished == phase = "done" /\ UNCHANGED vars

Next ==
  \/ \E x \in Names, e \in Exprs \cup {None} : VisitVarDecl(x, e)
  \/ \E e \in Exprs : VisitExprStmt(e)
  \/ VisitExit
  \/ \E x \in Names, e \in Exprs, compound \in BOOLEAN : VisitAssign(x, e, compound)
  \/ \E e \in Exprs \cup {None} : VisitReturn(e)
  \/ VisitBreak
  \/ VisitContinue
  \/ VisitBlock
  \/ \E e \in Exprs, hasElse, scoped \in BOOLEAN : VisitIf(e, hasElse, scoped)
  \/ \E e \in Exprs, kind \in {"while", "vloop"} : VisitLoop(e, kind)
  \/ VisitCountedVloop
  \/ \E x \in Names, e \in Exprs : VisitFor(x, e)
  \/ \E e \in Exprs, wild, last, scoped \in BOOLEAN : VisitMatch(e, wild, last, scoped)
  \/ \E e \in Exprs : VisitEmptyMatch(e)
  \/ EndBlock
  \/ \E scoped \in BOOLEAN : EndThen(scoped)
  \/ EndIf
  \/ EndLoop
  \/ \E wild, last, scoped \in BOOLEAN : EndArm(wild, last, scoped)
  \/ EndMatch
  \/ EndFunction
  \/ Finished

Spec == Init /\ [][Next]_vars

-----------------------------------------------------------------------------
(***************************************************************************)
(* The builder's state, the slot map and the suspended visitors.           *)
(***************************************************************************)
TypeOK ==
  /\ ir \in Builder /\ ir.cur \in DOMAIN ir.blocks
  /\ varSlots \in [Names -> Nat]
  /\ frames \in Seq(Frame)
  /\ env \in [Names -> Binding] /\ here \in SUBSET Names
  /\ reads \subseteq Nat \X Int /\ writes \subseteq Nat \X Int
  /\ stmts \in Nat /\ phase \in {"body", "done"}

(***************************************************************************)
(* Exactly one terminator per block, at its end: all blocks but the last   *)
(* are closed, the last one takes instructions between any two statements  *)
(* and is closed when the function is done.  Every visitor relies on it:   *)
(* it emits without asking isTerminated() and leaves a fresh block behind. *)
(***************************************************************************)
NoTerminator(block) ==
  \A i \in DOMAIN block.instrs : block.instrs[i].op \notin Terminators
Closed(block) ==
  /\ Terminated(block)
  /\ \A i \in 1 .. Len(block.instrs) - 1 : block.instrs[i].op \notin Terminators

TerminatorDiscipline ==
  /\ ir.cur = Len(ir.blocks)
  /\ \A k \in 1 .. Len(ir.blocks) - 1 : Closed(ir.blocks[k])
  /\ IF phase = "body" THEN NoTerminator(ir.blocks[Len(ir.blocks)])
                       ELSE Closed(ir.blocks[Len(ir.blocks)])

(***************************************************************************)
(* No two blocks of a function have the same label, although the labels    *)
(* of pending blocks wait in the suspended visitors while arbitrary other  *)
(* statements issue labels (IRBuilder.h: "Allocate a unique label string").*)
(***************************************************************************)
LabelsUnique ==
  \A j, k \in DOMAIN ir.blocks :
    ir.blocks[j].label = ir.blocks[k].label => j = k

(***************************************************************************)
(* Every label that a branch names is the label of a block, or a suspended *)
(* visitor will still open that block; so none is left when the function   *)
(* is done (FunctionLowering::emit looks the labels up with blocks.at).    *)
(***************************************************************************)
BlockLabels == {ir.blocks[k].label : k \in DOMAIN ir.blocks}
Pending(f) ==
  CASE f.kind = "block"             -> {}
    [] f.kind \in {"loop", "count"} -> {f.next}
    [] f.kind = "wild"              -> {f.join}
    [] OTHER                        -> {f.next, f.join}
BranchTargets(block) ==
  UNION {{block.instrs[i].to[t] : t \in DOMAIN block.instrs[i].to} :
         i \in DOMAIN block.instrs}

TargetsOpened ==
  \A k \in DOMAIN ir.blocks :
    BranchTargets(ir.blocks[k])
      \subseteq BlockLabels \cup UNION {Pending(frames[i]) : i \in DOMAIN frames}

=============================================================================
