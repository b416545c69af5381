------------------------------- MODULE IRFlow -------------------------------
(***************************************************************************)
(* IRGen beside the control flow its input means (StructuredFlow): every   *)
(* visitor step also takes the step the statement stands for in the        *)
(* language, and the properties compare the blocks with the result.        *)
(***************************************************************************)
EXTENDS IRUses

F == INSTANCE StructuredFlow

VARIABLE flow    \* the flow of the statements visited so far

allVars == <<vars, flow>>

(***************************************************************************)
(* The language's side of each step.  A point is named by the register     *)
(* that holds the value evaluated there.                                   *)
(***************************************************************************)
EvalIf(e, fl, m) == IF e = None THEN fl ELSE F!Evaluate(fl, m)

\* The points of an assignment, in order: the registers that the step
\* allocated, from the first to the last.
AssignPoints(fl, first, last) ==
  LET chain[r \in first - 1 .. last] ==
        IF r < first THEN fl ELSE F!Evaluate(chain[r - 1], r)
  IN  chain[last]

\* break and continue, for which IRGen emits nothing, stand in a loop, and
\* without "jump" in code that cannot be reached.
Jumps == F!InLoop(flow) /\ (flow.front # {} => "jump" \in Lang)

FlowInit == Init /\ flow = F!EmptyFlow

FlowNext ==
  \/ \E x \in Names, e \in Exprs \cup {None} :
       VisitVarDecl(x, e) /\ flow' = EvalIf(e, flow, ir'.val)
  \/ \E e \in Exprs : VisitExprStmt(e) /\ flow' = F!Evaluate(flow, ir'.val)
  \/ VisitExit /\ flow' = F!Halt(F!Evaluate(flow, ir'.val))
  \/ \E x \in Names, e \in Exprs, compound \in BOOLEAN :
       /\ VisitAssign(x, e, compound)
       /\ flow' = AssignPoints(flow, ir.regs + 1, ir'.val)
  \/ \E e \in Exprs \cup {None} :
       VisitReturn(e) /\ flow' = F!Return(EvalIf(e, flow, ir'.val))
  \/ VisitBreak /\ Jumps /\ flow' = F!Break(flow)
  \/ VisitContinue /\ Jumps /\ flow' = F!Continue(flow)
  \/ VisitBlock /\ UNCHANGED flow
  \/ \E e \in Exprs, hasElse, scoped \in BOOLEAN :
       /\ VisitIf(e, hasElse, scoped)
       /\ flow' = F!BeginIf(F!Evaluate(flow, ir'.val))
  \/ \E e \in Exprs, kind \in {"while", "vloop"} :
       VisitLoop(e, kind) /\ flow' = F!BeginLoop(flow, ir'.val)
  \/ VisitCountedVloop /\ flow' = F!BeginLoop(flow, ir'.val)
  \/ \E x \in Names, e \in Exprs :
       /\ VisitFor(x, e)
       /\ flow' = F!BeginLoop(F!Evaluate(flow, ir'.val - 2), ir'.val)
  \/ \E e \in Exprs, wild, last, scoped \in BOOLEAN :
       /\ VisitMatch(e, wild, last, scoped)
       /\ LET begun == F!BeginMatch(F!Evaluate(flow, ir.regs + 1))
          IN  flow' = IF wild THEN F!BeginWild(begun)
                              ELSE F!BeginArm(begun, ir'.val)
  \/ \E e \in Exprs : VisitEmptyMatch(e) /\ flow' = F!Evaluate(flow, ir'.val)
  \/ EndBlock /\ UNCHANGED flow
  \/ \E scoped \in BOOLEAN : EndThen(scoped) /\ flow' = F!BeginElse(flow)
  \/ EndIf /\ flow' = F!EndBranch(flow)
  \/ EndLoop /\ flow' = F!EndLoop(flow)
  \/ \E wild, last, scoped \in BOOLEAN :
       /\ EndArm(wild, last, scoped)
       /\ flow' = IF wild THEN F!BeginWild(F!EndArm(flow))
                          ELSE F!BeginArm(F!EndArm(flow), ir'.val)
  \/ EndMatch /\ flow' = F!EndBranch(F!EndArm(flow))
  \/ EndFunction /\ flow' = F!Return(flow)
  \/ Finished /\ UNCHANGED flow

FlowSpec == FlowInit /\ [][FlowNext]_allVars

(***************************************************************************)
(* The flow of a list of blocks, read off their instructions.              *)
(***************************************************************************)
PointOps == {"eval", "load", "named", "test", "poll", "exit"}
Points(block) ==
  LET live == SelectSeq(Live(block), LAMBDA i : i.op \in PointOps)
  IN  [i \in DOMAIN live |-> live[i].dest]

\* The blocks that control enters before its next evaluation when it enters
\* those in S: the ones behind blocks without a point included.
Entered(blocks, S) ==
  LET entered[T \in SUBSET DOMAIN blocks] ==
        LET passed == {k \in T : Points(blocks[k]) = <<>>}
            labels == UNION {Targets(blocks[k]) : k \in passed}
            more   == T \cup {k \in DOMAIN blocks : blocks[k].label \in labels}
        IN  IF more = T THEN T ELSE entered[more]
  IN  entered[S]

\* Where control may be evaluated next, or Stop, when it enters block k.
FirstPoints(blocks, S) ==
  LET entered == Entered(blocks, S)
  IN  {Points(blocks[k])[1] : k \in {j \in entered : Points(blocks[j]) # <<>>}}
      \cup {F!Stop : k \in {j \in entered : Points(blocks[j]) = <<>>
                                          /\ EndsWith(blocks[j], {"ret"})}}

BlockEdges(blocks) ==
  LET After(k) == {j \in DOMAIN blocks : blocks[j].label \in Targets(blocks[k])}
      Leaving(k) ==
        FirstPoints(blocks, After(k))
        \cup (IF EndsWith(blocks[k], {"ret"}) THEN {F!Stop} ELSE {})
      EdgesOf(k) ==
        LET ps == Points(blocks[k])
        IN  IF ps = <<>> THEN {}
            ELSE {<<ps[i], ps[i + 1]>> : i \in 1 .. Len(ps) - 1}
                 \cup ({ps[Len(ps)]} \X Leaving(k))
  IN  ({F!Start} \X FirstPoints(blocks, {1}))
      \cup UNION {EdgesOf(k) : k \in DOMAIN blocks}

\* Evaluations in code that is never reached have edges too, in both views;
\* only those on a path from Start count.
Reached(edges) ==
  LET ends == UNION {{e[1], e[2]} : e \in edges}
      reached[T \in SUBSET (ends \cup {F!Start})] ==
        LET more == T \cup {e[2] : e \in {d \in edges : d[1] \in T}}
        IN  IF more = T THEN T ELSE reached[more]
      points == reached[{F!Start}]
  IN  {e \in edges : e[1] \in points}

(***************************************************************************)
(* The blocks of a finished function have exactly the control flow that    *)
(* the statements of its body mean: every if, loop, match, return and call *)
(* of exit, in every nesting, goes where the language says, and code after *)
(* a return is in blocks that nothing branches to.                         *)
(***************************************************************************)
FlowPreserved ==
  phase = "done" => Reached(BlockEdges(ir.blocks)) = Reached(flow.edges)
=============================================================================
