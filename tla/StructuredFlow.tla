--------------------------- MODULE StructuredFlow ---------------------------
(***************************************************************************)
(* The control flow that a function body means, independently of how it is *)
(* lowered: docs/syntax.md, section 5.  A point is an evaluation that the  *)
(* body makes (of an expression statement, a condition, a match subject).  *)
(* A flow is                                                               *)
(*   edges   - <<p, q>>: q may be the next evaluation after p;             *)
(*   front   - the points that control may come from at the current place  *)
(*             of the body, {} where it cannot be reached;                 *)
(*   pending - the enclosing statements, innermost last, each with         *)
(*     head  the condition of a loop,                                      *)
(*     else  the points that go on at the next branch, arm, or at the end, *)
(*     out   the points that leave the statement.                          *)
(***************************************************************************)
EXTENDS Integers, Sequences, FiniteSets

Start == 0    \* the entry of the function
Stop  == -1   \* its return to the caller

EmptyFlow == [edges |-> {}, front |-> {Start}, pending |-> <<>>]

Innermost(fl) == fl.pending[Len(fl.pending)]
Link(fl, m)   == [fl EXCEPT !.edges = @ \cup (fl.front \X {m})]
At(fl, S)     == [fl EXCEPT !.front = S]
Push(fl, f)   == [fl EXCEPT !.pending = Append(@, f)]
Drop(fl)      == [fl EXCEPT !.pending = SubSeq(@, 1, Len(@) - 1)]

\* Evaluate at point m and go on.
Evaluate(fl, m) == At(Link(fl, m), {m})
\* Leave the function; what follows is not reached.
Return(fl) == At(Link(fl, Stop), {})
\* The program ends here.
Halt(fl) == At(fl, {})

\* if: the condition was the last evaluation.
BeginIf(fl) ==
  Push(fl, [head |-> Start, else |-> fl.front, out |-> {}])
BeginElse(fl) ==
  LET f == Innermost(fl)
  IN  At(Push(Drop(fl), [f EXCEPT !.else = {}, !.out = @ \cup fl.front]), f.else)
EndBranch(fl) ==
  LET f == Innermost(fl) IN At(Drop(fl), fl.front \cup f.out \cup f.else)

\* Loops: m is the evaluation of the condition, made before every iteration.
BeginLoop(fl, m) ==
  Push(Evaluate(fl, m), [head |-> m, else |-> {m}, out |-> {}])
EndLoop(fl) ==
  LET f == Innermost(fl)
  IN  At(Drop(Link(fl, f.head)), f.out \cup f.else)

\* break and continue: the innermost enclosing loop is left, or tested again.
Loops(fl)  == {i \in DOMAIN fl.pending : fl.pending[i].head # Start}
InLoop(fl) == Loops(fl) # {}
Loop(fl)   == CHOOSE i \in Loops(fl) : \A j \in Loops(fl) : j <= i
Break(fl)    == At([fl EXCEPT !.pending[Loop(fl)].out = @ \cup fl.front], {})
Continue(fl) == At(Link(fl, fl.pending[Loop(fl)].head), {})

\* match: arms are tried in order, the subject was the last evaluation.
BeginMatch(fl) ==
  Push(fl, [head |-> Start, else |-> fl.front, out |-> {}])
\* An arm with a pattern, whose comparison is made at m; the arm '_'.
BeginArm(fl, m) ==
  LET f == Innermost(fl)
  IN  At(Push(Drop(Link(At(fl, f.else), m)), [f EXCEPT !.else = {m}]), {m})
BeginWild(fl) ==
  LET f == Innermost(fl) IN At(Push(Drop(fl), [f EXCEPT !.else = {}]), f.else)
EndArm(fl) ==
  LET f == Innermost(fl) IN Push(Drop(fl), [f EXCEPT !.out = @ \cup fl.front])
=============================================================================
