------------------------------ MODULE ModuleRuns ------------------------------
(***************************************************************************)
(* Runs of the LLVM code that ModuleLower made, compared with what the     *)
(* functions of the module mean.                                           *)
(***************************************************************************)
EXTENDS ModuleLower

LOCAL INSTANCE SequencesExt

M == INSTANCE ExprMeaning

(***************************************************************************)
(* What a run of the LLVM code does, external: the code is straight-line   *)
(* up to its first terminator.  A division of LLVM is one that may fail.   *)
(***************************************************************************)
Computes(op, args) ==
  LET of == [add |-> "+", sub |-> "-", mul |-> "*", sdiv |-> "/", srem |-> "%",
             and |-> "&", or |-> "|", xor |-> "^", shl |-> "<<", ashr |-> ">>",
             eq |-> "==", ne |-> "!=", slt |-> "<", sgt |-> ">", sle |-> "<=",
             sge |-> ">=", land |-> "&&", lor |-> "||", lnot |-> "!", neg |-> "-",
             not |-> "~"]
  IN  M!Apply(of[op], args)

\* A run's state: the values of registers, what the slots hold, the events.
Set(f, x, v) == [y \in DOMAIN f \cup {x} |-> IF y = x THEN v ELSE f[y]]
Step(s, i) ==
  LET Reg(v) == IF v.id \in DOMAIN s.regs THEN s.regs[v.id] ELSE M!Undefined
      args   == [a \in DOMAIN i.args |-> Reg(i.args[a])]
      Gives(t, v) == [t EXCEPT !.regs = Set(@, i.id, v)]
  IN  CASE s.over -> s
        [] ~s.over /\ i.op = "alloca" -> Gives(s, M!Term("slot", "", <<>>, i.id))
        [] ~s.over /\ i.op = "arg"    -> Gives(s, M!Argument(i.args[1]))
        [] ~s.over /\ i.op = "const"  -> Gives(s, M!Literal(i.sym))
        [] ~s.over /\ i.op = "load"   ->
             Gives(s, IF args[1].n \in DOMAIN s.mem THEN s.mem[args[1].n] ELSE M!Undefined)
        [] ~s.over /\ i.op = "store"  -> [s EXCEPT !.mem = Set(@, args[2].n, args[1])]
        [] ~s.over /\ i.op = "exit"   ->
             [M!Happens(s, "exit", M!OneOr(args, IF i.sym = "escape" THEN "1" ELSE "0"))
                EXCEPT !.over = TRUE]
        [] ~s.over /\ i.op = "usleep" -> M!Happens(s, "wait", M!OneOr(args, "0"))
        [] ~s.over /\ i.op = "printf" ->
             M!Happens(s, IF i.sym = "%s" THEN "print text" ELSE "print number", args)
        [] ~s.over /\ i.op = "call"   ->
             LET t == M!Happens(s, i.sym, args)
             IN  IF i.id = NoReg THEN t ELSE Gives(t, M!ResultOf(t.events))
        [] ~s.over /\ i.op = "ret"    -> [s EXCEPT !.returned = args, !.over = TRUE]
        [] ~s.over /\ i.op \in {"unreachable", "block"} ->
             [s EXCEPT !.returned = <<M!Undefined>>, !.over = TRUE]
        [] ~s.over /\ i.op \in {"sdiv", "srem"} ->
             Gives(M!Happens(s, "divide", args), Computes(i.op, args))
        [] ~s.over /\ i.op \in (IntOps \cup Compares \cup Truths) \ {"sdiv", "srem"} ->
             Gives(s, Computes(i.op, args))

Run(code) ==
  M!Outcome(FoldLeft(Step, [regs |-> <<>>, mem |-> <<>>, events |-> <<>>, guard |-> <<>>,
                            over |-> FALSE, returned |-> <<>>], code))

(***************************************************************************)
(* Every function of an accepted module does what its tree means: the same *)
(* calls and divisions, in the same order and with the same operands, each *)
(* as often; the same exit; and it returns the same value.                 *)
(***************************************************************************)
MeaningPreserved ==
  verdict = "accepted" =>
    \A k \in DOMAIN done : Run(bodies[k].code) = M!Meaning(done[k])
=============================================================================
