----------------------------- MODULE ExprMeaning -----------------------------
(***************************************************************************)
(* What straight-line code of the language means (docs/syntax.md,          *)
(* section 4): the reference that ModuleLower compares the LLVM code with. *)
(*                                                                         *)
(* A value is a term over the parameters, the literals and the results of  *)
(* calls, so two values are equal only if they are for every input.  The   *)
(* effects are a sequence of events: calls, and divisions, which may fail. *)
(* The guard of an event is what must hold for it to happen.               *)
(***************************************************************************)
EXTENDS Integers, Sequences

Term(op, sym, args, n) == [op |-> op, sym |-> sym, args |-> args, n |-> n]
Literal(text)   == Term("literal", text, <<>>, 0)
Argument(i)     == Term("argument", "", <<>>, i)
Apply(op, args) == Term(op, "", args, 0)
Nothing         == Term("nothing", "", <<>>, 0)
Undefined       == Term("undefined", "", <<>>, 0)
Event(what, args, guard) == [what |-> what, args |-> args, guard |-> guard]

\* The result of the last of the events.
ResultOf(events) == Term("result", "", <<>>, Len(events))

Happens(s, what, args) == [s EXCEPT !.events = Append(@, Event(what, args, s.guard))]
Yields(s, v) == [s EXCEPT !.val = v]
Effect(s, what, args) ==
  LET t == Happens(s, what, args) IN Yields(t, ResultOf(t.events))

\* What a pointer to its first element, or to a value, points to.
Pointed(v) == IF v.args = <<>> THEN Undefined ELSE v.args[1]

OneOr(args, default) == IF args = <<>> THEN <<Literal(default)>> ELSE args

\* A call by name: exit(code=0), escape(code=1), wait(ms) and print are the
\* builtins that act; kinds are those of the arguments.
Calling(s, name, args, kinds) ==
  CASE name = "exit"   -> [Happens(s, "exit", OneOr(args, "0")) EXCEPT !.over = TRUE]
    [] name = "escape" -> [Happens(s, "exit", OneOr(args, "1")) EXCEPT !.over = TRUE]
    [] name = "wait"   -> Yields(Happens(s, "wait", OneOr(args, "0")), Nothing)
    [] name \in {"print", "println"} ->
         Yields(Happens(s, IF kinds = <<"text">> THEN "print text" ELSE "print number", args),
                Nothing)
    [] OTHER -> Effect(s, name, args)

\* After an operand that is evaluated only if cond holds.
Conditional(before, after, cond) ==
  [after EXCEPT !.guard = before.guard,
                !.env = [x \in DOMAIN after.env |->
                           IF after.env[x] = before.env[x] THEN after.env[x]
                           ELSE Apply("if", <<cond, after.env[x], before.env[x]>>)]]

\* Eval: expression t in state s; a cast to a narrower type changes the value
\* (docs/syntax.md:447).  EvalAll: ts from left to right, with the
\* values in vals.
RECURSIVE Eval(_, _), EvalAll(_, _)
EvalAll(s, ts) ==
  IF ts = <<>> THEN [s EXCEPT !.vals = <<>>]
  ELSE LET first == Eval(s, Head(ts))
           rest  == EvalAll(first, Tail(ts))
       IN  [rest EXCEPT !.vals = <<first.val>> \o @]

Eval(s, t) ==
  IF s.over THEN s
  ELSE CASE t.node = "literal" -> Yields(s, Literal(t.name))
    [] t.node = "ident" -> Yields(s, s.env[t.name])
    [] t.node = "symbol" -> Yields(s, Apply(t.name, <<>>))
    [] t.node = "binary" /\ t.op \in {"&&", "||"} ->
         LET l    == Eval(s, t.kids[1])
             cond == Apply(t.op, <<l.val>>)
             r    == Eval([l EXCEPT !.guard = Append(@, cond)], t.kids[2])
         IN  IF l.over THEN l
             ELSE Yields(Conditional(l, r, cond), Apply(t.op, <<l.val, r.val>>))
    [] t.node = "assign" /\ t.op = "=" /\ t.name # "" ->
         LET v == Eval(s, t.kids[1])
         IN  IF v.over THEN v ELSE [v EXCEPT !.env[t.name] = v.val]
    [] OTHER ->
         LET r == EvalAll(s, t.kids)
             kinds == [i \in DOMAIN t.kids |-> t.kids[i].kind]
             value == Apply(t.op, r.vals)
             done  == IF t.op \in {"/", "%"} THEN Happens(r, "divide", r.vals) ELSE r
         IN  IF r.over THEN r
             ELSE CASE t.node = "call" -> Calling(r, t.name, r.vals, kinds)
               [] t.node = "cast" ->
                      Yields(r, IF t.op = "" THEN r.vals[1] ELSE Apply(t.op, r.vals))
               [] t.node = "assign" /\ t.name = "" -> Effect(r, "assign", r.vals)
               [] t.node = "assign" -> [Yields(done, value) EXCEPT !.env[t.name] = value]
               [] t.node = "unary" /\ t.op = "*" -> Yields(r, Pointed(r.vals[1]))
               [] t.node \in {"array", "member", "index"} -> Yields(r, Apply(t.node, r.vals))
               [] OTHER -> Yields(done, value)

RECURSIVE Execute(_, _)
Execute(s, body) ==
  IF body = <<>> \/ s.over THEN s
  ELSE LET t == Head(body)
           v == Eval(s, t.kids[1])
           x == IF t.node = "let" /\ ~v.over
                THEN [v EXCEPT !.env = [y \in DOMAIN v.env \cup {t.name} |->
                                          IF y = t.name THEN v.val ELSE v.env[y]]]
                ELSE IF t.node = "return" /\ ~v.over
                THEN [v EXCEPT !.returned = <<v.val>>, !.over = TRUE]
                ELSE v
       IN  Execute(x, Tail(body))

\* What a call of a function does: its events, and what it returns.
Start(env) == [env |-> env, events |-> <<>>, guard |-> <<>>, over |-> FALSE,
               val |-> Nothing, vals |-> <<>>, returned |-> <<>>]
Outcome(s) == [events |-> s.events, returned |-> s.returned]
Meaning(f) ==
  Outcome(Execute(Start([x \in {f.params[i] : i \in DOMAIN f.params} |->
                           Argument(CHOOSE i \in DOMAIN f.params : f.params[i] = x)]),
                  f.body))
=============================================================================
