----------------------------- MODULE SemaRules ------------------------------
(***************************************************************************)
(* The rules of the language that semantic analysis enforces, stated over  *)
(* the finished list of nodes instead of a symbol table: lexical scoping   *)
(* (docs/grammar.md, section 9), immutability, calls, and the types of     *)
(* declarations (section 10).  A declaration is named by its place, as in  *)
(* Sema: the place of its node in log, a negative one for what is hoisted. *)
(***************************************************************************)
EXTENDS Sema

(***************************************************************************)
(* Scopes as stretches of log.                                             *)
(***************************************************************************)
Nodes == DOMAIN log
Opens(j) == log[j].node \in {"fn", "block", "for"}
Level(j) == Cardinality({k \in 1 .. j - 1 : Opens(k)})
            - Cardinality({k \in 1 .. j - 1 : log[k].node = "end"})

\* The scopes that node j is in, 0 being the global one; a scope includes
\* the node that opens it.
Around(j) == {0} \cup {k \in 1 .. j : /\ Opens(k)
                                     /\ \A m \in k + 1 .. j : Level(m) > Level(k)}
Greatest(S) == CHOOSE i \in S : \A j \in S : j <= i
Least(S)    == CHOOSE i \in S : \A j \in S : i <= j
Home(j)     == Greatest(Around(j))
\* The scope of what node j declares; that of a hoisted declaration is global.
HomeOf(d) == IF d <= 0 THEN 0 ELSE Home(d)

(***************************************************************************)
(* What is declared where, and what a name means at a node.                *)
(***************************************************************************)
HoistedAs(x) ==
  (IF x \in Builtins THEN {0} ELSE {})
  \cup {-i : i \in {k \in DOMAIN decls : Hoisted(decls[k]) /\ decls[k].name = x}}

\* The first of the declarations of x counts in each scope: for the hoisted
\* ones that is the built-in, then the one with the greatest number.
Meaning(x, declares, j) ==
  LET visible == {k \in 1 .. j : x \in declares[k] /\ Home(k) \in Around(j)}
      inner   == {k \in visible : \A m \in visible : Home(m) <= Home(k)}
  IN  IF visible # {} /\ (Home(Least(inner)) > 0 \/ HoistedAs(x) = {})
      THEN {Least(inner)}
      ELSE IF HoistedAs(x) = {} THEN {} ELSE {Greatest(HoistedAs(x))}

\* An assignment declares its target if that means nothing yet.
Declares ==
  LET D[j \in Nodes] ==
        CASE log[j].node \in {"var", "import", "for"} -> {log[j].name}
          [] log[j].node = "fn" -> {log[j].params[i].name : i \in DOMAIN log[j].params}
          [] log[j].node = "assign" ->
               IF Meaning(log[j].name, [k \in 1 .. j |-> IF k = j THEN {} ELSE D[k]], j) = {}
               THEN {log[j].name} ELSE {}
          [] OTHER -> {}
  IN  D

\* A variable is not visible in its own initializer; a loop variable is in
\* the iterable, and an implicit one in the assignment that declares it.
Means(x, j) ==
  Meaning(x, IF log[j].node = "var" THEN [Declares EXCEPT ![j] = {}] ELSE Declares, j)

Expr(j) == CASE log[j].node = "var" -> log[j].init
             [] log[j].node \in {"expr", "cond", "assign", "return", "for"} -> log[j].expr
             [] OTHER -> None

(***************************************************************************)
(* Faults of names: what pass 1 and pass 2 are to report, and where.       *)
(***************************************************************************)
IsFunction(d) == d = 0 \/ (d < 0 /\ decls[-d].node = "fn")
WrongCall(l, d) == IsFunction(d) /\ d # 0 /\ Len(decls[-d].params) # Len(l.args)

\* What node d declares under the name x is not to be assigned to: functions,
\* loop variables, let, const, and parameters without mut (docs/syntax.md:369).
Frozen(d, x) ==
  \/ IsFunction(d)
  \/ d > 0 /\ log[d].node = "for"
  \/ d > 0 /\ log[d].node = "var" /\ log[d].var # "var"
  \/ d > 0 /\ log[d].node = "fn" /\
       ~ \E i \in DOMAIN log[d].params : log[d].params[i].name = x /\ log[d].params[i].mut

Redeclared(j) ==
  CASE log[j].node = "fn"  -> Duplicated(log[j].params)
    [] log[j].node = "var" ->
         \/ \E k \in 1 .. j - 1 : log[j].name \in Declares[k] /\ Home(k) = Home(j)
         \/ Home(j) = 0 /\ HoistedAs(log[j].name) # {}
    [] OTHER -> FALSE

Wrong(j, what) ==
  LET leaves == Leaves(Expr(j))
      calls  == {l \in leaves : l.op = "call"}
  IN  CASE what = "redefinition"   -> Redeclared(j)
        [] what = "undeclared"     -> \E x \in NamesIn(Expr(j)) : Means(x, j) = {}
        [] what = "not a function" ->
             \E l \in calls : \E d \in Means(l.name, j) : ~IsFunction(d)
        [] what = "arguments"      ->
             \E l \in calls : \E d \in Means(l.name, j) : WrongCall(l, d)
        [] what = "immutable"      ->
             /\ log[j].node = "assign"
             /\ \E d \in Means(log[j].name, j) : Frozen(d, log[j].name)
        [] OTHER -> FALSE

Faults == {"redefinition", "undeclared", "not a function", "arguments", "immutable"}
HoistFaults ==
  {i \in DOMAIN decls :
     /\ Hoisted(decls[i])
     /\ \/ decls[i].name \in Builtins
        \/ \E k \in 1 .. i - 1 : Hoisted(decls[k]) /\ decls[k].name = decls[i].name}

Of(p) == {e \in errors : e[1] = p}

\* Nodes with a fault that pass 2 lets through, against the documents: an
\* assignment to a parameter without mut, and a call with arguments of a
\* function without parameters (ParamsImmutable and ArityChecked below).
Condoned(j) ==
  \/ /\ log[j].node = "assign"
     /\ \E d \in Means(log[j].name, j) :
          d > 0 /\ log[d].node = "fn" /\ Frozen(d, log[j].name)
  \/ \E l \in Leaves(Expr(j)) : l.op = "call" /\
       \E d \in Means(l.name, j) : WrongCall(l, d) /\ Len(decls[-d].params) = 0

(***************************************************************************)
(* Passes 1 and 2 report the violations of lexical scoping, at the nodes   *)
(* where they are and nowhere else: no name leaks from a block, a function *)
(* or a loop, inner declarations hide outer ones, functions and types are  *)
(* visible before their declaration and variables only after theirs, and   *)
(* what is let, const or a loop variable is never assigned to.  Whether    *)
(* every fault is reported is left open at the nodes that have one of the  *)
(* two that pass 2 lets through.                                           *)
(***************************************************************************)
NamesChecked ==
  LET violations == {g \in Nodes \X Faults : Wrong(g[1], g[2])}
  IN  pass = "done" =>
        /\ Of(1) = {<<1, i, "redefinition">> : i \in HoistFaults}
        /\ Of(2) \subseteq {<<2, f[1], f[2]>> : f \in violations}
        /\ \A f \in violations : Condoned(f[1]) \/ <<2, f[1], f[2]>> \in Of(2)

(***************************************************************************)
(* "It runs after the SemanticAnalyzer has resolved all names"             *)
(* (TypeChecker.h:19): in a module without a fault of names, pass 3, which *)
(* rebuilds the scopes on top of a global scope that already holds every   *)
(* global, finds the same declaration for every use as pass 2 did.  Only   *)
(* variables that an assignment declares are unknown to it.                *)
(***************************************************************************)
Resolutions(p) == {<<f[2], f[3], f[4]>> : f \in {g \in found : g[1] = p}}
Implied(S)     == {r \in S : \E d \in r[3] : d > 0 /\ log[d].node = "assign"}
PassesAgree ==
  pass = "done" /\ Of(1) \cup Of(2) = {} =>
    LET implied == {<<r[1], r[2]>> : r \in Implied(Resolutions(2))}
        Others(p) == {r \in Resolutions(p) : <<r[1], r[2]>> \notin implied}
    IN  Others(2) = Others(3)

(***************************************************************************)
(* Faults of types.  A declaration has the type it is annotated with, or   *)
(* that of its initializer; every type goes with Any.                      *)
(***************************************************************************)
ParamType(j, x) ==
  LET params == log[j].params IN params[Least({i \in DOMAIN params : params[i].name = x})].type

\* The type of leaf l at node j, given the types of the variables before j.
TypeOfLeaf(l, j, types) ==
  LET d == Greatest(Means(l.name, j))
  IN  CASE l.op = "lit" -> l.type
        [] l.op \in {"read", "call"} /\ Means(l.name, j) # {} ->
             CASE d = 0 -> Any
               [] d < 0 -> IF decls[-d].node = "fn" THEN OrAny(decls[-d].ret) ELSE Any
               [] OTHER -> CASE log[d].node = "var" -> OrAny(types[d])
                             [] log[d].node = "fn"  -> ParamType(d, l.name)
                             [] OTHER -> Any
        [] OTHER -> Any
TypeOfExpr(e, j, types) == TypeOfLeaf(IF e.op = "binary" THEN e.lhs ELSE e, j, types)

VarTypes ==
  LET T[j \in Nodes] ==
        CASE log[j].node # "var"    -> Any
          [] log[j].type # Bare     -> log[j].type
          [] log[j].init.op # "none" -> TypeOfExpr(log[j].init, j, [k \in 1 .. j - 1 |-> T[k]])
          [] OTHER                  -> Bare
  IN  T

FunctionOf(j) == Least(Around(j) \ {0})
Returns(j) == {k \in Nodes : log[k].node = "return" /\ FunctionOf(k) = j}
Ends(j) == {k \in Nodes : log[k].node = "end" /\ FunctionOf(k) = j}

MistypedExpr(j, types) ==
  LET e == Expr(j)
  IN  e.op = "binary" /\ ~Compatible(TypeOfLeaf(e.lhs, j, types), TypeOfLeaf(e.rhs, j, types))

Expected(j, types) ==
  CASE log[j].node = "var"    -> log[j].type
    [] log[j].node = "return" -> log[FunctionOf(j)].ret
    [] log[j].node = "assign" ->
         TypeOfLeaf([op |-> "read", name |-> log[j].name], j, types)
    [] OTHER -> Any

\* Literals are passed for parameters of other types.
WrongArguments(l, d) ==
  /\ IsFunction(d) /\ d # 0
  /\ LET params == decls[-d].params
     IN  \E i \in DOMAIN l.args \cap DOMAIN params : ~Compatible(params[i].type, l.args[i])
Misapplied(j) ==
  \E l \in Leaves(Expr(j)) : l.op = "call" /\ \E d \in Means(l.name, j) : WrongArguments(l, d)

Mistyped(j, types) ==
  \/ MistypedExpr(j, types)
  \/ Expr(j) # None /\ ~Compatible(Expected(j, types), TypeOfExpr(Expr(j), j, types))
  \/ Misapplied(j)
NoValue(j) ==
  log[j].node = "return" /\ Expr(j) = None /\ log[FunctionOf(j)].ret # Bare
NeverReturns(j) ==
  log[j].node = "fn" /\ log[j].ret # Bare /\ Returns(j) = {}

(***************************************************************************)
(* In a module without a fault of names, pass 3 reports the faults of      *)
(* types and nothing else, although it carries the type of an expression   *)
(* in one variable that every visit overwrites, and types in the symbol    *)
(* table.  At nodes with arguments of another type than the parameters'    *)
(* it is left open whether it does: pass 3 does not compare these (see     *)
(* ArgumentsChecked).  An opaque expression, a global whose type is to be  *)
(* inferred, and a global declared after an implicit variable of its name  *)
(* break it, each in a pool of its own in MCSema.                          *)
(***************************************************************************)
TypesChecked ==
  pass = "done" /\ Of(1) \cup Of(2) = {} =>
    LET types  == VarTypes
        faults == {<<3, j, "mismatch">> : j \in {k \in Nodes : Mistyped(k, types)}}
                  \cup {<<3, j, "missing value">> : j \in {k \in Nodes : NoValue(k)}}
                  \cup {<<3, Greatest(Ends(j)), "no return">> :
                          j \in {k \in Nodes : NeverReturns(k)}}
    IN  Of(3) \subseteq faults /\ \A f \in faults \ Of(3) : Misapplied(f[2])

-----------------------------------------------------------------------------
Accepted == pass = "done" /\ errors = {}

(***************************************************************************)
(* "Parameters are immutable by default" (docs/syntax.md:369): an accepted *)
(* module assigns to no parameter without mut.  It may: visit(AssignExpr)  *)
(* asks about constants, variables and functions only.                     *)
(***************************************************************************)
ParamsImmutable ==
  Accepted =>
    \A j \in Nodes : log[j].node = "assign" =>
      \A d \in Means(log[j].name, j) :
        ~(d > 0 /\ log[d].node = "fn" /\ Frozen(d, log[j].name))

(***************************************************************************)
(* "Check 4: function existence + argument-count validation"               *)
(* (SemanticAnalyzer.cpp:279): in an accepted module every call of a       *)
(* function of the module has as many arguments as the function has        *)
(* parameters.  One without parameters takes any number of arguments.      *)
(***************************************************************************)
ArityChecked ==
  Accepted =>
    \A j \in Nodes : \A l \in Leaves(Expr(j)) : l.op = "call" =>
      \A d \in Means(l.name, j) : ~WrongCall(l, d)

(***************************************************************************)
(* "Checks that function call argument types match parameter types"        *)
(* (TypeChecker.h:16): an accepted module passes no argument of a type     *)
(* that does not go with its parameter's.  visit(CallExpr) leaves this to  *)
(* the future (TypeChecker.cpp:265).                                       *)
(***************************************************************************)
ArgumentsChecked == Accepted => \A j \in Nodes : ~Misapplied(j)
=============================================================================
