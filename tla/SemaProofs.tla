----------------------------- MODULE SemaProofs -----------------------------
(***************************************************************************)
(* Proofs about Sema and SemaRules, for modules of any length whose scopes *)
(* nest to any depth.                                                      *)
(***************************************************************************)
EXTENDS SemaRules, WellFoundedInduction, FiniteSetTheorems, TLAPS

(***************************************************************************)
(* The symbol table: the global scope, that of a function, and what is     *)
(* inside.                                                                 *)
(***************************************************************************)
TypeNames == Types \cup {Any, Bare}
Labels == {"global", "fn", "block", "for"}
Scope  == [label : Labels, syms : UNION {[S -> Symbol] : S \in SUBSET Names}]
Table(sc) ==
  /\ sc \in Seq(Scope) /\ Len(sc) > 0
  /\ \A i \in DOMAIN sc : /\ sc[i].label = "global" <=> i = 1
                          /\ sc[i].label = "fn" <=> i = 2

LogNode ==
  Decl \cup [node : {"expr", "cond"}, expr : Expression]
       \cup [node : {"assign", "for"}, name : Names, expr : Expression]
       \cup [node : {"return"}, expr : Expression \cup {None}]
       \cup [node : {"block", "end"}]

Typed ==
  /\ pool \in Pools /\ decls \in Seq(pool.decls) /\ Len(decls) \in 1 .. pool.maxDecls
  /\ log \in Seq(LogNode) /\ Table(scopes)
  /\ pass \in {"hoist", "resolve", "check", "done"} /\ next \in Nat \ {0}
  /\ next <= (IF pass \in {"hoist", "resolve"} THEN Len(decls) ELSE Len(log)) + 1
  /\ fn \in 0 .. Len(log) /\ (fn = 0 <=> Len(scopes) = 1)
  /\ pass = "hoist" => log = <<>> /\ fn = 0
  /\ pass = "done" => next = Len(log) + 1
  /\ returned \in BOOLEAN /\ last \in TypeNames /\ stmts \in 0 .. pool.maxStmts

(***************************************************************************)
(* Pass 2 as a history: H[k] is its table before node k of log.            *)
(***************************************************************************)
Uttered(n) == CASE n.node = "var" -> n.init
                [] n.node \in {"expr", "cond", "assign", "return", "for"} -> n.expr
                [] OTHER -> None
Reads(n) == NamesIn(Uttered(n)) \cup (IF n.node = "assign" THEN {n.name} ELSE {})

\* What pass 2 does to its table at node n, the k-th.
Effect(n, k, s, t) ==
  /\ n.node = "fn" => /\ Len(s) = 1
                      /\ t = DefineParams(enterScope(s, "fn"), n.params, k)
  /\ n.node = "import" => /\ Len(s) = 1
                          /\ t = define(s, n.name, Sym("module", FALSE, Bare, 0, k))
  /\ n.node \in {"type", "expr", "cond", "return"} => t = s
  /\ n.node = "var" => t = define(s, n.name, VarSym(n, n.type, k))
  /\ n.node = "assign" =>
       /\ Len(s) > 1
       /\ t = IF lookup(s, n.name) = {}
              THEN define(s, n.name, Sym("variable", TRUE, Any, 0, k)) ELSE s
  /\ n.node = "block" => Len(s) > 1 /\ t = enterScope(s, "block")
  /\ n.node = "for" =>
       /\ Len(s) > 1
       /\ t = define(enterScope(s, "for"), n.name, Sym("variable", FALSE, Bare, 0, k))
  /\ n.node = "end" => Len(s) > 1 /\ t = leaveScope(s)

\* The table in which node n looks its names up.
View(n, s, t) == IF n.node = "var" THEN s ELSE t
Faultless(n, s, t) ==
  /\ n.node = "var" => ~InCurrent(s, n.name)
  /\ \A x \in NamesIn(Uttered(n)) : lookup(View(n, s, t), x) # {}

\* What pass 2 reports of node n.
Refused(s, x) ==
  \E sym \in lookup(s, x) : \/ sym.kind \in {"constant", "function"}
                            \/ sym.kind = "variable" /\ ~sym.mut
Reproved(n, s, t) ==
  ExprFaults(View(n, s, t), Uttered(n))
  \cup If(n.node = "fn" /\ Duplicated(n.params), "redefinition")
  \cup If(n.node = "var" /\ InCurrent(s, n.name), "redefinition")
  \cup If(n.node = "assign" /\ Refused(s, n.name), "immutable")

\* What pass 1 has done with the declarations before the i-th.
HoistedOf(x, i) == {k \in 1 .. i - 1 : Hoisted(decls[k]) /\ decls[k].name = x}
FirstOf(x, i, sym) ==
  /\ sym.at < 0 /\ x \notin Builtins /\ -sym.at \in HoistedOf(x, i)
  /\ \A k \in HoistedOf(x, i) : -sym.at <= k
  /\ sym.kind \in {"function", "type"}
  /\ sym.kind = "function" <=> decls[-sym.at].node = "fn"
  /\ decls[-sym.at].node = "fn" =>
       sym.type = decls[-sym.at].ret /\ sym.arity = Len(decls[-sym.at].params)
HoistedBy(i, f) ==
  /\ \A x : x \in DOMAIN f.syms <=> x \in Builtins \/ HoistedOf(x, i) # {}
  /\ \A x \in DOMAIN f.syms :
       \/ x \in Builtins /\ f.syms[x] = Sym("function", FALSE, Any, 0, 0)
       \/ FirstOf(x, i, f.syms[x])
Front == IF pass = "hoist" THEN next ELSE Len(decls) + 1

NoNameFaults == \A e \in errors : e[1] \notin {1, 2}
Checked == pass \in {"check", "done"}

\* g has at least what f has.
Grown(f, g) ==
  \A x \in DOMAIN f.syms : x \in DOMAIN g.syms /\ g.syms[x] = f.syms[x]
Aligned(s, t) == Len(s) = Len(t) /\ \A i \in DOMAIN t : s[i].label = t[i].label

\* In its scope f, pass 3 finds what pass 2 found in g, but for the
\* variables that an assignment declared.
Implicit(lg, d) == d > 0 /\ lg[d].node = "assign"
SameNames(lg, f, g) ==
  /\ \A x \in DOMAIN f.syms : x \in DOMAIN g.syms /\ f.syms[x].at = g.syms[x].at
  /\ \A x \in DOMAIN g.syms : x \in DOMAIN f.syms \/ Implicit(lg, g.syms[x].at)
Alike(lg, s, t) == \A i \in DOMAIN t : i > 1 => SameNames(lg, s[i], t[i])

Found2(H) ==
  \A k, x, ids :
    <<2, k, x, ids>> \in found <=>
      /\ k \in DOMAIN log /\ x \in Reads(log[k])
      /\ ids = Ids(lookup(View(log[k], H[k], H[k + 1]), x))
Found3 ==
  \A k, x, ids : <<3, k, x, ids>> \in found =>
    Checked /\ k \in DOMAIN log /\ k < next /\ x \in Reads(log[k])
Same3(H) ==
  \A k \in DOMAIN log : k < next => \A x \in Reads(log[k]) :
    LET ids == Ids(lookup(View(log[k], H[k], H[k + 1]), x))
    IN  (\E d \in ids : Implicit(log, d)) \/ \A z : <<3, k, x, z>> \in found <=> z = ids

Answered(H) ==
  /\ \A f \in found : f = <<f[1], f[2], f[3], f[4]>> /\ f[1] \in {2, 3}
  /\ Found2(H) /\ Found3
Lived(H) ==
  /\ H \in Seq({t \in Seq(Scope) : Table(t)}) /\ Len(H) = Len(log) + 1
  /\ Len(H[1]) = 1
  /\ \A k \in DOMAIN log : Effect(log[k], k, H[k], H[k + 1])
  /\ \A k \in DOMAIN H : Grown(H[k][1], H[Len(H)][1])
Reported(H) ==
  /\ \A e \in errors : e = <<e[1], e[2], e[3]>> /\ (e[1] \in {1, 2} \/ Checked)
  /\ \A k, what : <<1, k, what>> \in errors <=>
                  what = "redefinition" /\ k \in HoistFaults /\ k < Front
  /\ \A k, what : <<2, k, what>> \in errors <=>
                  k \in DOMAIN log /\ what \in Reproved(log[k], H[k], H[k + 1])
History(H) ==
  /\ Lived(H) /\ Answered(H) /\ Reported(H) /\ HoistedBy(Front, H[1][1])
  /\ ~Checked => H[Len(H)] = scopes
  /\ Checked => Aligned(scopes, H[next]) /\ scopes[1] = H[Len(H)][1]
  /\ NoNameFaults /\ Checked => Alike(log, scopes, H[next]) /\ Same3(H)

IInv == Typed /\ \E H : History(H)

-----------------------------------------------------------------------------
(***************************************************************************)
(* Sets of numbers.                                                        *)
(***************************************************************************)
LEMMA LeastExists ==
  ASSUME NEW T, T \subseteq Nat, T # {}
  PROVE  \E m \in T : \A k \in T : m <= k
<1> DEFINE R == OpToRel(<, Nat)
<1>1. IsWellFoundedOn(R, Nat)
  BY NatLessThanWellFounded
<1>2. \A x, y \in Nat : x < y => <<x, y>> \in R
  BY DEF OpToRel
<1> HIDE DEF R
<1>3. PICK m \in T : \A y \in T : ~ (<<y, m>> \in R)
  BY <1>1, WFMin
<1>4. \A k \in T : k \in Nat /\ m \in Nat /\ ~(k < m)
  BY <1>2, <1>3
<1>5. \A k \in T : m <= k
  BY <1>4
<1> QED BY <1>5

LEMMA GreatestExists ==
  ASSUME NEW n \in Nat, NEW T, T \subseteq 0 .. n, T # {}
  PROVE  \E m \in T : \A k \in T : k <= m
<1> DEFINE U == {n - t : t \in T}
<1>1. \A k \in T : k \in Nat /\ n - k \in Nat
  OBVIOUS
<1>2. U \subseteq Nat /\ U # {}
  BY <1>1
<1>3. PICK u \in U : \A v \in U : u <= v
  BY <1>2, LeastExists
<1>4. PICK m \in T : u = n - m
  BY <1>3
<1>5. \A k \in T : n - m <= n - k
  BY <1>3, <1>4
<1>6. \A k \in T : k <= m
  BY <1>1, <1>5
<1> QED BY <1>6

-----------------------------------------------------------------------------
(***************************************************************************)
(* The operations of SymbolTable.                                          *)
(***************************************************************************)
LEMMA Symbols ==
  ASSUME NEW k \in Int, NEW m \in BOOLEAN, NEW t \in TypeNames, NEW n \in Nat,
         NEW kind \in {"variable", "constant", "function", "parameter", "type", "module"}
  PROVE  Sym(kind, m, t, n, k) \in Symbol /\ Sym(kind, m, t, n, k).at = k
BY DEF Sym, Symbol, TypeNames

LEMMA ScopeFields ==
  ASSUME NEW f \in Scope
  PROVE  /\ f.label \in Labels /\ DOMAIN f.syms \subseteq Names
         /\ f.syms \in [DOMAIN f.syms -> Symbol]
         /\ \A x \in DOMAIN f.syms : f.syms[x] \in Symbol /\ f.syms[x].at \in Int
<1>1. f.label \in Labels /\ f.syms \in UNION {[S -> Symbol] : S \in SUBSET Names}
  BY DEF Scope
<1>2. PICK S \in SUBSET Names : f.syms \in [S -> Symbol]
  BY <1>1
<1>3. \A s \in Symbol : s.at \in Int
  BY DEF Symbol
<1> QED BY <1>1, <1>2, <1>3

LEMMA Defined ==
  ASSUME NEW sc \in Seq(Scope), Len(sc) > 0, NEW x \in Names, NEW sym \in Symbol
  PROVE  LET t == define(sc, x, sym)
             n == Len(sc)
         IN  /\ t \in Seq(Scope) /\ Len(t) = n
             /\ \A i \in DOMAIN sc : t[i].label = sc[i].label /\ (i # n => t[i] = sc[i])
             /\ DOMAIN t[n].syms = DOMAIN sc[n].syms \cup {x}
             /\ \A y \in DOMAIN sc[n].syms : t[n].syms[y] = sc[n].syms[y]
             /\ ~InCurrent(sc, x) => t[n].syms[x] = sym
<1> DEFINE n == Len(sc)
           f == sc[n]
           g == [y \in DOMAIN f.syms \cup {x} |-> IF y = x THEN sym ELSE f.syms[y]]
           t == define(sc, x, sym)
<1>1. n \in DOMAIN sc /\ f \in Scope /\ DOMAIN sc = 1 .. n
  OBVIOUS
<1>2. CASE InCurrent(sc, x)
  <2>1. t = sc
    BY <1>2 DEF define
  <2>2. x \in DOMAIN f.syms
    BY <1>2 DEF InCurrent
  <2> QED BY <1>2, <2>1, <2>2
<1>3. CASE ~InCurrent(sc, x)
  <2>1. x \notin DOMAIN f.syms
    BY <1>3 DEF InCurrent
  <2>2. t = [sc EXCEPT ![n] = [f EXCEPT !.syms = g]]
    BY <1>3 DEF define
  <2>3. /\ f.label \in Labels /\ DOMAIN f.syms \subseteq Names
        /\ \A y \in DOMAIN f.syms : f.syms[y] \in Symbol
    BY <1>1, ScopeFields
  <2>4. DOMAIN f.syms \cup {x} \in SUBSET Names
    BY <2>3
  <2>5. g \in [DOMAIN f.syms \cup {x} -> Symbol]
    BY <2>3
  <2>6. g \in UNION {[S -> Symbol] : S \in SUBSET Names}
    BY <2>4, <2>5
  <2>7. /\ DOMAIN g = DOMAIN f.syms \cup {x} /\ g[x] = sym
        /\ \A y \in DOMAIN f.syms : g[y] = f.syms[y]
    BY <2>1
  <2> HIDE DEF g
  <2>8. /\ [f EXCEPT !.syms = g] \in Scope /\ [f EXCEPT !.syms = g].syms = g
        /\ [f EXCEPT !.syms = g].label = f.label
    BY <1>1, <2>6 DEF Scope
  <2> HIDE DEF f
  <2>9. /\ t \in Seq(Scope) /\ Len(t) = n /\ t[n] = [f EXCEPT !.syms = g]
        /\ \A i \in DOMAIN sc : i # n => t[i] = sc[i]
    BY <1>1, <2>2, <2>8
  <2> QED BY <1>1, <1>3, <2>7, <2>8, <2>9 DEF f
<1> QED BY <1>2, <1>3

LEMMA Entered ==
  ASSUME NEW sc \in Seq(Scope), NEW l \in Labels
  PROVE  LET t == enterScope(sc, l)
         IN  /\ t \in Seq(Scope) /\ Len(t) = Len(sc) + 1
             /\ \A i \in DOMAIN sc : t[i] = sc[i]
             /\ t[Len(sc) + 1].label = l /\ DOMAIN t[Len(sc) + 1].syms = {}
<1> DEFINE f == [label |-> l, syms |-> <<>>]
<1>1. <<>> \in [{} -> Symbol]
  OBVIOUS
<1>2. <<>> \in UNION {[S -> Symbol] : S \in SUBSET Names}
  BY <1>1
<1>3. f \in Scope
  BY <1>2 DEF Scope
<1>4. f.label = l /\ DOMAIN f.syms = {}
  OBVIOUS
<1> HIDE DEF f
<1>5. enterScope(sc, l) = Append(sc, f)
  BY DEF enterScope, f
<1> QED BY <1>3, <1>4, <1>5

LEMMA Left ==
  ASSUME NEW sc \in Seq(Scope), Len(sc) > 1
  PROVE  LET t == leaveScope(sc)
         IN  /\ t \in Seq(Scope) /\ Len(t) = Len(sc) - 1
             /\ \A i \in DOMAIN t : i \in DOMAIN sc /\ t[i] = sc[i]
BY DEF leaveScope

\* A name is found in the innermost scope that has it.
LEMMA Lookups ==
  ASSUME NEW sc \in Seq(Scope), NEW x
  PROVE  \/ lookup(sc, x) = {} /\ \A i \in DOMAIN sc : x \notin DOMAIN sc[i].syms
         \/ \E m \in DOMAIN sc :
              /\ x \in DOMAIN sc[m].syms /\ lookup(sc, x) = {sc[m].syms[x]}
              /\ \A i \in DOMAIN sc : x \in DOMAIN sc[i].syms => i <= m
<1> DEFINE at == {i \in DOMAIN sc : x \in DOMAIN sc[i].syms}
<1>1. CASE at = {}
  BY <1>1 DEF lookup
<1>2. CASE at # {}
  <2>1. at \subseteq 0 .. Len(sc) /\ Len(sc) \in Nat
    OBVIOUS
  <2>2. \E m \in at : \A k \in at : k <= m
    <3> HIDE DEF at
    <3> QED BY <1>2, <2>1, GreatestExists
  <2> DEFINE m == CHOOSE i \in at : \A j \in at : j <= i
  <2>3. m \in at /\ \A j \in at : j <= m
    BY <2>2
  <2>4. lookup(sc, x) = {sc[m].syms[x]}
    BY <1>2 DEF lookup
  <2> HIDE DEF m
  <2> QED BY <2>3, <2>4
<1> QED BY <1>1, <1>2

\* What a function's own scope holds.
ParamSyms(params, at) ==
  [x \in {params[i].name : i \in DOMAIN params} |->
     LET i == CHOOSE i \in DOMAIN params :
                params[i].name = x /\ \A j \in DOMAIN params : params[j].name = x => i <= j
     IN  Sym("parameter", params[i].mut, params[i].type, 0, at)]

LEMMA Parameters ==
  ASSUME NEW sc \in Seq(Scope), Len(sc) > 0, NEW params \in Seq(Parameter), NEW k \in Nat
  PROVE  LET t == DefineParams(sc, params, k)
             n == Len(sc)
         IN  /\ t \in Seq(Scope) /\ Len(t) = n
             /\ \A i \in DOMAIN sc : t[i].label = sc[i].label /\ (i # n => t[i] = sc[i])
             /\ DOMAIN t[n].syms = {params[i].name : i \in DOMAIN params}
             /\ \A x \in DOMAIN t[n].syms :
                  t[n].syms[x].at = k /\ t[n].syms[x].kind = "parameter"
<1> DEFINE n == Len(sc)
           f == sc[n]
           named(x) == {i \in DOMAIN params : params[i].name = x}
           least(x) == CHOOSE i \in named(x) : \A j \in named(x) : i <= j
           first(x) == params[least(x)]
           S == {params[i].name : i \in DOMAIN params}
           g == [x \in S |-> Sym("parameter", first(x).mut, first(x).type, 0, k)]
           t == DefineParams(sc, params, k)
<1>1. n \in DOMAIN sc /\ f \in Scope /\ DOMAIN sc = 1 .. n
  OBVIOUS
<1>2. \A i \in DOMAIN params : params[i] \in Parameter /\ i \in Nat
  OBVIOUS
<1>3. S \in SUBSET Names
  BY <1>2 DEF Parameter
<1>4. ASSUME NEW x \in S
      PROVE  g[x] \in Symbol /\ g[x].at = k /\ g[x].kind = "parameter"
  <2>1. named(x) # {} /\ named(x) \subseteq Nat
    BY <1>2
  <2>2. \E i \in named(x) : \A j \in named(x) : i <= j
    <3> HIDE DEF named
    <3> QED BY <2>1, LeastExists
  <2>3. least(x) \in named(x)
    <3> HIDE DEF named
    <3> QED BY <2>2
  <2>4. first(x) \in Parameter
    BY <1>2, <2>3
  <2> HIDE DEF first, least, named
  <2>5. first(x).mut \in BOOLEAN /\ first(x).type \in TypeNames
    BY <2>4 DEF Parameter, TypeNames
  <2>6. g[x] = Sym("parameter", first(x).mut, first(x).type, 0, k)
    BY DEF S
  <2> HIDE DEF g, S
  <2>7. /\ Sym("parameter", first(x).mut, first(x).type, 0, k) \in Symbol
        /\ Sym("parameter", first(x).mut, first(x).type, 0, k).at = k
    BY <2>5, Symbols
  <2>8. Sym("parameter", first(x).mut, first(x).type, 0, k).kind = "parameter"
    BY DEF Sym
  <2> QED BY <2>6, <2>7, <2>8
<1>5. g \in [S -> Symbol] /\ DOMAIN g = S
  <2> HIDE DEF first, least, named
  <2>1. DOMAIN g = S
    BY DEF g
  <2>2. g = [x \in S |-> g[x]]
    BY DEF g
  <2> HIDE DEF g, S
  <2> QED BY <1>4, <2>1, <2>2
<1>6. t = [sc EXCEPT ![n] = [f EXCEPT !.syms = g]]
  BY DEF DefineParams
<1> HIDE DEF g, S, t
<1>7. /\ [f EXCEPT !.syms = g] \in Scope /\ [f EXCEPT !.syms = g].syms = g
      /\ [f EXCEPT !.syms = g].label = f.label
  <2>1. g \in UNION {[U -> Symbol] : U \in SUBSET Names}
    BY <1>3, <1>5
  <2> HIDE DEF f
  <2> QED BY <1>1, <2>1 DEF Scope
<1> HIDE DEF f
<1>8. /\ t \in Seq(Scope) /\ Len(t) = n /\ t[n] = [f EXCEPT !.syms = g]
      /\ \A i \in DOMAIN sc : i # n => t[i] = sc[i]
  BY <1>1, <1>6, <1>7
<1>9. \A x \in S : g[x].at = k /\ g[x].kind = "parameter"
  BY <1>4
<1> QED BY <1>1, <1>5, <1>7, <1>8, <1>9 DEF f, S, t

-----------------------------------------------------------------------------
(***************************************************************************)
(* Nodes and expressions.                                                  *)
(***************************************************************************)
LEMMA Nodes_ ==
  ASSUME NEW n \in LogNode
  PROVE  /\ n.node \in {"var", "type", "import", "fn", "expr", "cond", "assign", "for",
                        "return", "block", "end"}
         /\ n.node = "var" => n \in VarDecl
         /\ n.node = "fn" => /\ n.params \in Seq(Parameter) /\ n.ret \in Types \cup {Bare}
         /\ n.node \in {"import", "type", "fn", "var", "assign", "for"} => n.name \in Names
         /\ n.node \in {"expr", "cond", "assign", "for"} => n.expr \in Expression
         /\ n.node = "return" => n.expr \in Expression \cup {None}
BY DEF LogNode, Decl, VarDecl

LEMMA VarDecls ==
  ASSUME NEW n \in VarDecl
  PROVE  /\ n.node = "var" /\ n.name \in Names /\ n.type \in TypeNames
         /\ n.init \in Expression \cup {None}
         /\ \A t \in TypeNames, k \in Nat : VarSym(n, t, k) \in Symbol /\ VarSym(n, t, k).at = k
<1>1. /\ n.node = "var" /\ n.name \in Names /\ n.type \in TypeNames
      /\ n.init \in Expression \cup {None}
  BY DEF VarDecl, TypeNames
<1>2. ASSUME NEW t \in TypeNames, NEW k \in Nat
      PROVE  VarSym(n, t, k) \in Symbol /\ VarSym(n, t, k).at = k
  <2> DEFINE kind == IF n.var = "const" THEN "constant" ELSE "variable"
             mut  == n.var = "var"
  <2>1. kind \in {"variable", "constant", "function", "parameter", "type", "module"}
    OBVIOUS
  <2>2. mut \in BOOLEAN
    OBVIOUS
  <2>3. VarSym(n, t, k) = Sym(kind, mut, t, 0, k)
    BY DEF VarSym
  <2> HIDE DEF kind, mut
  <2>4. k \in Int
    OBVIOUS
  <2> QED BY <2>1, <2>2, <2>3, <2>4, Symbols
<1> QED BY <1>1, <1>2

LEMMA Utterances ==
  ASSUME NEW n \in LogNode
  PROVE  Uttered(n) \in Expression \cup {None}
BY Nodes_, VarDecls DEF Uttered

LEMMA NamesRead ==
  ASSUME NEW e \in Expression \cup {None}
  PROVE  /\ NamesIn(e) \subseteq Names /\ NamesIn(None) = {}
         /\ \A l \in Leaves(e) : l \in Leaf \/ l = None
<1>1. \A l \in Leaf : l.op \in {"read", "call"} => l.name \in Names
  BY DEF Leaf
<1>2. \A l \in Leaves(e) : l \in Leaf \/ l = None
  <2>1. CASE e = None
    BY <2>1 DEF Leaves, None
  <2>2. CASE e \in Leaf
    BY <2>2 DEF Leaves, Leaf
  <2>3. CASE e \in [op : {"binary"}, lhs : Leaf, rhs : Leaf]
    BY <2>3 DEF Leaves
  <2> QED BY <2>1, <2>2, <2>3 DEF Expression
<1>3. None.op \notin {"read", "call", "binary"}
  BY DEF None
<1>4. NamesIn(None) = {}
  BY <1>3 DEF NamesIn, Leaves
<1> QED BY <1>1, <1>2, <1>3, <1>4 DEF NamesIn

LEMMA Types_ ==
  ASSUME NEW sc \in Seq(Scope), NEW x
  PROVE  TypeOfSym(lookup(sc, x)) \in TypeNames /\ ReturnTypeOf(lookup(sc, x)) \in TypeNames
<1> DEFINE syms == lookup(sc, x)
<1>1. \A t \in TypeNames : OrAny(t) \in TypeNames
  BY DEF OrAny, TypeNames
<1>2. Any \in TypeNames
  BY DEF TypeNames
<1>3. syms = {} \/ \E s \in Symbol : syms = {s}
  <2>1. ASSUME NEW m \in DOMAIN sc, x \in DOMAIN sc[m].syms PROVE sc[m].syms[x] \in Symbol
    <3>1. sc[m] \in Scope
      OBVIOUS
    <3> QED BY <3>1, <2>1, ScopeFields
  <2> QED BY <2>1, Lookups
<1> HIDE DEF syms
<1>4. CASE syms = {}
  BY <1>2, <1>4 DEF TypeOfSym, ReturnTypeOf, syms
<1>5. ASSUME NEW s \in Symbol, syms = {s}
      PROVE  TypeOfSym(syms) \in TypeNames /\ ReturnTypeOf(syms) \in TypeNames
  <2>1. s.type \in TypeNames
    BY DEF Symbol, TypeNames
  <2>2. (CHOOSE z \in syms : TRUE) = s
    BY <1>5
  <2>3. TypeOfSym(syms) \in TypeNames
    BY <1>1, <1>5, <2>1, <2>2 DEF TypeOfSym
  <2> QED BY <1>2, <2>3 DEF ReturnTypeOf
<1> QED BY <1>3, <1>4, <1>5 DEF syms

LEMMA ExprTypes ==
  ASSUME NEW sc \in Seq(Scope), NEW e \in Expression \cup {None}, NEW prev \in TypeNames
  PROVE  exprType(sc, e, prev) \in TypeNames
<1>1. ASSUME NEW l, l \in Leaf \/ l = None PROVE LeafType(sc, l, prev) \in TypeNames
  <2>1. l.op = "lit" => l.type \in TypeNames
    BY <1>1 DEF Leaf, None, TypeNames
  <2> QED BY <2>1, Types_ DEF LeafType
<1>2. CASE e = None
  <2>1. None.op # "binary"
    BY DEF None
  <2> QED BY <1>1, <1>2, <2>1 DEF exprType
<1>3. CASE e \in Leaf
  <2>1. e.op # "binary"
    BY <1>3 DEF Leaf
  <2> QED BY <1>1, <1>3, <2>1 DEF exprType
<1>4. CASE e \in [op : {"binary"}, lhs : Leaf, rhs : Leaf]
  <2>1. e.op = "binary" /\ e.lhs \in Leaf
    BY <1>4
  <2> QED BY <1>1, <2>1 DEF exprType
<1> QED BY <1>2, <1>3, <1>4 DEF Expression

\* What pass 2 reports of a name that means nothing.
LEMMA Undeclared ==
  ASSUME NEW sc, NEW e, NEW x \in NamesIn(e), lookup(sc, x) = {}
  PROVE  "undeclared" \in ExprFaults(sc, e)
<1>1. PICK l \in Leaves(e) : l.op \in {"read", "call"} /\ l.name = x
  BY DEF NamesIn
<1>2. "undeclared" \in LeafFaults(sc, l)
  BY <1>1 DEF LeafFaults, If
<1> QED BY <1>2 DEF ExprFaults

\* A node of which nothing is reported finds its names.
LEMMA Blameless ==
  ASSUME NEW n, NEW s, NEW t, Reproved(n, s, t) = {}
  PROVE  Faultless(n, s, t)
<1>1. /\ ExprFaults(View(n, s, t), Uttered(n)) = {}
      /\ If(n.node = "var" /\ InCurrent(s, n.name), "redefinition") = {}
  BY DEF Reproved
<1>2. n.node = "var" => ~InCurrent(s, n.name)
  BY <1>1 DEF If
<1>3. \A x \in NamesIn(Uttered(n)) : lookup(View(n, s, t), x) # {}
  BY <1>1, Undeclared
<1> QED BY <1>2, <1>3 DEF Faultless

LEMMA Guiltless ==
  ASSUME NEW H, Reported(H), NoNameFaults, NEW k \in DOMAIN log
  PROVE  Faultless(log[k], H[k], H[k + 1])
<1>1. \A what : <<2, k, what>>[1] = 2
  OBVIOUS
<1>2. \A what : <<2, k, what>> \notin errors
  BY <1>1 DEF NoNameFaults
<1>3. \A what : what \notin Reproved(log[k], H[k], H[k + 1])
  BY <1>2 DEF Reported
<1>4. Reproved(log[k], H[k], H[k + 1]) = {}
  BY <1>3
<1> QED BY <1>4, Blameless

-----------------------------------------------------------------------------
(***************************************************************************)
(* One node in either pass.                                                *)
(***************************************************************************)

\* What pass 3 does to its table at node n, the k-th.
Redone(n, k, s, t) ==
  /\ n.node = "fn" => t = DefineParams(enterScope(s, "fn"), n.params, k)
  /\ n.node \in {"import", "type", "expr", "cond", "return", "assign"} => t = s
  /\ n.node = "var" => \E ty \in TypeNames : t = define(s, n.name, VarSym(n, ty, k))
  /\ n.node = "block" => t = enterScope(s, "block")
  /\ n.node = "for" =>
       t = define(enterScope(s, "for"), n.name, Sym("variable", FALSE, Any, 0, k))
  /\ n.node = "end" => t = leaveScope(s)

\* The innermost scope gets x, declared at k, if it has none.
Widened(s, t, x, k) ==
  LET n == Len(s)
  IN  /\ Len(t) = n
      /\ \A i \in DOMAIN s : t[i].label = s[i].label /\ (i # n => t[i] = s[i])
      /\ DOMAIN t[n].syms = DOMAIN s[n].syms \cup {x}
      /\ \A y \in DOMAIN s[n].syms : t[n].syms[y] = s[n].syms[y]
      /\ x \notin DOMAIN s[n].syms => t[n].syms[x].at = k

LEMMA Widening ==
  ASSUME NEW s \in Seq(Scope), Len(s) > 0, NEW x \in Names, NEW sym \in Symbol
  PROVE  define(s, x, sym) \in Seq(Scope) /\ Widened(s, define(s, x, sym), x, sym.at)
<1> DEFINE t == define(s, x, sym)
<1>1. /\ t \in Seq(Scope) /\ Len(t) = Len(s)
      /\ \A i \in DOMAIN s : t[i].label = s[i].label /\ (i # Len(s) => t[i] = s[i])
      /\ DOMAIN t[Len(s)].syms = DOMAIN s[Len(s)].syms \cup {x}
      /\ \A y \in DOMAIN s[Len(s)].syms : t[Len(s)].syms[y] = s[Len(s)].syms[y]
      /\ ~InCurrent(s, x) => t[Len(s)].syms[x] = sym
  BY Defined
<1> HIDE DEF t
<1>2. x \notin DOMAIN s[Len(s)].syms => t[Len(s)].syms[x].at = sym.at
  BY <1>1 DEF InCurrent
<1> QED BY <1>1, <1>2 DEF Widened, t

\* A scope is opened that holds the names of S, declared at k.
Opened(s, t, l, S, k) ==
  LET n == Len(s) + 1
  IN  /\ Len(t) = n /\ \A i \in DOMAIN s : t[i] = s[i]
      /\ t[n].label = l /\ DOMAIN t[n].syms = S
      /\ \A x \in S : t[n].syms[x].at = k

Closed(s, t) == Len(t) = Len(s) - 1 /\ \A i \in DOMAIN t : i \in DOMAIN s /\ t[i] = s[i]

ParamNames(n) == {n.params[i].name : i \in DOMAIN n.params}

LEMMA Opening ==
  ASSUME NEW s \in Seq(Scope), NEW k \in Nat
  PROVE  /\ \A ps \in Seq(Parameter) :
              LET t == DefineParams(enterScope(s, "fn"), ps, k)
              IN  t \in Seq(Scope) /\ Opened(s, t, "fn", {ps[i].name : i \in DOMAIN ps}, k)
         /\ LET t == enterScope(s, "block")
            IN  t \in Seq(Scope) /\ Opened(s, t, "block", {}, k)
         /\ \A x \in Names, sym \in Symbol : sym.at = k =>
              LET t == define(enterScope(s, "for"), x, sym)
              IN  t \in Seq(Scope) /\ Opened(s, t, "for", {x}, k)
<1> DEFINE n == Len(s) + 1
<1>1. \A i \in DOMAIN s : i \in 1 .. n /\ i # n
  OBVIOUS
<1>2. ASSUME NEW l \in Labels
      PROVE  LET u == enterScope(s, l)
             IN  /\ u \in Seq(Scope) /\ Len(u) = n /\ n > 0 /\ DOMAIN u = 1 .. n
                 /\ \A i \in DOMAIN s : u[i] = s[i]
                 /\ u[n].label = l /\ DOMAIN u[n].syms = {}
  <2> DEFINE u == enterScope(s, l)
  <2>1. /\ u \in Seq(Scope) /\ Len(u) = n
        /\ \A i \in DOMAIN s : u[i] = s[i]
        /\ u[n].label = l /\ DOMAIN u[n].syms = {}
    BY Entered
  <2> HIDE DEF u
  <2> QED BY <2>1 DEF u
<1> HIDE DEF n
<1>3. ASSUME NEW ps \in Seq(Parameter)
      PROVE  LET t == DefineParams(enterScope(s, "fn"), ps, k)
             IN  t \in Seq(Scope) /\ Opened(s, t, "fn", {ps[i].name : i \in DOMAIN ps}, k)
  <2> DEFINE u == enterScope(s, "fn")
             t == DefineParams(u, ps, k)
  <2>1. /\ u \in Seq(Scope) /\ Len(u) = n /\ n > 0 /\ DOMAIN u = 1 .. n
        /\ \A i \in DOMAIN s : u[i] = s[i]
        /\ u[n].label = "fn"
    BY <1>2 DEF Labels
  <2> HIDE DEF u
  <2>2. /\ t \in Seq(Scope) /\ Len(t) = n
        /\ \A i \in DOMAIN u : t[i].label = u[i].label /\ (i # n => t[i] = u[i])
        /\ DOMAIN t[n].syms = {ps[i].name : i \in DOMAIN ps}
        /\ \A x \in DOMAIN t[n].syms : t[n].syms[x].at = k
    BY <2>1, Parameters
  <2> HIDE DEF t
  <2>3. n \in DOMAIN u /\ \A i \in DOMAIN s : i \in DOMAIN u /\ i # n
    BY <1>1, <2>1 DEF n
  <2>4. t[n].label = "fn" /\ \A i \in DOMAIN s : t[i] = s[i]
    BY <2>1, <2>2, <2>3
  <2> QED BY <2>2, <2>4 DEF Opened, t, u, n
<1>4. LET t == enterScope(s, "block")
      IN  t \in Seq(Scope) /\ Opened(s, t, "block", {}, k)
  BY <1>2 DEF Opened, n, Labels
<1>5. ASSUME NEW x \in Names, NEW sym \in Symbol, sym.at = k
      PROVE  LET t == define(enterScope(s, "for"), x, sym)
             IN  t \in Seq(Scope) /\ Opened(s, t, "for", {x}, k)
  <2> DEFINE u == enterScope(s, "for")
             t == define(u, x, sym)
  <2>1. /\ u \in Seq(Scope) /\ Len(u) = n /\ n > 0 /\ DOMAIN u = 1 .. n
        /\ \A i \in DOMAIN s : u[i] = s[i]
        /\ u[n].label = "for" /\ DOMAIN u[n].syms = {}
    BY <1>2 DEF Labels
  <2> HIDE DEF u
  <2>2. t \in Seq(Scope) /\ Widened(u, t, x, k)
    BY <1>5, <2>1, Widening
  <2> HIDE DEF t
  <2>3. /\ Len(t) = n
        /\ \A i \in DOMAIN u : t[i].label = u[i].label /\ (i # n => t[i] = u[i])
        /\ DOMAIN t[n].syms = {x} /\ t[n].syms[x].at = k
    BY <2>1, <2>2 DEF Widened
  <2>4. n \in DOMAIN u /\ \A i \in DOMAIN s : i \in DOMAIN u /\ i # n
    BY <1>1, <2>1 DEF n
  <2>5. t[n].label = "for" /\ \A i \in DOMAIN s : t[i] = s[i]
    BY <2>1, <2>3, <2>4
  <2> QED BY <2>2, <2>3, <2>5 DEF Opened, t, u, n
<1> QED BY <1>3, <1>4, <1>5

LEMMA TableKept ==
  ASSUME NEW s \in Seq(Scope), Table(s), NEW t \in Seq(Scope)
  PROVE  /\ \A x, k : Widened(s, t, x, k) => Table(t) /\ Grown(s[1], t[1])
         /\ \A l, S, k : Opened(s, t, l, S, k) /\ l # "global" /\ (l = "fn" <=> Len(s) = 1)
                         => Table(t) /\ Grown(s[1], t[1])
         /\ Closed(s, t) /\ Len(s) > 1 => Table(t) /\ Grown(s[1], t[1])
<1>1. /\ Len(s) \in Nat /\ Len(s) > 0 /\ DOMAIN s = 1 .. Len(s)
      /\ Len(t) \in Nat /\ DOMAIN t = 1 .. Len(t)
      /\ \A i \in DOMAIN s : (s[i].label = "global" <=> i = 1) /\ (s[i].label = "fn" <=> i = 2)
  BY DEF Table
<1>2. 1 \in DOMAIN s
  BY <1>1
<1>3. ASSUME NEW x, NEW k, Widened(s, t, x, k)
      PROVE  Table(t) /\ Grown(s[1], t[1])
  <2>1. /\ Len(t) = Len(s)
        /\ \A i \in DOMAIN s : t[i].label = s[i].label
    BY <1>3 DEF Widened
  <2>2. Table(t)
    BY <1>1, <2>1 DEF Table
  <2>3. CASE Len(s) = 1
    BY <1>3, <2>2, <2>3 DEF Widened, Grown
  <2>4. CASE Len(s) # 1
    <3>1. t[1] = s[1]
      BY <1>2, <1>3, <2>4 DEF Widened
    <3> QED BY <2>2, <3>1 DEF Grown
  <2> QED BY <2>2, <2>3, <2>4
<1>4. ASSUME NEW l, NEW S, NEW k, Opened(s, t, l, S, k), l # "global", l = "fn" <=> Len(s) = 1
      PROVE  Table(t) /\ Grown(s[1], t[1])
  <2>1. /\ Len(t) = Len(s) + 1 /\ t[Len(s) + 1].label = l
        /\ \A i \in DOMAIN s : t[i] = s[i]
    BY <1>4 DEF Opened
  <2>2. ASSUME NEW i \in DOMAIN t
        PROVE  (t[i].label = "global" <=> i = 1) /\ (t[i].label = "fn" <=> i = 2)
    <3>1. CASE i \in DOMAIN s
      BY <1>1, <2>1, <3>1
    <3>2. CASE i \notin DOMAIN s
      <4>1. i = Len(s) + 1
        BY <1>1, <2>1, <3>2
      <4>2. t[i].label # "global" /\ i # 1
        BY <1>1, <1>4, <2>1, <4>1
      <4>3. t[i].label = "fn" <=> i = 2
        BY <1>1, <1>4, <2>1, <4>1
      <4> QED BY <4>2, <4>3
    <3> QED BY <3>1, <3>2
  <2>3. Table(t)
    BY <1>1, <2>1, <2>2 DEF Table
  <2>4. t[1] = s[1]
    BY <1>2, <2>1
  <2> QED BY <2>3, <2>4 DEF Grown
<1>5. ASSUME Closed(s, t), Len(s) > 1
      PROVE  Table(t) /\ Grown(s[1], t[1])
  <2>1. /\ Len(t) = Len(s) - 1
        /\ \A i \in DOMAIN t : i \in DOMAIN s /\ t[i] = s[i]
    BY <1>5 DEF Closed
  <2>2. Len(t) > 0 /\ 1 \in DOMAIN t
    BY <1>1, <1>5, <2>1
  <2>3. Table(t)
    BY <1>1, <2>1, <2>2 DEF Table
  <2>4. t[1] = s[1]
    BY <2>1, <2>2
  <2> QED BY <2>3, <2>4 DEF Grown
<1> QED BY <1>3, <1>4, <1>5

\* What pass 2 has done at node n, the k-th, and what pass 3 has.
Done2(n, k, s, t) ==
  /\ n.node = "fn" => Len(s) = 1 /\ Opened(s, t, "fn", ParamNames(n), k)
  /\ n.node = "import" => Len(s) = 1 /\ Widened(s, t, n.name, k)
  /\ n.node \in {"type", "expr", "cond", "return"} => t = s
  /\ n.node = "var" => Widened(s, t, n.name, k)
  /\ n.node = "assign" =>
       /\ Len(s) > 1
       /\ \/ t = s /\ lookup(s, n.name) # {}
          \/ /\ \A i \in DOMAIN s : n.name \notin DOMAIN s[i].syms
             /\ Widened(s, t, n.name, k)
  /\ n.node = "block" => Len(s) > 1 /\ Opened(s, t, "block", {}, k)
  /\ n.node = "for" => Len(s) > 1 /\ Opened(s, t, "for", {n.name}, k)
  /\ n.node = "end" => Len(s) > 1 /\ Closed(s, t)

Done3(n, k, s, t) ==
  /\ n.node = "fn" => Opened(s, t, "fn", ParamNames(n), k)
  /\ n.node \in {"import", "type", "expr", "cond", "return", "assign"} => t = s
  /\ n.node = "var" => /\ Widened(s, t, n.name, k)
                       /\ InCurrent(s, n.name) => t = s
  /\ n.node = "block" => Opened(s, t, "block", {}, k)
  /\ n.node = "for" => Opened(s, t, "for", {n.name}, k)
  /\ n.node = "end" /\ Len(s) > 1 => Closed(s, t)

LEMMA Pass2 ==
  ASSUME NEW n \in LogNode, NEW k \in Nat, NEW s \in Seq(Scope), Table(s), NEW t,
         Effect(n, k, s, t)
  PROVE  t \in Seq(Scope) /\ Table(t) /\ Grown(s[1], t[1]) /\ Done2(n, k, s, t)
<1>1. Len(s) \in Nat /\ Len(s) > 0
  BY DEF Table
<1>2. k \in Int
  OBVIOUS
<1>3. /\ FALSE \in BOOLEAN /\ TRUE \in BOOLEAN /\ 0 \in Nat
      /\ Bare \in TypeNames /\ Any \in TypeNames
  BY DEF TypeNames
<1>4. Grown(s[1], s[1])
  BY DEF Grown
<1>5. \A x, kk : t \in Seq(Scope) /\ Widened(s, t, x, kk) => Table(t) /\ Grown(s[1], t[1])
  BY TableKept
<1>6. \A l, S, kk : t \in Seq(Scope) /\ Opened(s, t, l, S, kk) /\ l # "global" /\ (l = "fn" <=> Len(s) = 1)
                    => Table(t) /\ Grown(s[1], t[1])
  BY TableKept
<1>7. CASE n.node = "fn"
  <2>1. t = DefineParams(enterScope(s, "fn"), n.params, k) /\ Len(s) = 1
    BY <1>7 DEF Effect
  <2>2. n.params \in Seq(Parameter)
    BY <1>7, Nodes_
  <2>3. t \in Seq(Scope) /\ Opened(s, t, "fn", ParamNames(n), k)
    BY <2>1, <2>2, Opening DEF ParamNames
  <2>4. Table(t) /\ Grown(s[1], t[1])
    BY <1>6, <2>1, <2>3
  <2> QED BY <1>7, <2>1, <2>3, <2>4 DEF Done2
<1>8. CASE n.node = "import"
  <2> DEFINE sym == Sym("module", FALSE, Bare, 0, k)
  <2>1. t = define(s, n.name, sym) /\ Len(s) = 1
    BY <1>8 DEF Effect
  <2>2. n.name \in Names /\ sym \in Symbol /\ sym.at = k
    <3>1. n.name \in Names
      BY <1>8, Nodes_
    <3>2. sym \in Symbol /\ sym.at = k
      BY <1>2, <1>3, Symbols
    <3> QED BY <3>1, <3>2
  <2> HIDE DEF sym
  <2>3. t \in Seq(Scope) /\ Widened(s, t, n.name, k)
    BY <1>1, <2>1, <2>2, Widening
  <2> QED BY <1>5, <1>8, <2>1, <2>3 DEF Done2
<1>9. CASE n.node \in {"type", "expr", "cond", "return"}
  <2>1. t = s
    BY <1>9 DEF Effect
  <2> QED BY <1>4, <1>9, <2>1 DEF Done2
<1>10. CASE n.node = "var"
  <2> DEFINE sym == VarSym(n, n.type, k)
  <2>1. t = define(s, n.name, sym)
    BY <1>10 DEF Effect
  <2>2. n.name \in Names /\ sym \in Symbol /\ sym.at = k
    BY <1>10, Nodes_, VarDecls
  <2> HIDE DEF sym
  <2>3. t \in Seq(Scope) /\ Widened(s, t, n.name, k)
    BY <1>1, <2>1, <2>2, Widening
  <2> QED BY <1>5, <1>10, <2>1, <2>3 DEF Done2
<1>11. CASE n.node = "assign"
  <2> DEFINE sym == Sym("variable", TRUE, Any, 0, k)
  <2>1. /\ t = IF lookup(s, n.name) = {} THEN define(s, n.name, sym) ELSE s
        /\ Len(s) > 1
    BY <1>11 DEF Effect
  <2>2. n.name \in Names /\ sym \in Symbol /\ sym.at = k
    <3>1. n.name \in Names
      BY <1>11, Nodes_
    <3>2. sym \in Symbol /\ sym.at = k
      BY <1>2, <1>3, Symbols
    <3> QED BY <3>1, <3>2
  <2> HIDE DEF sym
  <2>3. CASE lookup(s, n.name) = {}
    <3>1. \A i \in DOMAIN s : n.name \notin DOMAIN s[i].syms
      BY <2>3, Lookups
    <3>2. t \in Seq(Scope) /\ Widened(s, t, n.name, k)
      BY <1>1, <2>1, <2>2, <2>3, Widening
    <3> QED BY <1>5, <1>11, <2>1, <3>1, <3>2 DEF Done2
  <2>4. CASE lookup(s, n.name) # {}
    BY <1>4, <1>11, <2>1, <2>4 DEF Done2
  <2> QED BY <2>3, <2>4
<1>12. CASE n.node = "block"
  <2>1. t = enterScope(s, "block") /\ Len(s) > 1
    BY <1>12 DEF Effect
  <2>2. t \in Seq(Scope) /\ Opened(s, t, "block", {}, k)
    BY <2>1, Opening
  <2>3. "block" # "global" /\ ("block" = "fn" <=> Len(s) = 1)
    <3>1. \A m \in Nat : m > 1 => m # 1
      OBVIOUS
    <3>2. Len(s) # 1
      BY <1>1, <2>1, <3>1, Zenon
    <3>3. "block" # "global" /\ "block" # "fn"
      OBVIOUS
    <3> QED BY <3>2, <3>3, Zenon
  <2>4. Table(t) /\ Grown(s[1], t[1])
    BY <1>6, <2>2, <2>3
  <2> QED BY <1>12, <2>1, <2>2, <2>4 DEF Done2
<1>13. CASE n.node = "for"
  <2> DEFINE sym == Sym("variable", FALSE, Bare, 0, k)
  <2>1. t = define(enterScope(s, "for"), n.name, sym) /\ Len(s) > 1
    BY <1>13 DEF Effect
  <2>2. n.name \in Names /\ sym \in Symbol /\ sym.at = k
    <3>1. n.name \in Names
      BY <1>13, Nodes_
    <3>2. sym \in Symbol /\ sym.at = k
      BY <1>2, <1>3, Symbols
    <3> QED BY <3>1, <3>2
  <2> HIDE DEF sym
  <2>3. t \in Seq(Scope) /\ Opened(s, t, "for", {n.name}, k)
    BY <2>1, <2>2, Opening
  <2>4. "for" # "global" /\ ("for" = "fn" <=> Len(s) = 1)
    <3>1. \A m \in Nat : m > 1 => m # 1
      OBVIOUS
    <3>2. Len(s) # 1
      BY <1>1, <2>1, <3>1, Zenon
    <3>3. "for" # "global" /\ "for" # "fn"
      OBVIOUS
    <3> QED BY <3>2, <3>3, Zenon
  <2>5. Table(t) /\ Grown(s[1], t[1])
    BY <1>6, <2>3, <2>4
  <2> QED BY <1>13, <2>1, <2>3, <2>5 DEF Done2
<1>14. CASE n.node = "end"
  <2>1. t = leaveScope(s) /\ Len(s) > 1
    BY <1>14 DEF Effect
  <2>2. t \in Seq(Scope) /\ Closed(s, t)
    BY <2>1, Left DEF Closed
  <2>3. Table(t) /\ Grown(s[1], t[1])
    BY <2>1, <2>2, TableKept
  <2> QED BY <1>14, <2>1, <2>2, <2>3 DEF Done2
<1> HIDE DEF Effect, Done2
<1> QED BY <1>7, <1>8, <1>9, <1>10, <1>11, <1>12, <1>13, <1>14, Nodes_

LEMMA Pass3 ==
  ASSUME NEW n \in LogNode, NEW k \in Nat, NEW s \in Seq(Scope), Len(s) > 0, NEW t,
         n.node = "end" => Len(s) > 1,
         Redone(n, k, s, t)
  PROVE  t \in Seq(Scope) /\ Done3(n, k, s, t)
<1>1. k \in Int
  OBVIOUS
<1>2. /\ FALSE \in BOOLEAN /\ 0 \in Nat /\ Any \in TypeNames
  BY DEF TypeNames
<1>3. CASE n.node = "fn"
  <2>1. t = DefineParams(enterScope(s, "fn"), n.params, k)
    BY <1>3 DEF Redone
  <2>2. n.params \in Seq(Parameter)
    BY <1>3, Nodes_
  <2>3. t \in Seq(Scope) /\ Opened(s, t, "fn", ParamNames(n), k)
    BY <2>1, <2>2, Opening DEF ParamNames
  <2> QED BY <1>3, <2>3 DEF Done3
<1>4. CASE n.node \in {"import", "type", "expr", "cond", "return", "assign"}
  <2>1. t = s
    BY <1>4 DEF Redone
  <2> QED BY <1>4, <2>1 DEF Done3
<1>5. CASE n.node = "var"
  <2>1. PICK ty \in TypeNames : t = define(s, n.name, VarSym(n, ty, k))
    BY <1>5 DEF Redone
  <2> DEFINE sym == VarSym(n, ty, k)
  <2>2. n.name \in Names /\ sym \in Symbol /\ sym.at = k
    BY <1>5, Nodes_, VarDecls
  <2>3. InCurrent(s, n.name) => t = s
    BY <2>1 DEF define
  <2>4. t = define(s, n.name, sym)
    BY <2>1
  <2> HIDE DEF sym
  <2>5. t \in Seq(Scope) /\ Widened(s, t, n.name, k)
    BY <2>2, <2>4, Widening
  <2> QED BY <1>5, <2>3, <2>5 DEF Done3
<1>6. CASE n.node = "block"
  <2>1. t = enterScope(s, "block")
    BY <1>6 DEF Redone
  <2>2. t \in Seq(Scope) /\ Opened(s, t, "block", {}, k)
    BY <2>1, Opening
  <2> QED BY <1>6, <2>2 DEF Done3
<1>7. CASE n.node = "for"
  <2> DEFINE sym == Sym("variable", FALSE, Any, 0, k)
  <2>1. t = define(enterScope(s, "for"), n.name, sym)
    BY <1>7 DEF Redone
  <2>2. n.name \in Names /\ sym \in Symbol /\ sym.at = k
    <3>1. n.name \in Names
      BY <1>7, Nodes_
    <3>2. sym \in Symbol /\ sym.at = k
      BY <1>1, <1>2, Symbols
    <3> QED BY <3>1, <3>2
  <2> HIDE DEF sym
  <2>3. t \in Seq(Scope) /\ Opened(s, t, "for", {n.name}, k)
    BY <2>1, <2>2, Opening
  <2> QED BY <1>7, <2>3 DEF Done3
<1>8. CASE n.node = "end"
  <2>1. t = leaveScope(s) /\ Len(s) > 1
    BY <1>8 DEF Redone
  <2>2. t \in Seq(Scope) /\ Closed(s, t)
    BY <2>1, Left DEF Closed
  <2> QED BY <1>8, <2>2 DEF Done3
<1> HIDE DEF Redone, Done3
<1> QED BY <1>3, <1>4, <1>5, <1>6, <1>7, <1>8, Nodes_

-----------------------------------------------------------------------------
(***************************************************************************)
(* Both passes at the same node: s2 and t2 are the tables of pass 2 before *)
(* and after it, s3 and t3 those of pass 3.                                *)
(***************************************************************************)
LEMMA StaysAligned ==
  ASSUME NEW n \in LogNode, NEW k \in Nat,
         NEW s2 \in Seq(Scope), Table(s2), NEW t2 \in Seq(Scope), Done2(n, k, s2, t2),
         NEW s3 \in Seq(Scope), NEW t3 \in Seq(Scope), Done3(n, k, s3, t3),
         Aligned(s3, s2), Grown(t2[1], s3[1])
  PROVE  Aligned(t3, t2) /\ t3[1] = s3[1]
<1>1. /\ Len(s2) \in Nat /\ Len(s2) > 0 /\ DOMAIN s2 = 1 .. Len(s2)
      /\ DOMAIN s3 = 1 .. Len(s3) /\ Len(s3) = Len(s2)
      /\ Len(t2) \in Nat /\ DOMAIN t2 = 1 .. Len(t2)
      /\ Len(t3) \in Nat /\ DOMAIN t3 = 1 .. Len(t3)
  BY DEF Table, Aligned
<1>2. \A i \in DOMAIN s2 : i \in DOMAIN s3 /\ s3[i].label = s2[i].label
  BY <1>1 DEF Aligned
<1>3. 1 \in DOMAIN s2 /\ 1 \in DOMAIN s3
  BY <1>1
<1>4. ASSUME NEW x, Widened(s2, t2, x, k), t3 = s3 \/ Widened(s3, t3, x, k)
      PROVE  Aligned(t3, t2)
  <2>1. Len(t2) = Len(s2) /\ \A i \in DOMAIN s2 : t2[i].label = s2[i].label
    BY <1>4 DEF Widened
  <2>2. Len(t3) = Len(s3) /\ \A i \in DOMAIN s3 : t3[i].label = s3[i].label
    BY <1>4 DEF Widened
  <2> QED BY <1>1, <1>2, <2>1, <2>2 DEF Aligned
<1>5. ASSUME NEW l, NEW S, NEW T, Opened(s2, t2, l, S, k), Opened(s3, t3, l, T, k)
      PROVE  Aligned(t3, t2) /\ t3[1] = s3[1]
  <2>1. /\ Len(t2) = Len(s2) + 1 /\ t2[Len(s2) + 1].label = l
        /\ \A i \in DOMAIN s2 : t2[i] = s2[i]
    BY <1>5 DEF Opened
  <2>2. /\ Len(t3) = Len(s2) + 1 /\ t3[Len(s2) + 1].label = l
        /\ \A i \in DOMAIN s3 : t3[i] = s3[i]
    BY <1>1, <1>5 DEF Opened
  <2>3. ASSUME NEW i \in DOMAIN t2 PROVE t3[i].label = t2[i].label
    <3>1. CASE i \in DOMAIN s2
      BY <1>2, <2>1, <2>2, <3>1
    <3>2. CASE i \notin DOMAIN s2
      <4>1. i = Len(s2) + 1
        BY <1>1, <2>1, <3>2
      <4> QED BY <2>1, <2>2, <4>1
    <3> QED BY <3>1, <3>2
  <2> QED BY <1>3, <2>1, <2>2, <2>3 DEF Aligned
<1>6. CASE n.node = "fn"
  BY <1>5, <1>6 DEF Done2, Done3
<1>7. CASE n.node = "import"
  <2>1. Widened(s2, t2, n.name, k) /\ t3 = s3
    BY <1>7 DEF Done2, Done3
  <2> QED BY <1>4, <2>1
<1>8. CASE n.node \in {"type", "expr", "cond", "return"}
  BY <1>8 DEF Done2, Done3
<1>9. CASE n.node = "var"
  <2>1. /\ Widened(s2, t2, n.name, k) /\ Widened(s3, t3, n.name, k)
        /\ InCurrent(s3, n.name) => t3 = s3
    BY <1>9 DEF Done2, Done3
  <2>2. Aligned(t3, t2)
    BY <1>4, <2>1
  <2>3. CASE Len(s2) = 1
    <3>1. n.name \in DOMAIN t2[1].syms
      BY <2>1, <2>3 DEF Widened
    <3>2. n.name \in DOMAIN s3[1].syms
      BY <3>1 DEF Grown
    <3>3. InCurrent(s3, n.name)
      BY <1>1, <2>3, <3>2 DEF InCurrent
    <3> QED BY <2>1, <2>2, <3>3
  <2>4. CASE Len(s2) # 1
    <3>1. Len(s3) # 1
      BY <1>1, <2>4
    <3>2. t3[1] = s3[1]
      BY <1>3, <2>1, <3>1 DEF Widened
    <3> QED BY <2>2, <3>2
  <2> QED BY <2>3, <2>4
<1>10. CASE n.node = "assign"
  <2>1. t3 = s3 /\ (t2 = s2 \/ Widened(s2, t2, n.name, k))
    BY <1>10 DEF Done2, Done3
  <2> QED BY <1>4, <2>1
<1>11. CASE n.node = "block"
  BY <1>5, <1>11 DEF Done2, Done3
<1>12. CASE n.node = "for"
  BY <1>5, <1>12 DEF Done2, Done3
<1>13. CASE n.node = "end"
  <2>1. Len(s2) > 1 /\ Len(s3) > 1
    BY <1>1, <1>13 DEF Done2
  <2>2. Closed(s2, t2) /\ Closed(s3, t3)
    BY <1>13, <2>1 DEF Done2, Done3
  <2>3. /\ Len(t2) = Len(s2) - 1 /\ \A i \in DOMAIN t2 : i \in DOMAIN s2 /\ t2[i] = s2[i]
        /\ Len(t3) = Len(s2) - 1 /\ \A i \in DOMAIN t3 : i \in DOMAIN s3 /\ t3[i] = s3[i]
    BY <1>1, <2>2 DEF Closed
  <2>4. 1 \in DOMAIN t3 /\ DOMAIN t3 = DOMAIN t2
    BY <1>1, <2>1, <2>3
  <2>5. \A i \in DOMAIN t2 : t3[i].label = t2[i].label
    BY <1>2, <2>3, <2>4
  <2>6. t3[1] = s3[1]
    BY <2>3, <2>4
  <2> QED BY <2>3, <2>5, <2>6 DEF Aligned
<1> QED BY <1>6, <1>7, <1>8, <1>9, <1>10, <1>11, <1>12, <1>13, Nodes_

LEMMA StaysAlike ==
  ASSUME NEW lg, NEW n \in LogNode, NEW k \in Nat \ {0}, lg[k] = n,
         NEW s2 \in Seq(Scope), Table(s2), NEW t2 \in Seq(Scope), Done2(n, k, s2, t2),
         NEW s3 \in Seq(Scope), NEW t3 \in Seq(Scope), Done3(n, k, s3, t3),
         Aligned(s3, s2), Alike(lg, s3, s2),
         n.node = "var" => ~InCurrent(s2, n.name)
  PROVE  Alike(lg, t3, t2)
<1>1. /\ Len(s2) \in Nat /\ Len(s2) > 0 /\ DOMAIN s2 = 1 .. Len(s2)
      /\ DOMAIN s3 = 1 .. Len(s3) /\ Len(s3) = Len(s2) /\ DOMAIN s3 = DOMAIN s2
      /\ DOMAIN t2 = 1 .. Len(t2) /\ DOMAIN t3 = 1 .. Len(t3)
  BY DEF Table, Aligned
<1>2. \A i \in DOMAIN s2 : i > 1 => SameNames(lg, s3[i], s2[i])
  BY DEF Alike
<1>3. ASSUME NEW l, NEW S, Opened(s2, t2, l, S, k), Opened(s3, t3, l, S, k)
      PROVE  Alike(lg, t3, t2)
  <2> DEFINE m == Len(s2) + 1
  <2>1. /\ Len(t2) = m /\ DOMAIN t2[m].syms = S
        /\ \A i \in DOMAIN s2 : t2[i] = s2[i]
        /\ \A x \in S : t2[m].syms[x].at = k
    BY <1>3 DEF Opened
  <2>2. /\ DOMAIN t3[m].syms = S
        /\ \A i \in DOMAIN s2 : t3[i] = s3[i]
        /\ \A x \in S : t3[m].syms[x].at = k
    BY <1>1, <1>3 DEF Opened
  <2>3. \A i \in DOMAIN t2 : i \in DOMAIN s2 \/ i = m
    BY <1>1, <2>1
  <2> HIDE DEF m
  <2>4. SameNames(lg, t3[m], t2[m])
    BY <2>1, <2>2 DEF SameNames
  <2> QED BY <1>2, <2>1, <2>2, <2>3, <2>4 DEF Alike
<1>4. CASE n.node = "fn"
  BY <1>3, <1>4 DEF Done2, Done3
<1>5. CASE n.node = "import"
  <2>1. Len(t2) = 1
    BY <1>5 DEF Done2, Widened
  <2> QED BY <1>1, <2>1 DEF Alike
<1>6. CASE n.node \in {"type", "expr", "cond", "return"}
  BY <1>6 DEF Done2, Done3
<1>7. ASSUME NEW x, x \notin DOMAIN s2[Len(s2)].syms, Widened(s2, t2, x, k),
             \/ Widened(s3, t3, x, k)
             \/ t3 = s3 /\ Implicit(lg, k)
      PROVE  Alike(lg, t3, t2)
  <2> DEFINE m == Len(s2)
  <2>1. /\ Len(t2) = m
        /\ \A i \in DOMAIN s2 : i # m => t2[i] = s2[i]
        /\ DOMAIN t2[m].syms = DOMAIN s2[m].syms \cup {x} /\ x \notin DOMAIN s2[m].syms
        /\ \A y \in DOMAIN s2[m].syms : t2[m].syms[y] = s2[m].syms[y]
        /\ t2[m].syms[x].at = k
    BY <1>7 DEF Widened
  <2>2. m \in DOMAIN s2 /\ m \in DOMAIN s3 /\ DOMAIN t2 = DOMAIN s2
    BY <1>1, <2>1
  <2>3. CASE Widened(s3, t3, x, k)
    <3>1. /\ \A i \in DOMAIN s3 : i # m => t3[i] = s3[i]
          /\ DOMAIN t3[m].syms = DOMAIN s3[m].syms \cup {x}
          /\ \A y \in DOMAIN s3[m].syms : t3[m].syms[y] = s3[m].syms[y]
          /\ x \notin DOMAIN s3[m].syms => t3[m].syms[x].at = k
      BY <1>1, <2>3 DEF Widened
    <3>2. ASSUME NEW i \in DOMAIN t2, i > 1 PROVE SameNames(lg, t3[i], t2[i])
      <4>1. SameNames(lg, s3[i], s2[i])
        BY <1>2, <2>2, <3>2
      <4>2. CASE i # m
        BY <1>1, <2>1, <2>2, <3>1, <4>1, <4>2
      <4>3. CASE i = m
        <5> HIDE DEF m
        <5>1. SameNames(lg, s3[m], s2[m])
          BY <4>1, <4>3
        <5>2. SameNames(lg, t3[m], t2[m])
          BY <2>1, <3>1, <5>1 DEF SameNames
        <5> QED BY <4>3, <5>2
      <4> QED BY <4>2, <4>3
    <3> QED BY <3>2 DEF Alike
  <2>4. CASE t3 = s3 /\ Implicit(lg, k)
    <3>1. ASSUME NEW i \in DOMAIN t2, i > 1 PROVE SameNames(lg, t3[i], t2[i])
      <4>1. SameNames(lg, s3[i], s2[i])
        BY <1>2, <2>2, <3>1
      <4>2. CASE i # m
        BY <2>1, <2>2, <2>4, <4>1, <4>2
      <4>3. CASE i = m
        <5> HIDE DEF m
        <5>1. SameNames(lg, t3[m], s2[m])
          BY <2>4, <4>1, <4>3
        <5>2. SameNames(lg, t3[m], t2[m])
          BY <2>1, <2>4, <5>1 DEF SameNames
        <5> QED BY <4>3, <5>2
      <4> QED BY <4>2, <4>3
    <3> QED BY <3>1 DEF Alike
  <2> QED BY <1>7, <2>3, <2>4
<1>8. CASE n.node = "var"
  <2>1. n.name \notin DOMAIN s2[Len(s2)].syms
    BY <1>8 DEF InCurrent
  <2>2. Widened(s2, t2, n.name, k) /\ Widened(s3, t3, n.name, k)
    BY <1>8 DEF Done2, Done3
  <2> QED BY <1>7, <2>1, <2>2
<1>9. CASE n.node = "assign"
  <2>1. t3 = s3
    BY <1>9 DEF Done3
  <2>2. \/ t2 = s2
        \/ /\ \A i \in DOMAIN s2 : n.name \notin DOMAIN s2[i].syms
           /\ Widened(s2, t2, n.name, k)
    BY <1>9 DEF Done2
  <2>3. Implicit(lg, k)
    BY <1>9 DEF Implicit
  <2>4. Len(s2) \in DOMAIN s2
    BY <1>1
  <2> QED BY <1>7, <2>1, <2>2, <2>3, <2>4
<1>10. CASE n.node = "block"
  BY <1>3, <1>10 DEF Done2, Done3
<1>11. CASE n.node = "for"
  BY <1>3, <1>11 DEF Done2, Done3
<1>12. CASE n.node = "end"
  <2>1. Len(s2) > 1 /\ Closed(s2, t2)
    BY <1>12 DEF Done2
  <2>2. Closed(s3, t3)
    BY <1>1, <1>12, <2>1 DEF Done3
  <2>3. /\ Len(t2) = Len(s2) - 1 /\ \A i \in DOMAIN t2 : i \in DOMAIN s2 /\ t2[i] = s2[i]
        /\ Len(t3) = Len(s2) - 1 /\ \A i \in DOMAIN t3 : t3[i] = s3[i]
    BY <1>1, <2>1, <2>2 DEF Closed
  <2>4. DOMAIN t3 = DOMAIN t2
    BY <1>1, <2>3
  <2> QED BY <1>2, <2>3, <2>4 DEF Alike
<1> QED BY <1>4, <1>5, <1>6, <1>8, <1>9, <1>10, <1>11, <1>12, Nodes_

\* Where the tables of both passes are alike, so are their answers.
LEMMA SameAnswer ==
  ASSUME NEW lg, NEW s \in Seq(Scope), NEW t \in Seq(Scope),
         Aligned(s, t), Grown(t[1], s[1]), Alike(lg, s, t),
         NEW x, lookup(t, x) # {}
  PROVE  \/ \E d \in Ids(lookup(t, x)) : Implicit(lg, d)
         \/ Ids(lookup(s, x)) = Ids(lookup(t, x))
<1>1. /\ DOMAIN s = 1 .. Len(s) /\ DOMAIN t = 1 .. Len(t) /\ Len(s) = Len(t) /\ Len(t) \in Nat
      /\ DOMAIN s = DOMAIN t
  BY DEF Aligned
<1>2. PICK m \in DOMAIN t :
        /\ x \in DOMAIN t[m].syms /\ lookup(t, x) = {t[m].syms[x]}
        /\ \A i \in DOMAIN t : x \in DOMAIN t[i].syms => i <= m
  BY Lookups
<1>3. Ids(lookup(t, x)) = {t[m].syms[x].at}
  BY <1>2 DEF Ids
<1>4. SUFFICES ASSUME ~ Implicit(lg, t[m].syms[x].at)
               PROVE  Ids(lookup(s, x)) = {t[m].syms[x].at}
  BY <1>3
<1>5. \A i \in DOMAIN t : i > 1 => SameNames(lg, s[i], t[i])
  BY DEF Alike
<1>6. x \in DOMAIN s[m].syms /\ s[m].syms[x].at = t[m].syms[x].at
  <2>1. CASE m = 1
    BY <1>2, <2>1 DEF Grown
  <2>2. CASE m # 1
    <3>1. m > 1
      BY <1>1, <2>2
    <3>2. SameNames(lg, s[m], t[m])
      BY <1>5, <3>1
    <3> QED BY <1>2, <1>4, <3>2 DEF SameNames
  <2> QED BY <2>1, <2>2
<1>7. ASSUME NEW i \in DOMAIN s, x \in DOMAIN s[i].syms PROVE i <= m
  <2>1. CASE i = 1
    BY <1>1, <2>1
  <2>2. CASE i # 1
    <3>1. i > 1 /\ i \in DOMAIN t
      BY <1>1, <2>2
    <3>2. SameNames(lg, s[i], t[i])
      BY <1>5, <3>1
    <3>3. x \in DOMAIN t[i].syms
      BY <1>7, <3>2 DEF SameNames
    <3> QED BY <1>2, <3>1, <3>3
  <2> QED BY <2>1, <2>2
<1>8. PICK j \in DOMAIN s :
        /\ x \in DOMAIN s[j].syms /\ lookup(s, x) = {s[j].syms[x]}
        /\ \A i \in DOMAIN s : x \in DOMAIN s[i].syms => i <= j
  BY <1>1, <1>6, Lookups
<1>9. j = m
  <2>1. j <= m /\ m <= j
    BY <1>1, <1>6, <1>7, <1>8
  <2> QED BY <1>1, <2>1
<1> QED BY <1>6, <1>8, <1>9 DEF Ids

-----------------------------------------------------------------------------
(***************************************************************************)
(* A visit of pass 2.                                                      *)
(***************************************************************************)
Visited(n) ==
  /\ n \in LogNode /\ log' = Append(log, n)
  /\ pass = "resolve" /\ pass' = "resolve"
  /\ Effect(n, Here, scopes, scopes')
  /\ found' = found \cup Uses(2, View(n, scopes, scopes'), Here, Reads(n))
  /\ Fault(2, Here, Reproved(n, scopes, scopes'))
  /\ next' \in Nat \ {0} /\ next' <= Len(decls) + 1
  /\ fn' \in 0 .. Here /\ (fn' = 0 <=> Len(scopes') = 1)
  /\ stmts' \in 0 .. pool.maxStmts
  /\ UNCHANGED <<pool, decls, returned, last>>

LEMMA GrownTwice ==
  ASSUME NEW f, NEW g, NEW h, Grown(f, g), Grown(g, h)
  PROVE  Grown(f, h)
BY DEF Grown

LEMMA VisitTyped ==
  ASSUME Typed, NEW n, Visited(n)
  PROVE  Typed'
<1>1. /\ n \in LogNode /\ log' = Append(log, n)
      /\ pass = "resolve" /\ pass' = "resolve"
      /\ Effect(n, Here, scopes, scopes')
      /\ next' \in Nat \ {0} /\ next' <= Len(decls) + 1
      /\ fn' \in 0 .. Here /\ (fn' = 0 <=> Len(scopes') = 1)
      /\ stmts' \in 0 .. pool.maxStmts
      /\ UNCHANGED <<pool, decls, returned, last>>
  BY DEF Visited
<1>2. /\ pool \in Pools /\ decls \in Seq(pool.decls) /\ Len(decls) \in 1 .. pool.maxDecls
      /\ log \in Seq(LogNode) /\ Table(scopes)
      /\ returned \in BOOLEAN /\ last \in TypeNames
  BY DEF Typed
<1>3. Here \in Nat /\ scopes \in Seq(Scope)
  BY <1>2 DEF Here, Table
<1>4. Table(scopes')
  BY <1>1, <1>2, <1>3, Pass2
<1>5. log' \in Seq(LogNode) /\ Len(log') = Here
  BY <1>1, <1>2 DEF Here
<1> HIDE DEF Here
<1>6. next' <= IF pass' \in {"hoist", "resolve"} THEN Len(decls') + 1 ELSE Len(log') + 1
  BY <1>1
<1>7. pass' \in {"hoist", "resolve", "check", "done"} /\ pass' # "hoist" /\ pass' # "done"
  BY <1>1
<1> QED BY <1>1, <1>2, <1>4, <1>5, <1>6, <1>7 DEF Typed

LEMMA VisitLived ==
  ASSUME Typed, NEW H, History(H), NEW n, Visited(n), NEW h, h = Append(H, scopes')
  PROVE  /\ Lived(h)'
         /\ \A k \in DOMAIN H : h[k] = H[k]
         /\ h[Here + 1] = scopes' /\ Len(h) = Here + 1
         /\ H[Here] = scopes /\ DOMAIN H = 1 .. Here /\ Here \in Nat \ {0}
         /\ DOMAIN log = 1 .. Here - 1 /\ DOMAIN log' = 1 .. Here
         /\ log'[Here] = n /\ \A k \in DOMAIN log : log'[k] = log[k]
<1> DEFINE Tables == {t \in Seq(Scope) : Table(t)}
<1>1. /\ n \in LogNode /\ log' = Append(log, n) /\ pass = "resolve"
      /\ Effect(n, Here, scopes, scopes')
  BY DEF Visited
<1>2. log \in Seq(LogNode) /\ Table(scopes)
  BY DEF Typed
<1>3. /\ H \in Seq(Tables) /\ Len(H) = Len(log) + 1 /\ Len(H[1]) = 1
      /\ \A k \in DOMAIN log : Effect(log[k], k, H[k], H[k + 1])
      /\ \A k \in DOMAIN H : Grown(H[k][1], H[Len(H)][1])
  BY DEF History, Lived
<1>4. H[Len(H)] = scopes
  BY <1>1 DEF History, Checked
<1>5. /\ Here \in Nat /\ Here = Len(H) /\ DOMAIN H = 1 .. Here /\ H[Here] = scopes
      /\ DOMAIN log = 1 .. Here - 1 /\ Here > 0
  BY <1>2, <1>3, <1>4 DEF Here
<1>6. Table(scopes') /\ scopes' \in Seq(Scope) /\ Grown(scopes[1], scopes'[1])
  <2>1. scopes \in Seq(Scope)
    BY <1>2 DEF Table
  <2> QED BY <1>1, <1>2, <1>5, <2>1, Pass2
<1>7. scopes' \in Tables
  BY <1>6
<1> HIDE DEF Tables
<1>8. /\ h \in Seq(Tables) /\ Len(h) = Here + 1 /\ DOMAIN h = 1 .. Here + 1
      /\ \A k \in DOMAIN H : h[k] = H[k]
      /\ h[Here + 1] = scopes'
  BY <1>3, <1>5, <1>7
<1>9. /\ DOMAIN log' = 1 .. Here /\ Len(log') = Here
      /\ log'[Here] = n /\ \A k \in DOMAIN log : log'[k] = log[k]
  BY <1>1, <1>2 DEF Here
<1> HIDE DEF Here
<1>10. Len(h[1]) = 1
  <2>1. 1 \in DOMAIN H
    BY <1>5
  <2> QED BY <1>3, <1>8, <2>1
<1>11. ASSUME NEW k \in DOMAIN log' PROVE Effect(log'[k], k, h[k], h[k + 1])
  <2>1. CASE k = Here
    <3>1. h[k] = scopes
      BY <1>5, <1>8, <2>1
    <3> QED BY <1>1, <1>8, <1>9, <2>1, <3>1
  <2>2. CASE k # Here
    <3>1. k \in DOMAIN log /\ k \in DOMAIN H /\ k + 1 \in DOMAIN H
      BY <1>5, <1>9, <2>2
    <3> QED BY <1>3, <1>8, <1>9, <3>1
  <2> QED BY <2>1, <2>2
<1>12. ASSUME NEW k \in DOMAIN h PROVE Grown(h[k][1], h[Len(h)][1])
  <2>1. h[Len(h)] = scopes'
    BY <1>8
  <2>2. CASE k = Here + 1
    BY <1>8, <2>1, <2>2 DEF Grown
  <2>3. CASE k # Here + 1
    <3>1. k \in DOMAIN H
      BY <1>5, <1>8, <2>3
    <3>2. Grown(H[k][1], scopes[1])
      BY <1>3, <1>4, <3>1
    <3>3. h[k] = H[k]
      BY <1>8, <3>1
    <3> QED BY <1>6, <2>1, <3>2, <3>3, GrownTwice
  <2> QED BY <2>2, <2>3
<1>13. Lived(h)'
  BY <1>8, <1>9, <1>10, <1>11, <1>12 DEF Lived, Tables
<1> QED BY <1>5, <1>8, <1>9, <1>13

LEMMA VisitAnswered ==
  ASSUME Typed, NEW H, History(H), NEW n, Visited(n), NEW h, h = Append(H, scopes')
  PROVE  Answered(h)'
<1> DEFINE new == Uses(2, View(n, scopes, scopes'), Here, Reads(n))
<1>1. /\ found' = found \cup new /\ pass = "resolve" /\ pass' = "resolve"
  BY DEF Visited
<1>2. /\ \A f \in found : f = <<f[1], f[2], f[3], f[4]>> /\ f[1] \in {2, 3}
      /\ Found2(H) /\ Found3
  BY DEF History, Answered
<1>3. ~Checked /\ ~Checked'
  BY <1>1 DEF Checked
<1>4. /\ \A k \in DOMAIN H : h[k] = H[k]
      /\ h[Here + 1] = scopes'
      /\ H[Here] = scopes /\ DOMAIN H = 1 .. Here /\ Here \in Nat \ {0}
      /\ DOMAIN log = 1 .. Here - 1 /\ DOMAIN log' = 1 .. Here
      /\ log'[Here] = n /\ \A k \in DOMAIN log : log'[k] = log[k]
  BY VisitLived
<1>5. new = {<<2, Here, x, Ids(lookup(View(n, scopes, scopes'), x))>> : x \in Reads(n)}
  BY DEF Uses
<1> HIDE DEF new, Here
<1>6. \A f \in new : f = <<f[1], f[2], f[3], f[4]>> /\ f[1] = 2
  BY <1>5
<1>7. \A f \in found' : f = <<f[1], f[2], f[3], f[4]>> /\ f[1] \in {2, 3}
  BY <1>1, <1>2, <1>6
<1>8. ASSUME NEW k, NEW x, NEW ids
      PROVE  <<2, k, x, ids>> \in found' <=>
               /\ k \in DOMAIN log' /\ x \in Reads(log'[k])
               /\ ids = Ids(lookup(View(log'[k], h[k], h[k + 1]), x))
  <2>1. <<2, k, x, ids>> \in found <=>
          /\ k \in DOMAIN log /\ x \in Reads(log[k])
          /\ ids = Ids(lookup(View(log[k], H[k], H[k + 1]), x))
    BY <1>2 DEF Found2
  <2>2. <<2, k, x, ids>> \in new <=>
          k = Here /\ x \in Reads(n) /\ ids = Ids(lookup(View(n, scopes, scopes'), x))
    BY <1>5
  <2>3. CASE k = Here
    <3>1. k \notin DOMAIN log /\ k \in DOMAIN log' /\ k \in DOMAIN H
      BY <1>4, <2>3
    <3>2. log'[k] = n /\ h[k] = scopes /\ h[k + 1] = scopes'
      BY <1>4, <2>3, <3>1
    <3>3. <<2, k, x, ids>> \in found' <=> <<2, k, x, ids>> \in new
      BY <1>1, <2>1, <3>1
    <3> QED BY <2>2, <2>3, <3>1, <3>2, <3>3
  <2>4. CASE k # Here
    <3>1. k \in DOMAIN log <=> k \in DOMAIN log'
      BY <1>4, <2>4
    <3>2. k \in DOMAIN log => k \in DOMAIN H /\ k + 1 \in DOMAIN H
      BY <1>4
    <3>3. k \in DOMAIN log => log'[k] = log[k] /\ h[k] = H[k] /\ h[k + 1] = H[k + 1]
      BY <1>4, <3>2
    <3>4. <<2, k, x, ids>> \in found' <=> <<2, k, x, ids>> \in found
      BY <1>1, <2>2, <2>4
    <3> QED BY <2>1, <3>1, <3>3, <3>4
  <2> QED BY <2>3, <2>4
<1>9. Found2(h)'
  BY <1>8 DEF Found2
<1>10. \A k, x, ids : <<3, k, x, ids>> \notin found
  BY <1>2, <1>3 DEF Found3
<1>11. \A k, x, ids : <<3, k, x, ids>> \notin new
  <2>1. SUFFICES ASSUME NEW k, NEW x, NEW ids, <<3, k, x, ids>> \in new PROVE FALSE
    OBVIOUS
  <2>2. <<3, k, x, ids>>[1] = 2
    BY <1>6, <2>1
  <2> QED BY <2>2
<1>12. Found3'
  BY <1>1, <1>10, <1>11 DEF Found3
<1> QED BY <1>7, <1>9, <1>12 DEF Answered

LEMMA StillHoisted ==
  ASSUME NEW f, HoistedBy(Front, f), decls' = decls, Front' = Front
  PROVE  HoistedBy(Front, f)'
<1>1. \A x : HoistedOf(x, Front)' = HoistedOf(x, Front)
  BY DEF HoistedOf
<1>2. \A x : x \in DOMAIN f.syms <=> x \in Builtins \/ HoistedOf(x, Front)' # {}
  BY <1>1 DEF HoistedBy
<1>3. ASSUME NEW x, NEW sym, FirstOf(x, Front, sym)
      PROVE  FirstOf(x, Front, sym)'
  BY <1>1, <1>3 DEF FirstOf
<1> QED BY <1>2, <1>3 DEF HoistedBy

LEMMA VisitReported ==
  ASSUME Typed, NEW H, History(H), NEW n, Visited(n), NEW h, h = Append(H, scopes')
  PROVE  Reported(h)'
<1>1. /\ errors' = errors \cup ({2} \X {Here} \X Reproved(n, scopes, scopes'))
      /\ decls' = decls /\ pass = "resolve" /\ pass' = "resolve"
  BY DEF Visited, Fault
<1>2. Reported(H)
  BY DEF History
<1>3. /\ \A k \in DOMAIN H : h[k] = H[k]
      /\ h[Here + 1] = scopes' /\ H[Here] = scopes /\ DOMAIN H = 1 .. Here /\ Here \in Nat \ {0}
      /\ DOMAIN log = 1 .. Here - 1 /\ DOMAIN log' = 1 .. Here
      /\ log'[Here] = n /\ \A k \in DOMAIN log : log'[k] = log[k]
  BY VisitLived
<1> HIDE DEF Here
<1>4. \A e \in errors' : e = <<e[1], e[2], e[3]>> /\ e[1] \in {1, 2}
  BY <1>1, <1>2 DEF Reported, Checked
<1>5. Front' = Front /\ HoistFaults' = HoistFaults
  BY <1>1 DEF Front, HoistFaults
<1>6. \A k, what : <<1, k, what>> \in errors' <=> <<1, k, what>> \in errors
  BY <1>1
<1>7. ASSUME NEW k, NEW what
      PROVE  <<2, k, what>> \in errors' <=>
               k \in DOMAIN log' /\ what \in Reproved(log'[k], h[k], h[k + 1])
  <2>1. <<2, k, what>> \in errors' <=>
          \/ <<2, k, what>> \in errors
          \/ k = Here /\ what \in Reproved(n, scopes, scopes')
    BY <1>1
  <2>2. <<2, k, what>> \in errors <=>
          k \in DOMAIN log /\ what \in Reproved(log[k], H[k], H[k + 1])
    BY <1>2 DEF Reported
  <2>3. CASE k = Here
    <3>1. k \in DOMAIN H /\ k \notin DOMAIN log /\ k \in DOMAIN log'
      BY <1>3, <2>3
    <3>2. log'[k] = n /\ h[k] = scopes /\ h[k + 1] = scopes'
      BY <1>3, <2>3, <3>1
    <3> QED BY <2>1, <2>2, <2>3, <3>1, <3>2
  <2>4. CASE k # Here /\ k \in DOMAIN log
    <3>1. k \in DOMAIN H /\ k + 1 \in DOMAIN H /\ k \in DOMAIN log'
      BY <1>3, <2>4
    <3>2. log'[k] = log[k] /\ h[k] = H[k] /\ h[k + 1] = H[k + 1]
      BY <1>3, <2>4, <3>1
    <3> QED BY <2>1, <2>2, <2>4, <3>1, <3>2
  <2>5. CASE k # Here /\ k \notin DOMAIN log
    <3>1. k \notin DOMAIN log'
      BY <1>3, <2>5
    <3> QED BY <2>1, <2>2, <2>5, <3>1
  <2> QED BY <2>3, <2>4, <2>5
<1>8. \A k, what : <<1, k, what>> \in errors' <=>
                  what = "redefinition" /\ k \in HoistFaults' /\ k < Front'
  BY <1>2, <1>5, <1>6 DEF Reported
<1> QED BY <1>4, <1>7, <1>8 DEF Reported

LEMMA VisitKept ==
  ASSUME IInv, NEW n, Visited(n)
  PROVE  IInv'
<1>1. Typed
  BY DEF IInv
<1>2. PICK H : History(H)
  BY DEF IInv
<1>3. PICK h : h = Append(H, scopes')
  OBVIOUS
<1>4. /\ Lived(h)'
      /\ \A k \in DOMAIN H : h[k] = H[k]
      /\ h[Here + 1] = scopes' /\ Len(h) = Here + 1
      /\ H[Here] = scopes /\ DOMAIN H = 1 .. Here /\ Here \in Nat \ {0}
      /\ DOMAIN log = 1 .. Here - 1 /\ DOMAIN log' = 1 .. Here
      /\ log'[Here] = n /\ \A k \in DOMAIN log : log'[k] = log[k]
  BY <1>1, <1>2, <1>3, VisitLived
<1>5. Answered(h)'
  BY <1>1, <1>2, <1>3, VisitAnswered
<1>6. Typed'
  BY <1>1, VisitTyped
<1>7. ~Checked'
  BY DEF Visited, Checked
<1>8. h[Len(h)] = scopes'
  BY <1>4
<1>9. Reported(h)'
  BY <1>1, <1>2, <1>3, VisitReported
<1>10. HoistedBy(Front, h[1][1])'
  <2>1. decls' = decls /\ Front' = Front
    BY DEF Visited, Front
  <2>2. h[1] = H[1]
    BY <1>4
  <2>3. HoistedBy(Front, h[1][1])
    BY <1>2, <2>2 DEF History
  <2> QED BY <2>1, <2>3, StillHoisted
<1>11. History(h)'
  BY <1>4, <1>5, <1>7, <1>8, <1>9, <1>10 DEF History
<1> QED BY <1>6, <1>11 DEF IInv

-----------------------------------------------------------------------------
(***************************************************************************)
(* The handlers of pass 2 are visits.                                      *)
(***************************************************************************)
LEMMA PoolFacts ==
  ASSUME Typed
  PROVE  /\ pool.decls \subseteq Decl /\ pool.locals \subseteq VarDecl
         /\ pool.exprs \subseteq Expression /\ pool.names \subseteq Names
         /\ pool.maxStmts \in Nat
         /\ Here \in Nat \ {0} /\ Here = Len(log) + 1
         /\ scopes \in Seq(Scope) /\ Len(scopes) \in Nat \ {0}
         /\ fn \in 0 .. Here /\ (fn = 0 <=> Len(scopes) = 1)
         /\ next \in Nat \ {0} /\ stmts \in 0 .. pool.maxStmts
         /\ pass = "resolve" => next <= Len(decls) + 1
<1>1. /\ pool \in Pools /\ log \in Seq(LogNode) /\ Table(scopes)
      /\ fn \in 0 .. Len(log) /\ (fn = 0 <=> Len(scopes) = 1)
      /\ next \in Nat \ {0} /\ stmts \in 0 .. pool.maxStmts
      /\ next <= (IF pass \in {"hoist", "resolve"} THEN Len(decls) ELSE Len(log)) + 1
  BY DEF Typed
<1>2. pass = "resolve" => next <= Len(decls) + 1
  BY <1>1
<1> QED BY <1>1, <1>2, PoolsAssumption DEF Table, Here

\* A node that reads no name.
LEMMA Silent ==
  ASSUME NEW n \in LogNode, n.node \in {"fn", "import", "type", "block", "end"}, NEW s, NEW t
  PROVE  /\ Reads(n) = {} /\ \A p, k : Uses(p, View(n, s, t), k, Reads(n)) = {}
         /\ n.node = "fn" => Reproved(n, s, t) = If(Duplicated(n.params), "redefinition")
         /\ n.node # "fn" => Reproved(n, s, t) = {}
<1>1. Uttered(n) = None
  BY DEF Uttered
<1>2. NamesIn(Uttered(n)) = {}
  BY <1>1, NamesRead
<1>3. Reads(n) = {}
  BY <1>2 DEF Reads
<1>4. \A sc : ExprFaults(sc, None) = {}
  <2>1. Leaves(None) = {None} /\ None.op = "none"
    BY DEF Leaves, None
  <2>2. \A sc : LeafFaults(sc, None) = {}
    BY <2>1 DEF LeafFaults
  <2> QED BY <2>1, <2>2 DEF ExprFaults
<1>5. Reproved(n, s, t) = If(n.node = "fn" /\ Duplicated(n.params), "redefinition")
  <2>1. n.node # "var" /\ n.node # "assign"
    OBVIOUS
  <2>2. /\ If(n.node = "var" /\ InCurrent(s, n.name), "redefinition") = {}
        /\ If(n.node = "assign" /\ Refused(s, n.name), "immutable") = {}
    BY <2>1 DEF If
  <2> QED BY <1>1, <1>4, <2>2 DEF Reproved
<1>6. n.node # "fn" => Reproved(n, s, t) = {}
  BY <1>5 DEF If
<1>7. n.node = "fn" => Reproved(n, s, t) = If(Duplicated(n.params), "redefinition")
  BY <1>5 DEF If
<1> QED BY <1>2, <1>3, <1>6, <1>7 DEF Uses

LEMMA NoFault ==
  ASSUME UNCHANGED errors
  PROVE  \A p, i : Fault(p, i, {})
BY DEF Fault

\* What is reported of a node by its kind.
LEMMA ReprovedAs ==
  ASSUME NEW n, NEW s, NEW t
  PROVE  /\ n.node \in {"expr", "cond", "return", "for"} =>
              Reproved(n, s, t) = ExprFaults(t, n.expr)
         /\ n.node = "var" =>
              Reproved(n, s, t) = ExprFaults(s, n.init)
                                  \cup If(InCurrent(s, n.name), "redefinition")
         /\ n.node = "assign" =>
              Reproved(n, s, t) = ExprFaults(t, n.expr)
                                  \cup If(Refused(s, n.name), "immutable")
<1>1. n.node # "fn" => If(n.node = "fn" /\ Duplicated(n.params), "redefinition") = {}
  BY DEF If
<1>2. n.node # "var" => If(n.node = "var" /\ InCurrent(s, n.name), "redefinition") = {}
  BY DEF If
<1>3. n.node # "assign" => If(n.node = "assign" /\ Refused(s, n.name), "immutable") = {}
  BY DEF If
<1>4. ASSUME n.node \in {"expr", "cond", "return", "for"}
      PROVE  Reproved(n, s, t) = ExprFaults(t, n.expr)
  <2>1. Uttered(n) = n.expr /\ View(n, s, t) = t
    BY <1>4 DEF Uttered, View
  <2>2. n.node # "fn" /\ n.node # "var" /\ n.node # "assign"
    BY <1>4
  <2> QED BY <1>1, <1>2, <1>3, <2>1, <2>2 DEF Reproved
<1>5. ASSUME n.node = "var"
      PROVE  Reproved(n, s, t) = ExprFaults(s, n.init)
                                 \cup If(InCurrent(s, n.name), "redefinition")
  <2>1. Uttered(n) = n.init /\ View(n, s, t) = s
    BY <1>5 DEF Uttered, View
  <2>2. n.node # "fn" /\ n.node # "assign"
    BY <1>5
  <2>3. (n.node = "var" /\ InCurrent(s, n.name)) <=> InCurrent(s, n.name)
    BY <1>5
  <2>4. If(n.node = "var" /\ InCurrent(s, n.name), "redefinition")
          = If(InCurrent(s, n.name), "redefinition")
    BY <2>3 DEF If
  <2> QED BY <1>1, <1>3, <2>1, <2>2, <2>4 DEF Reproved
<1>6. ASSUME n.node = "assign"
      PROVE  Reproved(n, s, t) = ExprFaults(t, n.expr) \cup If(Refused(s, n.name), "immutable")
  <2>1. Uttered(n) = n.expr /\ View(n, s, t) = t
    BY <1>6 DEF Uttered, View
  <2>2. n.node # "fn" /\ n.node # "var"
    BY <1>6
  <2>3. (n.node = "assign" /\ Refused(s, n.name)) <=> Refused(s, n.name)
    BY <1>6
  <2>4. If(n.node = "assign" /\ Refused(s, n.name), "immutable")
          = If(Refused(s, n.name), "immutable")
    BY <2>3 DEF If
  <2> QED BY <1>1, <1>2, <2>1, <2>2, <2>4 DEF Reproved
<1> QED BY <1>4, <1>5, <1>6

\* What the visits of top-level declarations, and of statements, have in common.
LEMMA TopVisits ==
  ASSUME Typed, UNCHANGED pool, NEW d \in pool.decls, Toplevel(d)
  PROVE  /\ d \in LogNode /\ log' = Append(log, d)
         /\ pass = "resolve" /\ pass' = "resolve"
         /\ next' \in Nat \ {0} /\ next' <= Len(decls) + 1
         /\ stmts' \in 0 .. pool.maxStmts
         /\ UNCHANGED <<decls, returned, last>>
         /\ fn = 0 /\ Len(scopes) = 1
<1>1. /\ pass = "resolve" /\ fn = 0 /\ next <= Len(decls) /\ log' = Append(log, d)
      /\ next' = next + 1 /\ UNCHANGED <<decls, pass, returned, last, stmts>>
  BY DEF Toplevel, Node
<1>2. d \in LogNode
  BY PoolFacts DEF LogNode
<1>3. next \in Nat /\ Len(decls) \in Nat
  BY PoolFacts DEF Typed
<1>4. next' \in Nat \ {0} /\ next' <= Len(decls) + 1
  BY <1>1, <1>3
<1> QED BY <1>1, <1>2, <1>4, PoolFacts

LEMMA StmtVisits ==
  ASSUME Typed, NEW kind, NEW n, Statement(kind, n)
  PROVE  /\ log' = Append(log, n)
         /\ pass = "resolve" /\ pass' = "resolve"
         /\ next' \in Nat \ {0} /\ next' <= Len(decls) + 1
         /\ stmts' \in 0 .. pool.maxStmts
         /\ UNCHANGED <<decls, returned, last>>
         /\ fn' = fn /\ fn # 0 /\ fn \in 0 .. Here /\ Len(scopes) > 1
<1>1. /\ pass = "resolve" /\ fn # 0 /\ stmts < pool.maxStmts /\ log' = Append(log, n)
      /\ stmts' = stmts + 1 /\ UNCHANGED <<decls, pass, next, fn, returned, last>>
  BY DEF Statement, Node
<1>2. /\ stmts \in 0 .. pool.maxStmts /\ pool.maxStmts \in Nat
      /\ Len(scopes) \in Nat \ {0} /\ (fn = 0 <=> Len(scopes) = 1)
  BY PoolFacts
<1>3. stmts' \in 0 .. pool.maxStmts
  BY <1>1, <1>2
<1>4. Len(scopes) > 1
  <2>1. Len(scopes) # 1
    BY <1>1, <1>2, Zenon
  <2>2. \A m \in Nat \ {0} : m # 1 => m > 1
    OBVIOUS
  <2> QED BY <1>2, <2>1, <2>2, Zenon
<1> QED BY <1>1, <1>3, <1>4, PoolFacts

LEMMA VisitsFunctionDecl ==
  ASSUME Typed, UNCHANGED pool, NEW d \in pool.decls, VisitFunctionDecl(d)
  PROVE  Visited(d)
<1>1. /\ d.node = "fn" /\ Toplevel(d) /\ fn' = Here /\ found' = found
      /\ scopes' = DefineParams(enterScope(scopes, "fn"), d.params, Here)
  BY DEF VisitFunctionDecl
<1>2. Fault(2, Here, If(Duplicated(d.params), "redefinition"))
  BY DEF VisitFunctionDecl
<1>3. d \in LogNode /\ Len(scopes) = 1
  BY <1>1, TopVisits
<1>4. Here \in Nat \ {0} /\ scopes \in Seq(Scope)
  BY PoolFacts
<1>5. Effect(d, Here, scopes, scopes')
  BY <1>1, <1>3 DEF Effect
<1>6. Opened(scopes, scopes', "fn", ParamNames(d), Here)
  <2>1. d.params \in Seq(Parameter)
    BY <1>1, <1>3, Nodes_
  <2> QED BY <1>1, <1>4, <2>1, Opening DEF ParamNames
<1>7. fn' \in 0 .. Here /\ (fn' = 0 <=> Len(scopes') = 1)
  <2>1. Len(scopes') = 2
    BY <1>3, <1>6 DEF Opened
  <2>2. fn' = Here
    BY <1>1
  <2> HIDE DEF Here
  <2> QED BY <1>4, <2>1, <2>2
<1>8. /\ found' = found \cup Uses(2, View(d, scopes, scopes'), Here, Reads(d))
      /\ Reproved(d, scopes, scopes') = If(Duplicated(d.params), "redefinition")
  BY <1>1, <1>3, Silent
<1> QED BY <1>1, <1>2, <1>5, <1>7, <1>8, TopVisits DEF Visited

LEMMA VisitsImportDecl ==
  ASSUME Typed, UNCHANGED pool, NEW d \in pool.decls, VisitImportDecl(d)
  PROVE  Visited(d)
<1>1. /\ d.node = "import" /\ Toplevel(d) /\ UNCHANGED <<fn, found, errors>>
      /\ scopes' = define(scopes, d.name, Sym("module", FALSE, Bare, 0, Here))
  BY DEF VisitImportDecl
<1>2. d \in LogNode /\ Len(scopes) = 1 /\ fn = 0
  BY <1>1, TopVisits
<1>3. Here \in Nat \ {0} /\ scopes \in Seq(Scope) /\ Table(scopes)
  BY PoolFacts DEF Typed
<1>4. Effect(d, Here, scopes, scopes')
  BY <1>1, <1>2 DEF Effect
<1>5. fn' \in 0 .. Here /\ (fn' = 0 <=> Len(scopes') = 1)
  <2>1. Done2(d, Here, scopes, scopes')
    BY <1>2, <1>3, <1>4, Pass2
  <2>2. Len(scopes') = 1
    BY <1>1, <1>2, <2>1 DEF Done2, Widened
  <2>3. fn' = 0
    BY <1>1, <1>2
  <2> HIDE DEF Here
  <2> QED BY <1>3, <2>2, <2>3
<1>6. /\ found' = found \cup Uses(2, View(d, scopes, scopes'), Here, Reads(d))
      /\ Fault(2, Here, Reproved(d, scopes, scopes'))
  BY <1>1, <1>2, Silent, NoFault
<1> QED BY <1>1, <1>4, <1>5, <1>6, TopVisits DEF Visited

LEMMA VisitsTypeDecl ==
  ASSUME Typed, UNCHANGED pool, NEW d \in pool.decls, VisitTypeDecl(d)
  PROVE  Visited(d)
<1>1. d.node = "type" /\ Toplevel(d) /\ UNCHANGED <<scopes, fn, found, errors>>
  BY DEF VisitTypeDecl
<1>2. d \in LogNode
  BY <1>1, TopVisits
<1>3. fn \in 0 .. Here /\ (fn = 0 <=> Len(scopes) = 1)
  BY PoolFacts
<1>4. Effect(d, Here, scopes, scopes')
  BY <1>1 DEF Effect
<1>5. /\ found' = found \cup Uses(2, View(d, scopes, scopes'), Here, Reads(d))
      /\ Fault(2, Here, Reproved(d, scopes, scopes'))
  BY <1>1, <1>2, Silent, NoFault
<1> QED BY <1>1, <1>3, <1>4, <1>5, TopVisits DEF Visited

\* A variable declaration, of the module or of a body.
LEMMA Declares_ ==
  ASSUME Typed, NEW d \in VarDecl, Declare(d)
  PROVE  /\ d \in LogNode /\ Effect(d, Here, scopes, scopes') /\ Len(scopes') = Len(scopes)
         /\ found' = found \cup Uses(2, View(d, scopes, scopes'), Here, Reads(d))
         /\ Fault(2, Here, Reproved(d, scopes, scopes'))
<1>1. d \in LogNode /\ d.node = "var" /\ Uttered(d) = d.init
  BY VarDecls DEF LogNode, Decl, Uttered
<1>2. /\ scopes' = define(scopes, d.name, VarSym(d, d.type, Here))
      /\ found' = found \cup Uses(2, scopes, Here, NamesIn(d.init))
  BY DEF Declare
<1>3. Fault(2, Here, ExprFaults(scopes, d.init)
                     \cup If(InCurrent(scopes, d.name), "redefinition"))
  BY DEF Declare
<1>4. Effect(d, Here, scopes, scopes')
  BY <1>1, <1>2 DEF Effect
<1>5. Len(scopes') = Len(scopes)
  <2>1. Done2(d, Here, scopes, scopes')
    BY <1>1, <1>4, Pass2, PoolFacts DEF Typed
  <2> QED BY <1>1, <2>1 DEF Done2, Widened
<1>6. View(d, scopes, scopes') = scopes /\ Reads(d) = NamesIn(d.init)
  BY <1>1 DEF View, Reads
<1>7. Fault(2, Here, Reproved(d, scopes, scopes'))
  BY <1>1, <1>3, ReprovedAs
<1> QED BY <1>1, <1>2, <1>4, <1>5, <1>6, <1>7

LEMMA VisitsGlobal ==
  ASSUME Typed, UNCHANGED pool, NEW d \in pool.decls, VisitGlobal(d)
  PROVE  Visited(d)
<1>1. d.node = "var" /\ Toplevel(d) /\ Declare(d) /\ fn' = fn
  BY DEF VisitGlobal
<1>2. d \in VarDecl
  BY <1>1, PoolFacts DEF Decl
<1>3. fn \in 0 .. Here /\ (fn = 0 <=> Len(scopes) = 1)
  BY PoolFacts
<1> QED BY <1>1, <1>2, <1>3, TopVisits, Declares_ DEF Visited

LEMMA VisitsVarDecl ==
  ASSUME Typed, UNCHANGED pool, NEW d \in pool.locals, VisitVarDecl(d)
  PROVE  Visited(d)
<1>1. Statement("var", d) /\ Declare(d)
  BY DEF VisitVarDecl
<1>2. d \in VarDecl
  BY PoolFacts
<1>3. fn \in 0 .. Here /\ (fn = 0 <=> Len(scopes) = 1)
  BY PoolFacts
<1> QED BY <1>1, <1>2, <1>3, StmtVisits, Declares_ DEF Visited

\* A statement that only reads, in the table it leaves as it is.
LEMMA Reading ==
  ASSUME Typed, NEW n \in LogNode, n.node \in {"expr", "cond", "return"},
         Fault(2, Here, ExprFaults(scopes, n.expr)), UNCHANGED scopes,
         found' = found \cup Uses(2, scopes, Here, NamesIn(n.expr))
  PROVE  /\ Effect(n, Here, scopes, scopes')
         /\ found' = found \cup Uses(2, View(n, scopes, scopes'), Here, Reads(n))
         /\ Fault(2, Here, Reproved(n, scopes, scopes'))
<1>1. Uttered(n) = n.expr /\ Reads(n) = NamesIn(n.expr) /\ View(n, scopes, scopes') = scopes
  BY DEF Uttered, Reads, View
<1>2. Reproved(n, scopes, scopes') = ExprFaults(scopes, n.expr)
  BY ReprovedAs
<1> QED BY <1>1, <1>2 DEF Effect

LEMMA VisitsExpr ==
  ASSUME Typed, UNCHANGED pool, NEW kind \in {"expr", "cond"}, NEW e \in pool.exprs,
         VisitExpr(kind, e)
  PROVE  \E n : Visited(n)
<1> DEFINE n == [node |-> kind, expr |-> e]
<1>1. n \in LogNode /\ n.node \in {"expr", "cond", "return"} /\ n.expr = e
  <2>1. e \in Expression
    BY PoolFacts
  <2> QED BY <2>1 DEF LogNode
<1>2. /\ Statement(kind, n) /\ UNCHANGED scopes
      /\ found' = found \cup Uses(2, scopes, Here, NamesIn(e))
      /\ Fault(2, Here, ExprFaults(scopes, e))
  BY DEF VisitExpr
<1> HIDE DEF n
<1>3. fn \in 0 .. Here /\ (fn = 0 <=> Len(scopes) = 1)
  BY PoolFacts
<1>4. Visited(n)
  BY <1>1, <1>2, <1>3, StmtVisits, Reading DEF Visited
<1> QED BY <1>4

LEMMA VisitsReturn ==
  ASSUME Typed, UNCHANGED pool, NEW e \in pool.exprs \cup {None}, VisitReturn(e)
  PROVE  \E n : Visited(n)
<1> DEFINE n == [node |-> "return", expr |-> e]
<1>1. n \in LogNode /\ n.node \in {"expr", "cond", "return"} /\ n.expr = e
  <2>1. e \in Expression \cup {None}
    BY PoolFacts
  <2> QED BY <2>1 DEF LogNode
<1>2. /\ Statement("return", n) /\ UNCHANGED scopes
      /\ found' = found \cup Uses(2, scopes, Here, NamesIn(e))
      /\ Fault(2, Here, ExprFaults(scopes, e))
  BY DEF VisitReturn
<1> HIDE DEF n
<1>3. fn \in 0 .. Here /\ (fn = 0 <=> Len(scopes) = 1)
  BY PoolFacts
<1>4. Visited(n)
  BY <1>1, <1>2, <1>3, StmtVisits, Reading DEF Visited
<1> QED BY <1>4

LEMMA VisitsAssign ==
  ASSUME Typed, UNCHANGED pool, NEW x \in pool.names, NEW e \in pool.exprs, VisitAssign(x, e)
  PROVE  \E n : Visited(n)
<1> DEFINE n  == [node |-> "assign", name |-> x, expr |-> e]
           sc == IF lookup(scopes, x) = {}
                 THEN define(scopes, x, Sym("variable", TRUE, Any, 0, Here)) ELSE scopes
           S  == If(\E s \in lookup(scopes, x) :
                      \/ s.kind \in {"constant", "function"}
                      \/ s.kind = "variable" /\ ~s.mut, "immutable")
<1>1. n \in LogNode /\ n.node = "assign" /\ n.expr = e /\ n.name = x
  <2>1. e \in Expression /\ x \in Names
    BY PoolFacts
  <2> QED BY <2>1 DEF LogNode
<1>2. /\ Statement("assign", n) /\ scopes' = sc
      /\ found' = found \cup Uses(2, sc, Here, {x} \cup NamesIn(e))
      /\ Fault(2, Here, ExprFaults(sc, e) \cup S)
  BY DEF VisitAssign
<1>3. Len(scopes) > 1 /\ fn' = fn
  BY <1>2, StmtVisits
<1>4. Effect(n, Here, scopes, scopes')
  <2>1. scopes' = IF lookup(scopes, n.name) = {}
                  THEN define(scopes, n.name, Sym("variable", TRUE, Any, 0, Here)) ELSE scopes
    BY <1>1, <1>2
  <2> HIDE DEF n
  <2> QED BY <1>1, <1>3, <2>1 DEF Effect
<1> HIDE DEF n, sc, S
<1>5. Len(scopes') = Len(scopes)
  <2>1. Done2(n, Here, scopes, scopes')
    BY <1>1, <1>4, Pass2, PoolFacts DEF Typed
  <2> QED BY <1>1, <2>1 DEF Done2, Widened
<1>6. /\ Uttered(n) = e /\ Reads(n) = {x} \cup NamesIn(e) /\ View(n, scopes, scopes') = sc
      /\ n.node # "var"
  BY <1>1, <1>2 DEF Uttered, Reads, View
<1>7. Fault(2, Here, Reproved(n, scopes, scopes'))
  BY <1>1, <1>2, ReprovedAs DEF S, Refused
<1>8. fn \in 0 .. Here /\ (fn = 0 <=> Len(scopes) = 1)
  BY PoolFacts
<1>9. Visited(n)
  BY <1>1, <1>2, <1>3, <1>4, <1>5, <1>6, <1>7, <1>8, StmtVisits DEF Visited
<1> QED BY <1>9

\* A node that opens a scope in a body, or closes one.
LEMMA Nesting ==
  ASSUME Typed, NEW n \in LogNode, Effect(n, Here, scopes, scopes'),
         n.node \in {"block", "for"}, Len(scopes) > 1, fn' = fn, fn # 0
  PROVE  fn' \in 0 .. Here /\ (fn' = 0 <=> Len(scopes') = 1)
<1>1. Done2(n, Here, scopes, scopes')
  BY Pass2, PoolFacts DEF Typed
<1>2. Len(scopes') = Len(scopes) + 1
  BY <1>1 DEF Done2, Opened
<1>3. \A m \in Nat : m > 1 => m + 1 # 1
  OBVIOUS
<1>4. Len(scopes') # 1
  BY <1>2, <1>3, PoolFacts, Zenon
<1> QED BY <1>4, PoolFacts

LEMMA VisitsBlock ==
  ASSUME Typed, UNCHANGED pool, VisitBlock
  PROVE  \E n : Visited(n)
<1> DEFINE n == [node |-> "block"]
<1>1. n \in LogNode /\ n.node = "block"
  BY DEF LogNode
<1>2. /\ Statement("block", n) /\ scopes' = enterScope(scopes, "block")
      /\ UNCHANGED <<found, errors>>
  BY DEF VisitBlock
<1> HIDE DEF n
<1>3. Len(scopes) > 1
  BY <1>2, StmtVisits
<1>4. Effect(n, Here, scopes, scopes')
  BY <1>1, <1>2, <1>3 DEF Effect
<1>5. fn' \in 0 .. Here /\ (fn' = 0 <=> Len(scopes') = 1)
  BY <1>1, <1>2, <1>4, Nesting, StmtVisits
<1>6. /\ found' = found \cup Uses(2, View(n, scopes, scopes'), Here, Reads(n))
      /\ Fault(2, Here, Reproved(n, scopes, scopes'))
  BY <1>1, <1>2, Silent, NoFault
<1>7. Visited(n)
  BY <1>1, <1>2, <1>4, <1>5, <1>6, StmtVisits DEF Visited
<1> QED BY <1>7

LEMMA VisitsBody ==
  ASSUME Typed, UNCHANGED pool, VisitBody
  PROVE  \E n : Visited(n)
<1> DEFINE n == [node |-> "block"]
<1>1. n \in LogNode /\ n.node = "block"
  BY DEF LogNode
<1>2. /\ pass = "resolve" /\ fn # 0 /\ log' = Append(log, n)
      /\ scopes' = enterScope(scopes, "block")
      /\ UNCHANGED <<decls, pass, next, fn, returned, last, stmts, found, errors>>
  BY DEF VisitBody, Node
<1> HIDE DEF n
<1>3. Len(scopes) > 1
  <2>1. Len(scopes) # 1 /\ Len(scopes) \in Nat \ {0}
    BY <1>2, PoolFacts, Zenon
  <2>2. \A m \in Nat \ {0} : m # 1 => m > 1
    OBVIOUS
  <2> QED BY <2>1, <2>2, Zenon
<1>4. Effect(n, Here, scopes, scopes')
  BY <1>1, <1>2, <1>3 DEF Effect
<1>5. fn' \in 0 .. Here /\ (fn' = 0 <=> Len(scopes') = 1)
  BY <1>1, <1>2, <1>3, <1>4, Nesting
<1>6. /\ found' = found \cup Uses(2, View(n, scopes, scopes'), Here, Reads(n))
      /\ Fault(2, Here, Reproved(n, scopes, scopes'))
  BY <1>1, <1>2, Silent, NoFault
<1>7. next' \in Nat \ {0} /\ next' <= Len(decls) + 1 /\ stmts' \in 0 .. pool.maxStmts
  BY <1>2, PoolFacts
<1>8. Visited(n)
  BY <1>1, <1>2, <1>4, <1>5, <1>6, <1>7 DEF Visited
<1> QED BY <1>8

LEMMA VisitsFor ==
  ASSUME Typed, UNCHANGED pool, NEW x \in pool.names, NEW e \in pool.exprs, VisitFor(x, e)
  PROVE  \E n : Visited(n)
<1> DEFINE n  == [node |-> "for", name |-> x, expr |-> e]
           sc == define(enterScope(scopes, "for"), x, Sym("variable", FALSE, Bare, 0, Here))
<1>1. n \in LogNode /\ n.node = "for" /\ n.expr = e /\ n.name = x
  <2>1. e \in Expression /\ x \in Names
    BY PoolFacts
  <2> QED BY <2>1 DEF LogNode
<1>2. /\ Statement("for", n) /\ scopes' = sc
      /\ found' = found \cup Uses(2, sc, Here, NamesIn(e))
      /\ Fault(2, Here, ExprFaults(sc, e))
  BY DEF VisitFor
<1>3. Len(scopes) > 1
  BY <1>2, StmtVisits
<1>4. Effect(n, Here, scopes, scopes')
  <2>1. scopes' = define(enterScope(scopes, "for"), n.name,
                         Sym("variable", FALSE, Bare, 0, Here))
    BY <1>1, <1>2
  <2> HIDE DEF n
  <2> QED BY <1>1, <1>3, <2>1 DEF Effect
<1> HIDE DEF n, sc
<1>5. fn' \in 0 .. Here /\ (fn' = 0 <=> Len(scopes') = 1)
  BY <1>1, <1>2, <1>4, Nesting, StmtVisits
<1>6. /\ Uttered(n) = e /\ Reads(n) = NamesIn(e) /\ View(n, scopes, scopes') = sc
      /\ n.node # "var"
  BY <1>1, <1>2 DEF Uttered, Reads, View
<1>7. Fault(2, Here, Reproved(n, scopes, scopes'))
  BY <1>1, <1>2, ReprovedAs
<1>8. Visited(n)
  BY <1>1, <1>2, <1>4, <1>5, <1>6, <1>7, StmtVisits DEF Visited
<1> QED BY <1>8

LEMMA VisitsEnd ==
  ASSUME Typed, UNCHANGED pool, Leave
  PROVE  \E n : Visited(n)
<1> DEFINE n == [node |-> "end"]
<1>1. n \in LogNode /\ n.node = "end"
  BY DEF LogNode
<1>2. /\ pass = "resolve" /\ fn # 0 /\ log' = Append(log, n)
      /\ scopes' = leaveScope(scopes) /\ fn' = IF Label = "fn" THEN 0 ELSE fn
      /\ UNCHANGED <<decls, pass, next, returned, last, stmts, found, errors>>
  BY DEF Leave, Node
<1> HIDE DEF n
<1>3. Len(scopes) > 1
  <2>1. Len(scopes) # 1 /\ Len(scopes) \in Nat \ {0}
    BY <1>2, PoolFacts, Zenon
  <2>2. \A m \in Nat \ {0} : m # 1 => m > 1
    OBVIOUS
  <2> QED BY <2>1, <2>2, Zenon
<1>4. Effect(n, Here, scopes, scopes')
  BY <1>1, <1>2, <1>3 DEF Effect
<1>5. fn' \in 0 .. Here /\ (fn' = 0 <=> Len(scopes') = 1)
  <2>1. Len(scopes') = Len(scopes) - 1 /\ Len(scopes) \in Nat
    BY <1>2, <1>3, Left, PoolFacts
  <2>2. Label = "fn" <=> Len(scopes) = 2
    <3>1. Table(scopes) /\ Len(scopes) \in DOMAIN scopes
      BY PoolFacts DEF Typed
    <3> QED BY <3>1 DEF Table, Label
  <2>3. Len(scopes') = 1 <=> Len(scopes) = 2
    <3>1. \A m \in Nat : m - 1 = 1 <=> m = 2
      OBVIOUS
    <3> QED BY <2>1, <3>1, Zenon
  <2>4. fn' = 0 <=> Len(scopes') = 1
    BY <1>2, <2>2, <2>3, Zenon
  <2> QED BY <1>2, <2>4, PoolFacts
<1>6. /\ found' = found \cup Uses(2, View(n, scopes, scopes'), Here, Reads(n))
      /\ Fault(2, Here, Reproved(n, scopes, scopes'))
  BY <1>1, <1>2, Silent, NoFault
<1>7. next' \in Nat \ {0} /\ next' <= Len(decls) + 1 /\ stmts' \in 0 .. pool.maxStmts
  BY <1>2, PoolFacts
<1>8. Visited(n)
  BY <1>1, <1>2, <1>4, <1>5, <1>6, <1>7 DEF Visited
<1> QED BY <1>8

-----------------------------------------------------------------------------
(***************************************************************************)
(* A visit of pass 3.                                                      *)
(***************************************************************************)
Rechecked ==
  /\ pass = "check" /\ pass' = "check" /\ next <= Len(log) /\ next' = next + 1
  /\ Redone(At, next, scopes, scopes')
  /\ found' = found \cup Uses(3, View(At, scopes, scopes'), next, Reads(At))
  /\ \E S : Fault(3, next, S)
  /\ fn' = CASE At.node = "fn"  -> next
             [] At.node = "end" -> IF Label = "fn" THEN 0 ELSE fn
             [] OTHER           -> fn
  /\ returned' \in BOOLEAN /\ last' \in TypeNames
  /\ UNCHANGED <<pool, decls, log, stmts>>

\* The two tables at this node.
LEMMA BothTables ==
  ASSUME Typed, NEW H, History(H), Rechecked
  PROVE  /\ next \in DOMAIN log /\ next \in Nat \ {0} /\ At \in LogNode
         /\ H[next] \in Seq(Scope) /\ Table(H[next])
         /\ H[next + 1] \in Seq(Scope) /\ Table(H[next + 1])
         /\ Done2(At, next, H[next], H[next + 1])
         /\ scopes \in Seq(Scope) /\ scopes' \in Seq(Scope)
         /\ Done3(At, next, scopes, scopes')
         /\ Aligned(scopes, H[next]) /\ scopes[1] = H[Len(H)][1]
         /\ Aligned(scopes', H[next + 1]) /\ scopes'[1] = H[Len(H)][1]
         /\ Grown(H[next][1], scopes[1]) /\ Grown(H[next + 1][1], scopes'[1])
<1> DEFINE Tables == {t \in Seq(Scope) : Table(t)}
<1>1. /\ pass = "check" /\ next <= Len(log) /\ Redone(At, next, scopes, scopes')
  BY DEF Rechecked
<1>2. log \in Seq(LogNode) /\ Table(scopes) /\ next \in Nat \ {0}
  BY DEF Typed
<1>3. /\ H \in Seq(Tables) /\ Len(H) = Len(log) + 1
      /\ \A k \in DOMAIN log : Effect(log[k], k, H[k], H[k + 1])
      /\ \A k \in DOMAIN H : Grown(H[k][1], H[Len(H)][1])
  BY DEF History, Lived
<1>4. Aligned(scopes, H[next]) /\ scopes[1] = H[Len(H)][1]
  BY <1>1 DEF History, Checked
<1>5. next \in DOMAIN log /\ next \in DOMAIN H /\ next + 1 \in DOMAIN H
  BY <1>1, <1>2, <1>3
<1>6. At \in LogNode /\ At = log[next]
  BY <1>2, <1>5 DEF At
<1>7. H[next] \in Tables /\ H[next + 1] \in Tables
  BY <1>3, <1>5
<1>8. Effect(At, next, H[next], H[next + 1])
  BY <1>3, <1>5, <1>6
<1>9. scopes \in Seq(Scope) /\ Len(scopes) > 0 /\ Len(scopes) = Len(H[next])
  BY <1>2, <1>4 DEF Table, Aligned
<1> HIDE DEF At
<1>10. Done2(At, next, H[next], H[next + 1])
  BY <1>2, <1>6, <1>7, <1>8, Pass2
<1>11. At.node = "end" => Len(scopes) > 1
  BY <1>9, <1>10 DEF Done2
<1>12. scopes' \in Seq(Scope) /\ Done3(At, next, scopes, scopes')
  BY <1>1, <1>2, <1>6, <1>9, <1>11, Pass3
<1>13. Grown(H[next][1], scopes[1]) /\ Grown(H[next + 1][1], scopes[1])
  BY <1>3, <1>4, <1>5
<1>14. Aligned(scopes', H[next + 1]) /\ scopes'[1] = scopes[1]
  BY <1>2, <1>4, <1>6, <1>7, <1>9, <1>10, <1>12, <1>13, StaysAligned
<1> QED BY <1>2, <1>4, <1>5, <1>6, <1>7, <1>9, <1>10, <1>12, <1>13, <1>14

LEMMA AlignedTable ==
  ASSUME NEW s \in Seq(Scope), NEW t \in Seq(Scope), Table(t), Aligned(s, t)
  PROVE  Table(s)
<1>1. DOMAIN s = 1 .. Len(s) /\ DOMAIN t = 1 .. Len(t) /\ Len(s) = Len(t)
  BY DEF Aligned
<1> QED BY <1>1 DEF Table, Aligned

LEMMA RecheckTyped ==
  ASSUME Typed, NEW H, History(H), Rechecked
  PROVE  Typed'
<1>1. /\ pass' = "check" /\ next <= Len(log) /\ next' = next + 1
      /\ fn' = CASE At.node = "fn"  -> next
                 [] At.node = "end" -> IF Label = "fn" THEN 0 ELSE fn
                 [] OTHER           -> fn
      /\ returned' \in BOOLEAN /\ last' \in TypeNames
      /\ UNCHANGED <<pool, decls, log, stmts>>
  BY DEF Rechecked
<1>2. /\ pool \in Pools /\ decls \in Seq(pool.decls) /\ Len(decls) \in 1 .. pool.maxDecls
      /\ log \in Seq(LogNode) /\ Table(scopes) /\ next \in Nat \ {0}
      /\ fn \in 0 .. Len(log) /\ (fn = 0 <=> Len(scopes) = 1)
      /\ stmts \in 0 .. pool.maxStmts
  BY DEF Typed
<1>3. Table(scopes')
  BY BothTables, AlignedTable
<1> DEFINE s2 == H[next]
           t2 == H[next + 1]
<1>4. /\ At \in LogNode /\ Done2(At, next, s2, t2) /\ next \in Nat \ {0}
      /\ Len(scopes) = Len(s2) /\ Len(scopes') = Len(t2) /\ Len(s2) \in Nat
  BY BothTables DEF Aligned
<1> HIDE DEF s2, t2, At
<1>5. fn' \in 0 .. Len(log') /\ (fn' = 0 <=> Len(scopes') = 1)
  <2>1. CASE At.node = "fn"
    <3>1. Len(s2) = 1 /\ Len(t2) = Len(s2) + 1
      BY <1>4, <2>1 DEF Done2, Opened
    <3>2. fn' = next
      BY <1>1, <2>1
    <3>3. Len(t2) = 2
      BY <3>1
    <3>4. fn' # 0 /\ Len(scopes') # 1
      BY <1>2, <1>4, <3>2, <3>3
    <3>5. fn' \in 0 .. Len(log')
      BY <1>1, <1>2, <3>2
    <3> QED BY <3>4, <3>5
  <2>2. CASE At.node = "end"
    <3>1. fn' = IF Label = "fn" THEN 0 ELSE fn
      BY <1>1, <2>2
    <3>2. Len(scopes') = Len(scopes) - 1 /\ Len(scopes) > 1
      BY <1>4, <2>2 DEF Done2, Closed
    <3>3. Label = "fn" <=> Len(scopes) = 2
      <4>1. Len(scopes) \in DOMAIN scopes
        BY <1>2 DEF Table
      <4> QED BY <1>2, <4>1 DEF Table, Label
    <3>4. \A m \in Nat : m > 1 => (m - 1 = 1 <=> m = 2) /\ m # 1
      OBVIOUS
    <3>5. (Len(scopes') = 1 <=> Len(scopes) = 2) /\ Len(scopes) # 1
      BY <1>4, <3>2, <3>4, Zenon
    <3>6. fn' = 0 <=> Len(scopes') = 1
      BY <1>2, <3>1, <3>3, <3>5, Zenon
    <3>7. fn' \in 0 .. Len(log')
      BY <1>1, <1>2, <3>1
    <3> QED BY <3>6, <3>7
  <2>3. CASE At.node \in {"block", "for"}
    <3>1. Len(s2) > 1 /\ Len(t2) = Len(s2) + 1
      BY <1>4, <2>3 DEF Done2, Opened
    <3>2. fn' = fn
      BY <1>1, <2>3
    <3>3. \A m \in Nat : m > 1 => m # 1 /\ m + 1 # 1
      OBVIOUS
    <3>4. Len(scopes) # 1 /\ Len(scopes') # 1
      BY <1>4, <3>1, <3>3, Zenon
    <3> QED BY <1>1, <1>2, <3>2, <3>4
  <2>4. CASE At.node \in {"import", "type", "var", "expr", "cond", "return", "assign"}
    <3>1. Len(t2) = Len(s2)
      BY <1>4, <2>4 DEF Done2, Widened
    <3>2. fn' = fn
      BY <1>1, <2>4
    <3> QED BY <1>1, <1>2, <1>4, <3>1, <3>2
  <2> QED BY <1>4, <2>1, <2>2, <2>3, <2>4, Nodes_
<1>6. next' \in Nat \ {0} /\ next' <= Len(log') + 1
  BY <1>1, <1>2
<1>7. next' <= (IF pass' \in {"hoist", "resolve"} THEN Len(decls') ELSE Len(log')) + 1
  BY <1>1, <1>6
<1>8. pass' \in {"hoist", "resolve", "check", "done"} /\ pass' # "hoist" /\ pass' # "done"
  BY <1>1
<1> QED BY <1>1, <1>2, <1>3, <1>5, <1>6, <1>7, <1>8 DEF Typed

\* What pass 3 finds for a name of this node is what pass 2 found.
LEMMA SameFound ==
  ASSUME Typed, NEW H, History(H), Rechecked, NoNameFaults, NEW x \in Reads(At)
  PROVE  LET ids == Ids(lookup(View(At, H[next], H[next + 1]), x))
         IN  \/ \E d \in ids : Implicit(log, d)
             \/ Ids(lookup(View(At, scopes, scopes'), x)) = ids
<1> DEFINE s2 == H[next]
           t2 == H[next + 1]
<1>1. /\ next \in DOMAIN log /\ next \in Nat \ {0} /\ At \in LogNode
      /\ s2 \in Seq(Scope) /\ Table(s2) /\ t2 \in Seq(Scope) /\ Table(t2)
      /\ Done2(At, next, s2, t2)
      /\ scopes \in Seq(Scope) /\ scopes' \in Seq(Scope)
      /\ Done3(At, next, scopes, scopes')
      /\ Aligned(scopes, s2) /\ Aligned(scopes', t2)
      /\ Grown(s2[1], scopes[1]) /\ Grown(t2[1], scopes'[1])
  BY BothTables
<1>2. log[next] = At
  BY DEF At
<1>3. Alike(log, scopes, s2) /\ Faultless(At, s2, t2)
  <2>1. pass = "check"
    BY DEF Rechecked
  <2>2. Alike(log, scopes, s2) /\ Reported(H)
    BY <2>1 DEF History, Checked
  <2> QED BY <1>1, <1>2, <2>2, Guiltless
<1> HIDE DEF s2, t2, At
<1>4. At.node = "var" => ~InCurrent(s2, At.name)
  BY <1>3 DEF Faultless
<1>5. Alike(log, scopes', t2)
  BY <1>1, <1>2, <1>3, <1>4, StaysAlike
<1>6. lookup(View(At, s2, t2), x) # {}
  <2>1. CASE x \in NamesIn(Uttered(At))
    BY <1>3, <2>1 DEF Faultless
  <2>2. CASE x \notin NamesIn(Uttered(At))
    <3>1. At.node = "assign" /\ x = At.name
      BY <2>2 DEF Reads
    <3>2. View(At, s2, t2) = t2
      BY <3>1 DEF View
    <3>3. CASE t2 = s2 /\ lookup(s2, x) # {}
      BY <3>2, <3>3
    <3>4. CASE Widened(s2, t2, x, next)
      <4>1. Len(s2) \in DOMAIN t2 /\ x \in DOMAIN t2[Len(s2)].syms
        BY <1>1, <3>4 DEF Widened, Table
      <4>2. \/ \A i \in DOMAIN t2 : x \notin DOMAIN t2[i].syms
            \/ \E m \in DOMAIN t2 : lookup(t2, x) = {t2[m].syms[x]}
        BY <1>1, Lookups
      <4>3. lookup(t2, x) # {}
        BY <4>1, <4>2
      <4> QED BY <3>2, <4>3
    <3>5. At.node = "assign" /\ Done2(At, next, s2, t2)
      BY <1>1, <3>1
    <3>6. \/ t2 = s2 /\ lookup(s2, At.name) # {}
          \/ Widened(s2, t2, At.name, next)
      BY <3>5 DEF Done2
    <3> QED BY <3>1, <3>3, <3>4, <3>6
  <2> QED BY <2>1, <2>2
<1>7. CASE At.node = "var"
  <2>1. View(At, s2, t2) = s2 /\ View(At, scopes, scopes') = scopes
    BY <1>7 DEF View
  <2> QED BY <1>1, <1>3, <1>6, <2>1, SameAnswer DEF s2, t2
<1>8. CASE At.node # "var"
  <2>1. View(At, s2, t2) = t2 /\ View(At, scopes, scopes') = scopes'
    BY <1>8 DEF View
  <2> QED BY <1>1, <1>5, <1>6, <2>1, SameAnswer DEF s2, t2
<1> QED BY <1>7, <1>8

LEMMA RecheckAnswered ==
  ASSUME Typed, NEW H, History(H), Rechecked
  PROVE  /\ Answered(H)'
         /\ NoNameFaults => Same3(H)'
<1> DEFINE view == View(At, scopes, scopes')
           new  == Uses(3, view, next, Reads(At))
<1>1. /\ found' = found \cup new /\ log' = log /\ pass = "check" /\ pass' = "check"
      /\ next' = next + 1
  BY DEF Rechecked
<1>2. /\ \A f \in found : f = <<f[1], f[2], f[3], f[4]>> /\ f[1] \in {2, 3}
      /\ Found2(H) /\ Found3
  BY DEF History, Answered
<1>3. next \in DOMAIN log /\ next \in Nat \ {0} /\ DOMAIN log \subseteq Nat /\ log[next] = At
  <2>1. log \in Seq(LogNode)
    BY DEF Typed
  <2>2. DOMAIN log \subseteq Nat
    BY <2>1
  <2> QED BY <2>2, BothTables DEF At
<1>4. new = {<<3, next, x, Ids(lookup(view, x))>> : x \in Reads(At)}
  BY DEF Uses
<1> HIDE DEF view, new, At
<1>5. \A f \in new : f = <<f[1], f[2], f[3], f[4]>> /\ f[1] = 3
  BY <1>4
<1>6. \A f \in found' : f = <<f[1], f[2], f[3], f[4]>> /\ f[1] \in {2, 3}
  BY <1>1, <1>2, <1>5
<1>7. \A k, x, ids : <<2, k, x, ids>> \notin new
  <2>1. SUFFICES ASSUME NEW k, NEW x, NEW ids, <<2, k, x, ids>> \in new PROVE FALSE
    OBVIOUS
  <2>2. <<2, k, x, ids>>[1] = 3
    BY <1>5, <2>1
  <2> QED BY <2>2
<1>8. Found2(H)'
  BY <1>1, <1>2, <1>7 DEF Found2
<1>9. \A k, x, ids : <<3, k, x, ids>> \in new <=>
        k = next /\ x \in Reads(At) /\ ids = Ids(lookup(view, x))
  BY <1>4
<1>10. \A k, x, ids : <<3, k, x, ids>> \in found =>
          k \in DOMAIN log /\ k < next /\ x \in Reads(log[k])
  BY <1>2 DEF Found3
<1>11. ASSUME NEW k, NEW x, NEW ids, <<3, k, x, ids>> \in found'
       PROVE  k \in DOMAIN log /\ k < next + 1 /\ x \in Reads(log[k])
  <2>1. CASE <<3, k, x, ids>> \in found
    BY <1>3, <1>10, <2>1
  <2>2. CASE <<3, k, x, ids>> \in new
    <3>1. k = next /\ x \in Reads(At)
      BY <1>9, <2>2
    <3> QED BY <1>3, <3>1
  <2> QED BY <1>1, <1>11, <2>1, <2>2
<1>12. Found3'
  <2>1. Checked'
    BY <1>1 DEF Checked
  <2> QED BY <1>1, <1>11, <2>1 DEF Found3
<1>13. ASSUME NoNameFaults, NEW k \in DOMAIN log, k < next + 1, NEW x \in Reads(log[k])
       PROVE  LET ids == Ids(lookup(View(log[k], H[k], H[k + 1]), x))
              IN  \/ \E d \in ids : Implicit(log, d)
                  \/ \A z : <<3, k, x, z>> \in found' <=> z = ids
  <2> DEFINE ids == Ids(lookup(View(log[k], H[k], H[k + 1]), x))
  <2>1. CASE k = next
    <3>1. \A z : <<3, k, x, z>> \notin found
      BY <1>3, <1>10, <2>1
    <3>2. x \in Reads(At)
      BY <1>3, <1>13, <2>1
    <3>3. \A z : <<3, k, x, z>> \in found' <=> z = Ids(lookup(view, x))
      BY <1>1, <1>9, <2>1, <3>1, <3>2
    <3>4. (\E d \in ids : Implicit(log, d)) \/ Ids(lookup(view, x)) = ids
      <4>1. \/ \E d \in Ids(lookup(View(At, H[next], H[next + 1]), x)) : Implicit(log, d)
            \/ Ids(lookup(view, x)) = Ids(lookup(View(At, H[next], H[next + 1]), x))
        BY <1>13, <3>2, SameFound DEF view
      <4> QED BY <1>3, <2>1, <4>1
    <3> HIDE DEF ids
    <3> QED BY <3>3, <3>4 DEF ids
  <2>2. CASE k # next
    <3>1. k < next
      BY <1>3, <1>13, <2>2
    <3>2. \A z : <<3, k, x, z>> \in found' <=> <<3, k, x, z>> \in found
      BY <1>1, <1>9, <2>2
    <3>3. Same3(H)
      BY <1>1, <1>13 DEF History, Checked
    <3>4. (\E d \in ids : Implicit(log, d)) \/ \A z : <<3, k, x, z>> \in found <=> z = ids
      BY <1>13, <3>1, <3>3 DEF Same3
    <3> HIDE DEF ids
    <3> QED BY <3>2, <3>4 DEF ids
  <2> QED BY <2>1, <2>2
<1>14. NoNameFaults => Same3(H)'
  BY <1>1, <1>13 DEF Same3
<1> QED BY <1>6, <1>8, <1>12, <1>14 DEF Answered

\* Steps that report nothing of passes 1 and 2.
LEMMA Unreported ==
  ASSUME NEW H, Reported(H), HoistedBy(Front, H[1][1]), UNCHANGED <<log, decls>>, Front' = Front,
         Checked => Checked',
         errors' = errors \/ (Checked /\ \E S : errors' = errors \cup ({3} \X {next} \X S))
  PROVE  Reported(H)' /\ HoistedBy(Front, H[1][1])'
<1>1. \A e \in errors' : e = <<e[1], e[2], e[3]>> /\ (e[1] \in {1, 2} \/ Checked')
  BY DEF Reported
<1>2. \A k, what : /\ <<1, k, what>> \in errors' <=> <<1, k, what>> \in errors
                  /\ <<2, k, what>> \in errors' <=> <<2, k, what>> \in errors
  OBVIOUS
<1>3. HoistFaults' = HoistFaults
  BY DEF HoistFaults
<1>4. HoistedBy(Front, H[1][1])'
  BY StillHoisted
<1>5. DOMAIN log' = DOMAIN log /\ \A k \in DOMAIN log : log'[k] = log[k]
  OBVIOUS
<1>6. Reported(H)'
  BY <1>1, <1>2, <1>3, <1>5 DEF Reported
<1> QED BY <1>4, <1>6

LEMMA RecheckKept ==
  ASSUME IInv, Rechecked
  PROVE  IInv'
<1>1. Typed
  BY DEF IInv
<1>2. PICK H : History(H)
  BY DEF IInv
<1>3. Typed'
  BY <1>1, <1>2, RecheckTyped
<1>4. Answered(H)' /\ (NoNameFaults => Same3(H)')
  BY <1>1, <1>2, RecheckAnswered
<1>5. /\ log' = log /\ decls' = decls /\ pass = "check" /\ pass' = "check" /\ next' = next + 1
      /\ \E S : errors' = errors \cup ({3} \X {next} \X S)
  BY DEF Rechecked, Fault
<1>6. Checked /\ Checked'
  BY <1>5 DEF Checked
<1>7. Lived(H)'
  BY <1>2, <1>5 DEF History, Lived
<1>8. Aligned(scopes', H[next + 1]) /\ scopes'[1] = H[Len(H)][1]
  BY <1>1, <1>2, BothTables
<1>9. ASSUME NoNameFaults'
      PROVE  Alike(log', scopes', H[next + 1]) /\ Same3(H)'
  <2>1. NoNameFaults
    BY <1>5, <1>9 DEF NoNameFaults
  <2>2. /\ \A k \in DOMAIN log : Faultless(log[k], H[k], H[k + 1])
        /\ Alike(log, scopes, H[next])
    BY <1>2, <1>6, <2>1, Guiltless DEF History
  <2>3. Alike(log, scopes', H[next + 1])
    <3>1. /\ next \in DOMAIN log /\ next \in Nat \ {0} /\ At \in LogNode /\ At = log[next]
          /\ H[next] \in Seq(Scope) /\ Table(H[next]) /\ H[next + 1] \in Seq(Scope)
          /\ Done2(At, next, H[next], H[next + 1])
          /\ scopes \in Seq(Scope) /\ scopes' \in Seq(Scope)
          /\ Done3(At, next, scopes, scopes')
          /\ Aligned(scopes, H[next])
      BY <1>1, <1>2, BothTables DEF At
    <3>2. At.node = "var" => ~InCurrent(H[next], At.name)
      BY <2>2, <3>1 DEF Faultless
    <3> QED BY <2>2, <3>1, <3>2, StaysAlike
  <2> QED BY <1>4, <1>5, <2>1, <2>2, <2>3
<1>10. Reported(H)' /\ HoistedBy(Front, H[1][1])'
  <2>1. Front' = Front
    BY <1>5 DEF Front
  <2> QED BY <1>2, <1>5, <1>6, <2>1, Unreported DEF History
<1>11. History(H)'
  BY <1>4, <1>5, <1>6, <1>7, <1>8, <1>9, <1>10 DEF History
<1> QED BY <1>3, <1>11 DEF IInv

LEMMA CheckVisits ==
  ASSUME Typed, UNCHANGED pool, NEW kinds, Checking(kinds)
  PROVE  /\ pass = "check" /\ pass' = "check" /\ next <= Len(log) /\ next' = next + 1
         /\ UNCHANGED <<pool, decls, log, stmts>>
         /\ At \in LogNode /\ At.node \in kinds
         /\ scopes \in Seq(Scope) /\ last \in TypeNames /\ returned \in BOOLEAN
<1>1. /\ pass = "check" /\ next <= Len(log) /\ At.node \in kinds
      /\ next' = next + 1 /\ UNCHANGED <<decls, log, pass, stmts>>
  BY DEF Checking
<1>2. /\ log \in Seq(LogNode) /\ next \in Nat \ {0} /\ Table(scopes)
      /\ last \in TypeNames /\ returned \in BOOLEAN
  BY DEF Typed
<1>3. At \in LogNode
  BY <1>1, <1>2 DEF At
<1> QED BY <1>1, <1>2, <1>3 DEF Table

-----------------------------------------------------------------------------
(***************************************************************************)
(* The handlers of pass 3 are visits.                                      *)
(***************************************************************************)
LEMMA ChecksFunctionDecl ==
  ASSUME Typed, UNCHANGED pool, CheckFunctionDecl
  PROVE  Rechecked
<1>1. /\ Checking({"fn"}) /\ fn' = next /\ returned' = FALSE
      /\ scopes' = DefineParams(enterScope(scopes, "fn"), At.params, next)
      /\ UNCHANGED <<last, found, errors>>
  BY DEF CheckFunctionDecl
<1>2. At \in LogNode /\ At.node = "fn"
  BY <1>1, CheckVisits
<1> HIDE DEF At
<1>3. Redone(At, next, scopes, scopes')
  BY <1>1, <1>2 DEF Redone
<1>4. /\ found' = found \cup Uses(3, View(At, scopes, scopes'), next, Reads(At))
      /\ \E S : Fault(3, next, S)
  BY <1>1, <1>2, Silent, NoFault
<1>5. fn' = CASE At.node = "fn"  -> next
              [] At.node = "end" -> IF Label = "fn" THEN 0 ELSE fn
              [] OTHER           -> fn
  BY <1>1, <1>2
<1> QED BY <1>1, <1>3, <1>4, <1>5, CheckVisits DEF Rechecked

LEMMA ChecksOtherDecl ==
  ASSUME Typed, UNCHANGED pool, CheckOtherDecl
  PROVE  Rechecked
<1>1. Checking({"import", "type"}) /\ UNCHANGED <<scopes, fn, returned, last, found, errors>>
  BY DEF CheckOtherDecl
<1>2. At \in LogNode /\ At.node \in {"import", "type"}
  BY <1>1, CheckVisits
<1> HIDE DEF At
<1>3. Redone(At, next, scopes, scopes')
  BY <1>1, <1>2 DEF Redone
<1>4. /\ found' = found \cup Uses(3, View(At, scopes, scopes'), next, Reads(At))
      /\ \E S : Fault(3, next, S)
  BY <1>1, <1>2, Silent, NoFault
<1>5. fn' = CASE At.node = "fn"  -> next
              [] At.node = "end" -> IF Label = "fn" THEN 0 ELSE fn
              [] OTHER           -> fn
  BY <1>1, <1>2
<1> QED BY <1>1, <1>3, <1>4, <1>5, CheckVisits DEF Rechecked

LEMMA ChecksVarDecl ==
  ASSUME Typed, UNCHANGED pool, CheckVarDecl
  PROVE  Rechecked
<1> DEFINE t    == exprType(scopes, At.init, last)
           type == IF At.type = Bare /\ At.init # None THEN t ELSE At.type
<1>1. /\ Checking({"var"}) /\ scopes' = define(scopes, At.name, VarSym(At, type, next))
      /\ last' = t
      /\ \E S : Fault(3, next, S)
      /\ found' = found \cup Uses(3, scopes, next, NamesIn(At.init))
      /\ UNCHANGED <<fn, returned>>
  BY DEF CheckVarDecl
<1>2. /\ At \in LogNode /\ At.node = "var" /\ scopes \in Seq(Scope) /\ last \in TypeNames
  BY <1>1, CheckVisits
<1> HIDE DEF At
<1>3. At.init \in Expression \cup {None} /\ At.type \in TypeNames
  BY <1>2, Nodes_, VarDecls
<1>4. t \in TypeNames
  BY <1>2, <1>3, ExprTypes
<1>5. type \in TypeNames
  BY <1>3, <1>4
<1> HIDE DEF type, t
<1>6. Redone(At, next, scopes, scopes')
  BY <1>1, <1>2, <1>5 DEF Redone
<1>7. View(At, scopes, scopes') = scopes /\ Reads(At) = NamesIn(At.init)
  BY <1>2 DEF View, Reads, Uttered
<1>8. fn' = CASE At.node = "fn"  -> next
              [] At.node = "end" -> IF Label = "fn" THEN 0 ELSE fn
              [] OTHER           -> fn
  BY <1>1, <1>2
<1> QED BY <1>1, <1>4, <1>6, <1>7, <1>8, CheckVisits DEF Rechecked

\* The nodes that only read.
LEMMA ChecksReading ==
  ASSUME Typed, UNCHANGED pool, NEW kinds \in SUBSET {"expr", "cond", "return", "assign"},
         Checking(kinds), UNCHANGED <<scopes, fn>>,
         found' = found \cup Uses(3, scopes, next, Reads(At)),
         \E S : Fault(3, next, S),
         returned' \in BOOLEAN, last' \in TypeNames
  PROVE  Rechecked
<1>1. At \in LogNode /\ At.node \in {"expr", "cond", "return", "assign"}
  BY CheckVisits
<1> HIDE DEF At
<1>2. Redone(At, next, scopes, scopes')
  BY <1>1 DEF Redone
<1>3. View(At, scopes, scopes') = scopes
  BY DEF View
<1>4. fn' = CASE At.node = "fn"  -> next
              [] At.node = "end" -> IF Label = "fn" THEN 0 ELSE fn
              [] OTHER           -> fn
  BY <1>1
<1> QED BY <1>2, <1>3, <1>4, CheckVisits DEF Rechecked

LEMMA ChecksExpr ==
  ASSUME Typed, UNCHANGED pool, CheckExpr
  PROVE  Rechecked
<1>1. /\ Checking({"expr", "cond"})
      /\ last' = exprType(scopes, At.expr, last)
      /\ \E S : Fault(3, next, S)
      /\ found' = found \cup Uses(3, scopes, next, NamesIn(At.expr))
      /\ UNCHANGED <<scopes, fn, returned>>
  BY DEF CheckExpr
<1>2. /\ At \in LogNode /\ At.node \in {"expr", "cond"} /\ scopes \in Seq(Scope)
      /\ last \in TypeNames /\ returned \in BOOLEAN
  BY <1>1, CheckVisits
<1>3. last' \in TypeNames
  BY <1>1, <1>2, Nodes_, ExprTypes
<1>4. Reads(At) = NamesIn(At.expr)
  BY <1>2 DEF Reads, Uttered
<1> QED BY <1>1, <1>2, <1>3, <1>4, ChecksReading

LEMMA ChecksReturn ==
  ASSUME Typed, UNCHANGED pool, CheckReturn
  PROVE  Rechecked
<1>1. /\ Checking({"return"}) /\ returned' = TRUE
      /\ last' = exprType(scopes, At.expr, last)
      /\ \E S : Fault(3, next, S)
      /\ found' = found \cup Uses(3, scopes, next, NamesIn(At.expr))
      /\ UNCHANGED <<scopes, fn>>
  BY DEF CheckReturn
<1>2. /\ At \in LogNode /\ At.node = "return" /\ scopes \in Seq(Scope) /\ last \in TypeNames
  BY <1>1, CheckVisits
<1>3. last' \in TypeNames
  BY <1>1, <1>2, Nodes_, ExprTypes
<1>4. Reads(At) = NamesIn(At.expr)
  BY <1>2 DEF Reads, Uttered
<1> QED BY <1>1, <1>2, <1>3, <1>4, ChecksReading

LEMMA ChecksAssign ==
  ASSUME Typed, UNCHANGED pool, CheckAssign
  PROVE  Rechecked
<1>1. /\ Checking({"assign"})
      /\ last' = TypeOfSym(lookup(scopes, At.name))
      /\ \E S : Fault(3, next, S)
      /\ found' = found \cup Uses(3, scopes, next, {At.name} \cup NamesIn(At.expr))
      /\ UNCHANGED <<scopes, fn, returned>>
  BY DEF CheckAssign
<1>2. /\ At \in LogNode /\ At.node = "assign" /\ scopes \in Seq(Scope)
      /\ returned \in BOOLEAN
  BY <1>1, CheckVisits
<1>3. last' \in TypeNames
  BY <1>1, <1>2, Types_
<1>4. Reads(At) = {At.name} \cup NamesIn(At.expr)
  BY <1>2 DEF Reads, Uttered
<1> QED BY <1>1, <1>2, <1>3, <1>4, ChecksReading

LEMMA ChecksBlock ==
  ASSUME Typed, UNCHANGED pool, CheckBlock
  PROVE  Rechecked
<1>1. /\ Checking({"block"}) /\ scopes' = enterScope(scopes, "block")
      /\ UNCHANGED <<fn, returned, last, found, errors>>
  BY DEF CheckBlock
<1>2. At \in LogNode /\ At.node = "block"
  BY <1>1, CheckVisits
<1> HIDE DEF At
<1>3. Redone(At, next, scopes, scopes')
  BY <1>1, <1>2 DEF Redone
<1>4. /\ found' = found \cup Uses(3, View(At, scopes, scopes'), next, Reads(At))
      /\ \E S : Fault(3, next, S)
  BY <1>1, <1>2, Silent, NoFault
<1>5. fn' = CASE At.node = "fn"  -> next
              [] At.node = "end" -> IF Label = "fn" THEN 0 ELSE fn
              [] OTHER           -> fn
  BY <1>1, <1>2
<1> QED BY <1>1, <1>3, <1>4, <1>5, CheckVisits DEF Rechecked

LEMMA ChecksFor ==
  ASSUME Typed, UNCHANGED pool, CheckFor
  PROVE  Rechecked
<1> DEFINE sc == define(enterScope(scopes, "for"), At.name,
                        Sym("variable", FALSE, Any, 0, next))
<1>1. /\ Checking({"for"}) /\ scopes' = sc
      /\ last' = exprType(sc, At.expr, last)
      /\ \E S : Fault(3, next, S)
      /\ found' = found \cup Uses(3, sc, next, NamesIn(At.expr))
      /\ UNCHANGED <<fn, returned>>
  BY DEF CheckFor
<1>2. /\ At \in LogNode /\ At.node = "for" /\ scopes \in Seq(Scope)
      /\ last \in TypeNames /\ returned \in BOOLEAN
  BY <1>1, CheckVisits
<1> HIDE DEF At
<1>3. Redone(At, next, scopes, scopes')
  BY <1>1, <1>2 DEF Redone
<1>4. sc \in Seq(Scope)
  <2>1. Len(scopes) > 0 /\ next \in Nat
    BY DEF Typed, Table
  <2>2. Done3(At, next, scopes, sc) /\ sc \in Seq(Scope)
    BY <1>1, <1>2, <1>3, <2>1, Pass3
  <2> QED BY <2>2
<1> HIDE DEF sc
<1>5. last' \in TypeNames
  BY <1>1, <1>2, <1>4, Nodes_, ExprTypes
<1>6. View(At, scopes, scopes') = sc /\ Reads(At) = NamesIn(At.expr)
  BY <1>1, <1>2 DEF View, Reads, Uttered
<1>7. fn' = CASE At.node = "fn"  -> next
              [] At.node = "end" -> IF Label = "fn" THEN 0 ELSE fn
              [] OTHER           -> fn
  BY <1>1, <1>2
<1> QED BY <1>1, <1>2, <1>3, <1>5, <1>6, <1>7, CheckVisits DEF Rechecked

LEMMA ChecksEnd ==
  ASSUME Typed, UNCHANGED pool, CheckEnd
  PROVE  Rechecked
<1>1. /\ Checking({"end"}) /\ scopes' = leaveScope(scopes)
      /\ fn' = IF Label = "fn" THEN 0 ELSE fn
      /\ (\E S : Fault(3, next, S)) \/ errors' = errors
      /\ UNCHANGED <<returned, last, found>>
  BY DEF CheckEnd
<1>2. At \in LogNode /\ At.node = "end"
  BY <1>1, CheckVisits
<1> HIDE DEF At
<1>3. Redone(At, next, scopes, scopes')
  BY <1>1, <1>2 DEF Redone
<1>4. /\ found' = found \cup Uses(3, View(At, scopes, scopes'), next, Reads(At))
      /\ \E S : Fault(3, next, S)
  BY <1>1, <1>2, Silent, NoFault
<1>5. fn' = CASE At.node = "fn"  -> next
              [] At.node = "end" -> IF Label = "fn" THEN 0 ELSE fn
              [] OTHER           -> fn
  BY <1>1, <1>2
<1> QED BY <1>1, <1>3, <1>4, <1>5, CheckVisits DEF Rechecked

-----------------------------------------------------------------------------
(***************************************************************************)
(* Before, between and after the passes.                                   *)
(***************************************************************************)

\* As long as there is no node, the table is the whole history.
LEMMA Unlived ==
  ASSUME log = <<>>, Table(scopes), Len(scopes) = 1, found = {}, ~Checked,
         HoistedBy(Front, scopes[1]),
         errors = {<<1, k, "redefinition">> : k \in {i \in HoistFaults : i < Front}}
  PROVE  \E H : History(H)
<1> DEFINE Tables == {t \in Seq(Scope) : Table(t)}
<1>1. PICK H : H = <<scopes>>
  OBVIOUS
<1>2. scopes \in Tables
  BY DEF Table
<1>3. H \in Seq(Tables) /\ Len(H) = 1 /\ H[1] = scopes /\ DOMAIN H = {1}
  <2> HIDE DEF Tables
  <2> QED BY <1>1, <1>2
<1>4. Len(log) = 0 /\ DOMAIN log = {}
  OBVIOUS
<1>5. \A k \in DOMAIN H : Grown(H[k][1], H[Len(H)][1])
  BY <1>3 DEF Grown
<1>6. Lived(H)
  BY <1>3, <1>4, <1>5 DEF Lived
<1>7. Answered(H)
  BY <1>4 DEF Answered, Found2, Found3
<1>8. Reported(H)
  <2>1. /\ \A e \in errors : e = <<e[1], e[2], e[3]>> /\ e[1] = 1
        /\ \A k, what : <<1, k, what>> \in errors <=>
                        what = "redefinition" /\ k \in HoistFaults /\ k < Front
        /\ \A k, what : <<2, k, what>> \notin errors
    OBVIOUS
  <2> QED BY <1>4, <2>1 DEF Reported
<1>9. History(H)
  BY <1>3, <1>4, <1>6, <1>7, <1>8 DEF History
<1> QED BY <1>9

LEMMA InitHolds ==
  ASSUME Init
  PROVE  IInv
<1>1. /\ pool \in Pools /\ log = <<>> /\ pass = "hoist" /\ next = 1 /\ scopes = <<BuiltinScope>>
      /\ fn = 0 /\ returned = FALSE /\ last = Bare /\ stmts = 0 /\ found = {} /\ errors = {}
  BY DEF Init
<1>2. decls \in Seq(pool.decls) /\ Len(decls) \in 1 .. pool.maxDecls
  <2>1. PICK n \in 1 .. pool.maxDecls : decls \in [1 .. n -> pool.decls]
    BY DEF Init
  <2>2. n \in Nat
    BY <1>1, PoolsAssumption
  <2> QED BY <2>1, <2>2
<1>3. Table(scopes) /\ Len(scopes) = 1
  <2> DEFINE f == [x \in Builtins |-> Sym("function", FALSE, Any, 0, 0)]
  <2>1. Any \in TypeNames /\ FALSE \in BOOLEAN /\ 0 \in Int /\ 0 \in Nat
    BY DEF TypeNames
  <2>2. Sym("function", FALSE, Any, 0, 0) \in Symbol
    BY <2>1, Symbols
  <2>3. f \in [Builtins -> Symbol] /\ Builtins \in SUBSET Names
    BY <2>2, TypesAssumption
  <2> HIDE DEF f
  <2>4. f \in UNION {[S -> Symbol] : S \in SUBSET Names}
    BY <2>3
  <2>5. BuiltinScope \in Scope /\ BuiltinScope.label = "global"
    BY <2>4 DEF BuiltinScope, Scope, Labels, f
  <2>6. scopes \in Seq(Scope) /\ Len(scopes) = 1 /\ scopes[1] = BuiltinScope
        /\ DOMAIN scopes = {1}
    BY <1>1, <2>5
  <2> QED BY <2>5, <2>6 DEF Table
<1>4. ~Checked
  BY <1>1 DEF Checked
<1>5. \E H : History(H)
  <2>1. Front = 1
    BY <1>1 DEF Front
  <2>2. \A x : HoistedOf(x, 1) = {}
    BY DEF HoistedOf
  <2>3. HoistedBy(Front, scopes[1])
    <3>1. scopes[1].syms = [x \in Builtins |-> Sym("function", FALSE, Any, 0, 0)]
      BY <1>1 DEF BuiltinScope
    <3> QED BY <2>1, <2>2, <3>1 DEF HoistedBy
  <2>4. \A i \in HoistFaults : ~(i < 1)
    BY <1>2 DEF HoistFaults
  <2>5. errors = {<<1, k, "redefinition">> : k \in {i \in HoistFaults : i < Front}}
    BY <1>1, <2>1, <2>4
  <2> QED BY <1>1, <1>3, <1>4, <2>3, <2>5, Unlived
<1>6. stmts \in 0 .. pool.maxStmts
  BY <1>1, PoolsAssumption
<1>7. log \in Seq(LogNode) /\ Len(log) = 0
  BY <1>1
<1>8. Typed
  <2>1. next \in Nat \ {0} /\ next <= Len(decls) + 1
    BY <1>1, <1>2
  <2>2. next <= (IF pass \in {"hoist", "resolve"} THEN Len(decls) ELSE Len(log)) + 1
    BY <1>1, <2>1
  <2>3. last \in TypeNames /\ returned \in BOOLEAN
    BY <1>1 DEF TypeNames
  <2>4. fn \in 0 .. Len(log) /\ (fn = 0 <=> Len(scopes) = 1)
    BY <1>1, <1>3, <1>7
  <2>5. pass \in {"hoist", "resolve", "check", "done"} /\ pass # "done"
    BY <1>1
  <2> QED BY <1>1, <1>2, <1>3, <1>6, <1>7, <2>1, <2>2, <2>3, <2>4, <2>5 DEF Typed
<1> QED BY <1>5, <1>8 DEF IInv

\* While there is no node, only pass 1 has reported.
LEMMA OnlyHoisted ==
  ASSUME NEW H, Reported(H), DOMAIN log = {}, ~Checked
  PROVE  errors = {<<1, k, "redefinition">> : k \in {i \in HoistFaults : i < Front}}
<1>1. ASSUME NEW e \in errors PROVE e = <<1, e[2], e[3]>>
  <2>1. e = <<e[1], e[2], e[3]>> /\ e[1] \in {1, 2}
    BY DEF Reported
  <2>2. <<2, e[2], e[3]>> \notin errors
    BY DEF Reported
  <2> QED BY <2>1, <2>2
<1>2. \A k, what : <<1, k, what>> \in errors <=>
                  what = "redefinition" /\ k \in HoistFaults /\ k < Front
  BY DEF Reported
<1>3. ASSUME NEW e \in errors
      PROVE  e \in {<<1, k, "redefinition">> : k \in {i \in HoistFaults : i < Front}}
  <2>1. e = <<1, e[2], e[3]>>
    BY <1>1
  <2>2. e[3] = "redefinition" /\ e[2] \in HoistFaults /\ e[2] < Front
    BY <1>2, <2>1
  <2> QED BY <2>1, <2>2
<1> QED BY <1>2, <1>3

\* What one step of pass 1 adds to the table and reports.
LEMMA Hoists ==
  ASSUME Typed, Hoist, HoistedBy(next, scopes[1]), Len(scopes) = 1,
         errors = {<<1, k, "redefinition">> : k \in {i \in HoistFaults : i < next}}
  PROVE  /\ HoistedBy(next + 1, scopes'[1])
         /\ errors' = {<<1, k, "redefinition">> : k \in {i \in HoistFaults : i < next + 1}}
<1> DEFINE d == decls[next]
           sym == IF d.node = "fn" THEN Sym("function", FALSE, d.ret, Len(d.params), -next)
                                   ELSE Sym("type", FALSE, Bare, 0, -next)
           f == scopes[1]
<1>1. /\ next \in Nat \ {0} /\ next <= Len(decls) /\ Len(decls) \in Nat
      /\ DOMAIN decls = 1 .. Len(decls) /\ next \in DOMAIN decls
      /\ scopes \in Seq(Scope) /\ 1 \in DOMAIN scopes
  BY DEF Hoist, Typed, Table
<1>2. \A x : HoistedOf(x, next + 1)
            = HoistedOf(x, next) \cup (IF Hoisted(d) /\ d.name = x THEN {next} ELSE {})
  <2>1. 1 .. (next + 1) - 1 = (1 .. next - 1) \cup {next} /\ next \notin 1 .. next - 1
    BY <1>1
  <2> QED BY <2>1 DEF HoistedOf
<1>3. \A k \in HoistFaults : k \in Nat
  BY <1>1 DEF HoistFaults
<1>4. CASE ~Hoisted(d)
  <2>1. UNCHANGED <<scopes, errors>>
    BY <1>4 DEF Hoist
  <2>2. next \notin HoistFaults
    BY <1>4 DEF HoistFaults
  <2>3. \A i \in HoistFaults : i < next + 1 <=> i < next
    BY <1>1, <1>3, <2>2
  <2>4. \A x : HoistedOf(x, next + 1) = HoistedOf(x, next)
    BY <1>2, <1>4
  <2>5. HoistedBy(next + 1, scopes[1])
    BY <2>4 DEF HoistedBy, FirstOf
  <2>6. {i \in HoistFaults : i < next + 1} = {i \in HoistFaults : i < next}
    BY <2>3
  <2> QED BY <2>1, <2>5, <2>6
<1>5. CASE Hoisted(d)
  <2>1. /\ scopes' = define(scopes, d.name, sym)
        /\ errors' = errors \cup ({1} \X {next} \X If(InCurrent(scopes, d.name), "redefinition"))
    BY <1>5 DEF Hoist, Fault
  <2>2. InCurrent(scopes, d.name) <=> d.name \in DOMAIN f.syms
    BY DEF InCurrent
  <2>3. next \in HoistFaults <=> d.name \in DOMAIN f.syms
    <3>1. d.name \in DOMAIN f.syms <=> d.name \in Builtins \/ HoistedOf(d.name, next) # {}
      BY DEF HoistedBy
    <3> HIDE DEF f
    <3> QED BY <1>1, <1>5, <3>1 DEF HoistFaults, HoistedOf
  <2>4. errors' = {<<1, k, "redefinition">> : k \in {i \in HoistFaults : i < next + 1}}
    <3>1. \A i \in HoistFaults : i < next + 1 <=> i < next \/ i = next
      BY <1>1, <1>3
    <3> HIDE DEF f, d
    <3>2. CASE d.name \in DOMAIN f.syms
      <4>1. If(InCurrent(scopes, d.name), "redefinition") = {"redefinition"}
        BY <2>2, <3>2 DEF If
      <4>2. {i \in HoistFaults : i < next + 1} = {i \in HoistFaults : i < next} \cup {next}
        BY <2>3, <3>1, <3>2
      <4>3. {1} \X {next} \X {"redefinition"} = {<<1, next, "redefinition">>}
        OBVIOUS
      <4> QED BY <2>1, <4>1, <4>2, <4>3
    <3>3. CASE d.name \notin DOMAIN f.syms
      <4>1. If(InCurrent(scopes, d.name), "redefinition") = {}
        BY <2>2, <3>3 DEF If
      <4>2. {i \in HoistFaults : i < next + 1} = {i \in HoistFaults : i < next}
        BY <2>3, <3>1, <3>3
      <4> QED BY <2>1, <4>1, <4>2
    <3> QED BY <3>2, <3>3
  <2>5. HoistedBy(next + 1, scopes'[1])
    <3>1. CASE d.name \in DOMAIN f.syms
      <4>1. scopes' = scopes
        BY <2>1, <2>2, <3>1 DEF define
      <4>2. ASSUME NEW x
            PROVE  x \in DOMAIN f.syms <=> x \in Builtins \/ HoistedOf(x, next + 1) # {}
        BY <1>2, <3>1 DEF HoistedBy
      <4>3. ASSUME NEW x \in DOMAIN f.syms, FirstOf(x, next, f.syms[x])
            PROVE  FirstOf(x, next + 1, f.syms[x])
        <5>1. -f.syms[x].at \in 1 .. next - 1
          BY <4>3 DEF FirstOf, HoistedOf
        <5>2. \A k \in HoistedOf(x, next + 1) : k \in HoistedOf(x, next) \/ k = next
          BY <1>2
        <5>3. \A k \in HoistedOf(x, next + 1) : -f.syms[x].at <= k
          <6> DEFINE a == -f.syms[x].at
          <6>1. a \in 1 .. next - 1 /\ \A k \in HoistedOf(x, next) : a <= k
            BY <4>3, <5>1 DEF FirstOf
          <6> HIDE DEF a
          <6>2. a <= next
            BY <1>1, <6>1
          <6>3. \A k \in HoistedOf(x, next + 1) : a <= k
            BY <5>2, <6>1, <6>2
          <6> QED BY <6>3 DEF a
        <5> HIDE DEF f, d
        <5> QED BY <1>2, <4>3, <5>3 DEF FirstOf
      <4> HIDE DEF f, d
      <4>4. \A x \in DOMAIN f.syms : \/ x \in Builtins /\ f.syms[x] = Sym("function", FALSE, Any, 0, 0)
                                     \/ FirstOf(x, next + 1, f.syms[x])
        <5>1. HoistedBy(next, f)
          BY DEF f
        <5> QED BY <4>3, <5>1 DEF HoistedBy
      <4>5. HoistedBy(next + 1, f)
        BY <4>2, <4>4 DEF HoistedBy
      <4> QED BY <4>1, <4>5 DEF f
    <3>2. CASE d.name \notin DOMAIN f.syms
      <4> DEFINE g == scopes'[1]
      <4>1. g.syms = [x \in DOMAIN f.syms \cup {d.name} |-> IF x = d.name THEN sym ELSE f.syms[x]]
        <5> HIDE DEF sym, d
        <5>1. scopes' = [scopes EXCEPT ![1].syms =
                [x \in DOMAIN f.syms \cup {d.name} |-> IF x = d.name THEN sym ELSE f.syms[x]]]
          BY <2>1, <2>2, <3>2 DEF define
        <5>2. scopes[1] \in Scope
          <6>1. \A t \in Seq(Scope) : 1 \in DOMAIN t => t[1] \in Scope
            OBVIOUS
          <6> QED BY <1>1, <6>1
        <5> QED BY <1>1, <5>1, <5>2 DEF Scope
      <4>2. HoistedBy(next, f)
        BY DEF f
      <4>3. d.name \notin Builtins /\ HoistedOf(d.name, next) = {}
        BY <3>2, <4>2 DEF HoistedBy
      <4>4. HoistedOf(d.name, next + 1) = {next}
        BY <1>2, <1>5, <4>3
      <4>5. FirstOf(d.name, next + 1, sym)
        <5>1. sym.at = -next /\ sym.kind = (IF d.node = "fn" THEN "function" ELSE "type")
              /\ (d.node = "fn" => sym.type = d.ret /\ sym.arity = Len(d.params))
          <6> HIDE DEF d
          <6> QED BY DEF sym, Sym
        <5> HIDE DEF sym
        <5>2. sym.at < 0 /\ -sym.at = next /\ next <= next
          <6>1. \A m \in Nat \ {0} : -m < 0 /\ -(-m) = m /\ m <= m
            OBVIOUS
          <6> QED BY <1>1, <5>1, <6>1
        <5>3. sym.kind \in {"function", "type"} /\ (sym.kind = "function" <=> d.node = "fn")
          BY <5>1
        <5> QED BY <4>3, <4>4, <5>1, <5>2, <5>3 DEF FirstOf
      <4> HIDE DEF f, g, sym
      <4>6. \A x : x \in DOMAIN g.syms <=> x \in Builtins \/ HoistedOf(x, next + 1) # {}
        <5> HIDE DEF d
        <5>1. \A x : x # d.name => HoistedOf(x, next + 1) = HoistedOf(x, next)
          BY <1>2
        <5> QED BY <4>1, <4>2, <4>4, <5>1 DEF HoistedBy
      <4>7. ASSUME NEW x \in DOMAIN g.syms
            PROVE  \/ x \in Builtins /\ g.syms[x] = Sym("function", FALSE, Any, 0, 0)
                   \/ FirstOf(x, next + 1, g.syms[x])
        <5>1. CASE x = d.name
          BY <4>1, <4>5, <5>1
        <5>2. CASE x # d.name
          <6>1. x \in DOMAIN f.syms /\ g.syms[x] = f.syms[x]
            BY <4>1, <4>7, <5>2
          <6>2. HoistedOf(x, next + 1) = HoistedOf(x, next)
            BY <1>2, <5>2
          <6> HIDE DEF d
          <6> QED BY <4>2, <6>1, <6>2 DEF HoistedBy, FirstOf
        <5> QED BY <5>1, <5>2
      <4>8. HoistedBy(next + 1, g)
        BY <4>6, <4>7 DEF HoistedBy
      <4> QED BY <4>8 DEF g
    <3> QED BY <3>1, <3>2
  <2> QED BY <2>4, <2>5
<1> QED BY <1>4, <1>5

LEMMA HoistKept ==
  ASSUME IInv, UNCHANGED pool, Hoist
  PROVE  IInv'
<1>1. /\ pass = "hoist" /\ next <= Len(decls) /\ next' = next + 1
      /\ UNCHANGED <<decls, log, pass, fn, returned, last, stmts, found>>
  BY DEF Hoist
<1>2. Typed
  BY DEF IInv
<1>3. /\ pool \in Pools /\ decls \in Seq(pool.decls) /\ Len(decls) \in 1 .. pool.maxDecls
      /\ Table(scopes) /\ next \in Nat \ {0} /\ log = <<>> /\ fn = 0
      /\ (fn = 0 <=> Len(scopes) = 1)
      /\ returned \in BOOLEAN /\ last \in TypeNames /\ stmts \in 0 .. pool.maxStmts
  BY <1>1, <1>2 DEF Typed
<1>4. scopes \in Seq(Scope) /\ Len(scopes) = 1
  BY <1>3 DEF Table
<1>5. Table(scopes') /\ Len(scopes') = 1
  <2> DEFINE d == decls[next]
             sym == IF d.node = "fn" THEN Sym("function", FALSE, d.ret, Len(d.params), -next)
                                     ELSE Sym("type", FALSE, Bare, 0, -next)
  <2>1. \/ scopes' = define(scopes, d.name, sym) /\ Hoisted(d)
        \/ scopes' = scopes
    BY DEF Hoist
  <2>2. CASE scopes' = scopes
    BY <1>3, <1>4, <2>2
  <2>3. CASE scopes' = define(scopes, d.name, sym) /\ Hoisted(d)
    <3>1. d \in Decl
      <4>1. d \in pool.decls
        BY <1>1, <1>3
      <4> QED BY <1>3, <4>1, PoolsAssumption
    <3>2. d \in LogNode
      BY <3>1 DEF LogNode
    <3> HIDE DEF d
    <3>3. -next \in Int /\ FALSE \in BOOLEAN /\ 0 \in Nat /\ Bare \in TypeNames
      BY <1>3 DEF TypeNames
    <3>4. sym \in Symbol /\ d.name \in Names
      <4>1. CASE d.node = "fn"
        <5>1. d.ret \in TypeNames /\ Len(d.params) \in Nat /\ d.name \in Names
          BY <3>2, <4>1, Nodes_ DEF TypeNames
        <5>2. Sym("function", FALSE, d.ret, Len(d.params), -next) \in Symbol
          BY <3>3, <5>1, Symbols
        <5> QED BY <4>1, <5>1, <5>2
      <4>2. CASE d.node = "type"
        <5>1. Sym("type", FALSE, Bare, 0, -next) \in Symbol
          BY <3>3, Symbols
        <5> QED BY <3>2, <4>2, <5>1, Nodes_
      <4> QED BY <2>3, <4>1, <4>2 DEF Hoisted
    <3> HIDE DEF sym
    <3>5. scopes' \in Seq(Scope) /\ Widened(scopes, scopes', d.name, sym.at)
      BY <1>4, <2>3, <3>4, Widening
    <3>6. Table(scopes')
      BY <1>3, <1>4, <3>5, TableKept
    <3> QED BY <1>4, <3>5, <3>6 DEF Widened
  <2> QED BY <2>1, <2>2, <2>3
<1>6. found = {}
  <2>1. PICK H : History(H)
    BY DEF IInv
  <2>2. /\ \A f \in found : f = <<f[1], f[2], f[3], f[4]>> /\ f[1] \in {2, 3}
        /\ Found2(H) /\ Found3 /\ ~Checked
    BY <1>1, <2>1 DEF History, Answered, Checked
  <2>3. DOMAIN log = {}
    BY <1>3
  <2>4. ASSUME NEW f \in found PROVE FALSE
    <3>1. <<f[1], f[2], f[3], f[4]>> \in found
      BY <2>2
    <3>2. f[1] # 2
      <4>1. SUFFICES ASSUME f[1] = 2 PROVE FALSE
        OBVIOUS
      <4>2. <<2, f[2], f[3], f[4]>> \in found
        BY <3>1, <4>1
      <4> QED BY <2>2, <2>3, <4>2 DEF Found2
    <3>3. f[1] # 3
      <4>1. SUFFICES ASSUME f[1] = 3 PROVE FALSE
        OBVIOUS
      <4>2. <<3, f[2], f[3], f[4]>> \in found
        BY <3>1, <4>1
      <4> QED BY <2>2, <4>2 DEF Found3
    <3> QED BY <2>2, <3>2, <3>3
  <2> QED BY <2>4
<1>7. (\E H : History(H))'
  <2>1. log' = <<>> /\ found' = {} /\ ~Checked'
    BY <1>1, <1>3, <1>6 DEF Checked
  <2>2. Front = next /\ Front' = next + 1 /\ HoistFaults' = HoistFaults
    BY <1>1 DEF Front, HoistFaults
  <2>3. PICK G : History(G)
    BY DEF IInv
  <2>4. G[1] = scopes /\ Reported(G) /\ HoistedBy(next, scopes[1])
    <3>1. ~Checked /\ Len(log) = 0
      BY <1>1, <1>3 DEF Checked
    <3>2. Len(G) = 1
      BY <2>3, <3>1 DEF History, Lived
    <3> QED BY <2>2, <2>3, <3>1, <3>2 DEF History
  <2>5. errors = {<<1, k, "redefinition">> : k \in {i \in HoistFaults : i < next}}
    <3>1. DOMAIN log = {}
      BY <1>3
    <3>2. ~Checked
      BY <1>1 DEF Checked
    <3> QED BY <2>2, <2>4, <3>1, <3>2, OnlyHoisted
  <2>6. /\ HoistedBy(next + 1, scopes'[1])
        /\ errors' = {<<1, k, "redefinition">> : k \in {i \in HoistFaults : i < next + 1}}
    BY <1>2, <1>4, <2>4, <2>5, Hoists
  <2>7. HoistedBy(Front, scopes[1])'
    BY <1>1, <2>2, <2>6 DEF HoistedBy, HoistedOf, FirstOf
  <2>8. errors' = {<<1, k, "redefinition">> : k \in {i \in HoistFaults' : i < Front'}}
    BY <2>2, <2>6
  <2>9. (log = <<>> /\ Table(scopes) /\ Len(scopes) = 1 /\ found = {} /\ ~Checked
         /\ HoistedBy(Front, scopes[1])
         /\ errors = {<<1, k, "redefinition">> : k \in {i \in HoistFaults : i < Front}}
         => \E H : History(H))'
    BY Unlived, PTL
  <2> QED BY <1>5, <2>1, <2>7, <2>8, <2>9
<1>8. Typed'
  <2>1. next' \in Nat \ {0} /\ next' <= Len(decls') + 1
    BY <1>1, <1>3
  <2>2. next' <= (IF pass' \in {"hoist", "resolve"} THEN Len(decls') ELSE Len(log')) + 1
    BY <1>1, <2>1
  <2>3. log' \in Seq(LogNode) /\ fn' \in 0 .. Len(log') /\ (fn' = 0 <=> Len(scopes') = 1)
    BY <1>1, <1>3, <1>5
  <2>4. pass' \in {"hoist", "resolve", "check", "done"} /\ pass' # "done"
    BY <1>1
  <2> QED BY <1>1, <1>3, <1>5, <2>1, <2>2, <2>3, <2>4 DEF Typed
<1> QED BY <1>7, <1>8 DEF IInv

LEMMA StartResolveKept ==
  ASSUME IInv, UNCHANGED pool, StartResolve
  PROVE  IInv'
<1>1. /\ pass = "hoist" /\ pass' = "resolve" /\ next' = 1
      /\ UNCHANGED <<decls, log, scopes, fn, returned, last, stmts, found, errors>>
  BY DEF StartResolve
<1>2. Typed
  BY DEF IInv
<1>3. PICK H : History(H)
  BY DEF IInv
<1>4. ~Checked /\ ~Checked'
  BY <1>1 DEF Checked
<1>5. Typed'
  <2>1. /\ pool \in Pools /\ decls \in Seq(pool.decls) /\ Len(decls) \in 1 .. pool.maxDecls
        /\ log \in Seq(LogNode) /\ Table(scopes)
        /\ fn \in 0 .. Len(log) /\ (fn = 0 <=> Len(scopes) = 1)
        /\ returned \in BOOLEAN /\ last \in TypeNames /\ stmts \in 0 .. pool.maxStmts
    BY <1>2 DEF Typed
  <2>2. next' \in Nat \ {0} /\ next' <= Len(decls') + 1
    BY <1>1, <2>1
  <2>3. next' <= (IF pass' \in {"hoist", "resolve"} THEN Len(decls') ELSE Len(log')) + 1
    BY <1>1, <2>2
  <2>4. pass' \in {"hoist", "resolve", "check", "done"} /\ pass' # "done" /\ pass' # "hoist"
    BY <1>1
  <2> QED BY <1>1, <2>1, <2>2, <2>3, <2>4 DEF Typed
<1>6. /\ Lived(H) /\ Answered(H) /\ H[Len(H)] = scopes
      /\ Reported(H) /\ HoistedBy(Front, H[1][1])
  BY <1>3, <1>4 DEF History
<1>7. Lived(H)'
  BY <1>1, <1>6 DEF Lived
<1>8. Answered(H)'
  <2>1. Found3'
    BY <1>1, <1>4, <1>6 DEF Answered, Found3
  <2> QED BY <1>1, <1>6, <2>1 DEF Answered, Found2
<1>9. Reported(H)' /\ HoistedBy(Front, H[1][1])'
  <2>1. next <= Len(decls) + 1 /\ next > Len(decls) /\ next \in Nat /\ Len(decls) \in Nat
    BY <1>1, <1>2 DEF Typed, StartResolve
  <2>2. Front = Len(decls) + 1 /\ Front' = Len(decls) + 1
    BY <1>1, <2>1 DEF Front
  <2> QED BY <1>1, <1>4, <1>6, <2>2, Unreported
<1>10. H[Len(H)] = scopes'
  BY <1>1, <1>6
<1>11. History(H)'
  BY <1>4, <1>7, <1>8, <1>9, <1>10 DEF History
<1> QED BY <1>5, <1>11 DEF IInv

\* Pass 3 begins where pass 2 did, with the global scope alone.
LEMMA StartCheckKept ==
  ASSUME IInv, UNCHANGED pool, StartCheck
  PROVE  IInv'
<1>1. /\ pass = "resolve" /\ fn = 0 /\ pass' = "check" /\ next' = 1
      /\ UNCHANGED <<decls, log, scopes, fn, returned, last, stmts, found, errors>>
  BY DEF StartCheck
<1>2. Typed
  BY DEF IInv
<1>3. PICK H : History(H)
  BY DEF IInv
<1>4. ~Checked /\ Checked'
  BY <1>1 DEF Checked
<1>5. /\ pool \in Pools /\ decls \in Seq(pool.decls) /\ Len(decls) \in 1 .. pool.maxDecls
      /\ log \in Seq(LogNode) /\ Table(scopes) /\ Len(scopes) = 1
      /\ fn \in 0 .. Len(log) /\ (fn = 0 <=> Len(scopes) = 1)
      /\ returned \in BOOLEAN /\ last \in TypeNames /\ stmts \in 0 .. pool.maxStmts
  BY <1>1, <1>2 DEF Typed
<1>6. Typed'
  <2>1. next' \in Nat \ {0} /\ next' <= Len(log') + 1
    BY <1>1, <1>5
  <2>2. next' <= (IF pass' \in {"hoist", "resolve"} THEN Len(decls') ELSE Len(log')) + 1
    BY <1>1, <2>1
  <2>3. pass' \in {"hoist", "resolve", "check", "done"} /\ pass' # "done" /\ pass' # "hoist"
    BY <1>1
  <2> QED BY <1>1, <1>5, <2>1, <2>2, <2>3 DEF Typed
<1>7. /\ Lived(H) /\ Answered(H) /\ H[Len(H)] = scopes
      /\ Reported(H) /\ HoistedBy(Front, H[1][1])
  BY <1>3, <1>4 DEF History
<1>8. Lived(H)'
  BY <1>1, <1>7 DEF Lived
<1>9. \A k, x, ids : <<3, k, x, ids>> \notin found
  BY <1>4, <1>7 DEF Answered, Found3
<1>10. Answered(H)'
  <2>1. Found3'
    BY <1>1, <1>9 DEF Found3
  <2> QED BY <1>1, <1>7, <2>1 DEF Answered, Found2
<1>11. /\ H[1] \in Seq(Scope) /\ Table(H[1]) /\ Len(H[1]) = 1
  <2> DEFINE Tables == {t \in Seq(Scope) : Table(t)}
  <2>1. H \in Seq(Tables) /\ Len(H) = Len(log) + 1 /\ Len(H[1]) = 1
    BY <1>7 DEF Lived
  <2>2. 1 \in DOMAIN H
    BY <1>5, <2>1
  <2>3. H[1] \in Tables
    BY <2>1, <2>2
  <2> QED BY <2>1, <2>3
<1>12. DOMAIN H[1] = {1} /\ DOMAIN scopes = {1}
  BY <1>5, <1>11 DEF Table
<1>13. Aligned(scopes', H[next']) /\ scopes'[1] = H[Len(H)][1]
  <2>1. Aligned(scopes, H[1])
    BY <1>5, <1>11, <1>12 DEF Table, Aligned
  <2> QED BY <1>1, <1>7, <2>1
<1>14. Alike(log', scopes', H[next'])
  BY <1>1, <1>12 DEF Alike
<1>15. Same3(H)'
  <2>1. \A k \in DOMAIN log' : ~(k < next')
    BY <1>1, <1>5
  <2> QED BY <2>1 DEF Same3
<1>16. Reported(H)' /\ HoistedBy(Front, H[1][1])'
  <2>1. Front' = Front
    BY <1>1 DEF Front
  <2> QED BY <1>1, <1>4, <1>7, <2>1, Unreported
<1>17. History(H)'
  BY <1>4, <1>8, <1>10, <1>13, <1>14, <1>15, <1>16 DEF History
<1> QED BY <1>6, <1>17 DEF IInv

\* Pass 3 ends, or nothing happens.
LEMMA FinishKept ==
  ASSUME IInv, UNCHANGED <<pool, decls, log, next, scopes, fn, returned, last, stmts, found, errors>>,
         pass' = pass \/ (pass = "check" /\ pass' = "done" /\ next > Len(log))
  PROVE  IInv'
<1>1. Typed
  BY DEF IInv
<1>2. PICK H : History(H)
  BY DEF IInv
<1>3. Checked' <=> Checked
  BY DEF Checked
<1>4. Typed'
  <2>1. CASE pass' = pass
    BY <1>1, <2>1 DEF Typed
  <2>2. CASE pass = "check" /\ pass' = "done" /\ next > Len(log)
    <3>1. /\ next \in Nat /\ log \in Seq(LogNode)
          /\ next <= (IF pass \in {"hoist", "resolve"} THEN Len(decls) ELSE Len(log)) + 1
      BY <1>1 DEF Typed
    <3>2. next <= Len(log) + 1 /\ Len(log) \in Nat
      BY <2>2, <3>1
    <3>3. next = Len(log) + 1
      BY <2>2, <3>1, <3>2
    <3>4. next' <= (IF pass' \in {"hoist", "resolve"} THEN Len(decls') ELSE Len(log')) + 1
      BY <2>2, <3>2
    <3>5. pass' \in {"hoist", "resolve", "check", "done"} /\ pass' # "hoist"
      BY <2>2
    <3> QED BY <1>1, <3>3, <3>4, <3>5 DEF Typed
  <2> QED BY <2>1, <2>2
<1>5. Lived(H)'
  BY <1>2 DEF History, Lived
<1>6. Answered(H)' /\ (Same3(H)' <=> Same3(H)) /\ (NoNameFaults' <=> NoNameFaults)
  <2>1. Found3' <=> Found3
    BY <1>3 DEF Found3
  <2> QED BY <1>2, <2>1 DEF History, Answered, Found2, Same3, NoNameFaults
<1>7. Reported(H)' /\ HoistedBy(Front, H[1][1])'
  <2>1. Front' = Front
    BY DEF Front
  <2> QED BY <1>2, <1>3, <2>1, Unreported DEF History
<1>8. History(H)'
  BY <1>2, <1>3, <1>5, <1>6, <1>7 DEF History
<1> QED BY <1>4, <1>8 DEF IInv

LEMMA StepKept ==
  ASSUME IInv, [Next]_vars
  PROVE  IInv'
<1>1. Typed
  BY DEF IInv
<1>2. CASE UNCHANGED vars
  BY <1>2, FinishKept DEF vars
<1>3. CASE Next
  <2>1. UNCHANGED pool
    BY <1>3 DEF Next
  <2>2. ASSUME NEW d \in pool.decls,
               \/ VisitFunctionDecl(d) \/ VisitImportDecl(d)
               \/ VisitTypeDecl(d) \/ VisitGlobal(d)
        PROVE  IInv'
    BY <1>1, <2>1, <2>2, VisitsFunctionDecl, VisitsImportDecl, VisitsTypeDecl,
       VisitsGlobal, VisitKept
  <2>3. ASSUME NEW d \in pool.locals, VisitVarDecl(d) PROVE IInv'
    BY <1>1, <2>1, <2>3, VisitsVarDecl, VisitKept
  <2>4. ASSUME NEW e \in pool.exprs, NEW kind \in {"expr", "cond"}, VisitExpr(kind, e)
        PROVE  IInv'
    BY <1>1, <2>1, <2>4, VisitsExpr, VisitKept
  <2>5. ASSUME NEW x \in pool.names, NEW e \in pool.exprs, VisitAssign(x, e) \/ VisitFor(x, e)
        PROVE  IInv'
    BY <1>1, <2>1, <2>5, VisitsAssign, VisitsFor, VisitKept
  <2>6. ASSUME NEW e \in pool.exprs \cup {None}, VisitReturn(e) PROVE IInv'
    BY <1>1, <2>1, <2>6, VisitsReturn, VisitKept
  <2>7. CASE VisitBody \/ VisitBlock \/ Leave
    BY <1>1, <2>1, <2>7, VisitsBody, VisitsBlock, VisitsEnd, VisitKept
  <2>8. CASE \/ CheckFunctionDecl \/ CheckOtherDecl \/ CheckVarDecl \/ CheckExpr
             \/ CheckAssign \/ CheckReturn \/ CheckBlock \/ CheckFor \/ CheckEnd
    BY <1>1, <2>1, <2>8, ChecksFunctionDecl, ChecksOtherDecl, ChecksVarDecl, ChecksExpr,
       ChecksAssign, ChecksReturn, ChecksBlock, ChecksFor, ChecksEnd, RecheckKept
  <2>9. CASE Hoist \/ StartResolve \/ StartCheck
    BY <2>1, <2>9, HoistKept, StartResolveKept, StartCheckKept
  <2>10. CASE Finish
    BY <2>1, <2>10, FinishKept DEF Finish
  <2>11. CASE Done
    BY <2>11, FinishKept DEF Done, vars
  <2> QED BY <1>3, <2>2, <2>3, <2>4, <2>5, <2>6, <2>7, <2>8, <2>9, <2>10, <2>11
      DEF Next, Step
<1> QED BY <1>2, <1>3

LEMMA IInvHolds == Spec => []IInv
<1>1. Init => IInv
  BY InitHolds
<1>2. IInv /\ [Next]_vars => IInv'
  BY StepKept
<1> QED BY <1>1, <1>2, PTL DEF Spec

-----------------------------------------------------------------------------
(***************************************************************************)
(* TypeOK of Sema, for every module: the symbol table is never empty, its  *)
(* first scope and no other is the global one ("Cannot pop the global      *)
(* scope", SymbolTable.cpp:45), and outside of a function it is alone,     *)
(* when pass 3 takes over the table of pass 2 as well as before.           *)
(***************************************************************************)
THEOREM SemaTypes == Spec => []TypeOK
<1>1. Typed => TypeOK
  <2>1. SUFFICES ASSUME Typed PROVE TypeOK
    OBVIOUS
  <2>2. /\ pool \in Pools /\ decls \in Seq(pool.decls) /\ Len(decls) \in 1 .. pool.maxDecls
        /\ log \in Seq(LogNode) /\ Table(scopes)
        /\ pass \in {"hoist", "resolve", "check", "done"} /\ next \in Nat \ {0}
        /\ next <= (IF pass \in {"hoist", "resolve"} THEN Len(decls) ELSE Len(log)) + 1
        /\ fn \in 0 .. Len(log) /\ (fn = 0 <=> Len(scopes) = 1)
        /\ returned \in BOOLEAN /\ last \in TypeNames /\ stmts \in 0 .. pool.maxStmts
    BY <2>1 DEF Typed
  <2>3. next \in 1 .. Len(decls) + Len(log) + 1
    <3>1. next <= Len(decls) + 1 \/ next <= Len(log) + 1
      BY <2>2
    <3>2. Len(decls) \in Nat /\ Len(log) \in Nat
      BY <2>2
    <3> QED BY <2>2, <3>1, <3>2
  <2>4. ASSUME NEW i \in DOMAIN scopes
        PROVE  IsScope(scopes[i]) /\ (scopes[i].label = "global" <=> i = 1)
    <3>1. scopes[i] \in Scope /\ (scopes[i].label = "global" <=> i = 1)
      BY <2>2 DEF Table
    <3> QED BY <3>1, ScopeFields DEF IsScope, Labels
  <2>5. Len(scopes) > 0
    BY <2>2 DEF Table
  <2> QED BY <2>2, <2>3, <2>4, <2>5 DEF TypeOK, TypeNames
<1>2. IInv => TypeOK
  BY <1>1 DEF IInv
<1> QED BY <1>2, IInvHolds, PTL

(***************************************************************************)
(* Whatever the module is, if passes 1 and 2 find no fault of names, pass  *)
(* 3 finds the same declaration for every use of a name as pass 2 did,     *)
(* although it looks the names up in a table it builds again on top of a   *)
(* complete global scope: "It runs after the SemanticAnalyzer has resolved *)
(* all names" (TypeChecker.h:19).                                          *)
(***************************************************************************)
THEOREM SameDeclarations == Spec => []PassesAgree
<1>1. IInv => PassesAgree
  <2>1. SUFFICES ASSUME IInv, pass = "done", Of(1) \cup Of(2) = {}
                 PROVE  LET implied == {<<r[1], r[2]>> : r \in Implied(Resolutions(2))}
                            Others(p) == {r \in Resolutions(p) : <<r[1], r[2]>> \notin implied}
                        IN  Others(2) = Others(3)
    BY DEF PassesAgree
  <2> DEFINE implied == {<<r[1], r[2]>> : r \in Implied(Resolutions(2))}
             ids(H, k, x) == Ids(lookup(View(log[k], H[k], H[k + 1]), x))
  <2>2. PICK H : Typed /\ History(H)
    BY <2>1 DEF IInv
  <2>3. NoNameFaults
    BY <2>1 DEF NoNameFaults, Of
  <2>4. Checked /\ \A k \in DOMAIN log : k < next
    BY <2>1, <2>2 DEF Typed, Checked
  <2>5. /\ \A f \in found : f = <<f[1], f[2], f[3], f[4]>>
        /\ Found2(H) /\ Found3 /\ Same3(H)
    BY <2>2, <2>3, <2>4 DEF History, Answered
  <2>6. ASSUME NEW p
        PROVE  \A k, x, z : <<k, x, z>> \in Resolutions(p) <=> <<p, k, x, z>> \in found
    BY <2>5 DEF Resolutions
  <2>7. \A p : \A r \in Resolutions(p) : r = <<r[1], r[2], r[3]>>
    BY DEF Resolutions
  <2>8. \A k, x, z : <<2, k, x, z>> \in found <=>
          k \in DOMAIN log /\ x \in Reads(log[k]) /\ z = ids(H, k, x)
    BY <2>5 DEF Found2
  <2>9. \A k \in DOMAIN log : \A x \in Reads(log[k]) :
          \/ \E d \in ids(H, k, x) : Implicit(log, d)
          \/ \A z : <<3, k, x, z>> \in found <=> z = ids(H, k, x)
    BY <2>4, <2>5 DEF Same3
  <2>10. \A k, x, z : <<3, k, x, z>> \in found => k \in DOMAIN log /\ x \in Reads(log[k])
    BY <2>5 DEF Found3
  <2> HIDE DEF ids
  <2>11. ASSUME NEW k \in DOMAIN log, NEW x \in Reads(log[k]), <<k, x>> \notin implied
         PROVE  ~ \E d \in ids(H, k, x) : Implicit(log, d)
    <3>1. SUFFICES ASSUME NEW d \in ids(H, k, x), Implicit(log, d) PROVE FALSE
      OBVIOUS
    <3> DEFINE r == <<k, x, ids(H, k, x)>>
    <3>2. r \in Resolutions(2)
      BY <2>6, <2>8
    <3>3. r[3] = ids(H, k, x) /\ r[1] = k /\ r[2] = x
      OBVIOUS
    <3>4. r \in Implied(Resolutions(2))
      <4> HIDE DEF r
      <4> QED BY <3>1, <3>2, <3>3 DEF Implied, Implicit
    <3> QED BY <2>11, <3>3, <3>4
  <2> HIDE DEF implied
  <2>12. ASSUME NEW k, NEW x, NEW z, <<k, x>> \notin implied
         PROVE  <<k, x, z>> \in Resolutions(2) <=> <<k, x, z>> \in Resolutions(3)
    <3>1. CASE k \in DOMAIN log /\ x \in Reads(log[k])
      <4>1. \A w : <<3, k, x, w>> \in found <=> w = ids(H, k, x)
        BY <2>9, <2>11, <2>12, <3>1
      <4> QED BY <2>6, <2>8, <3>1, <4>1
    <3>2. CASE ~(k \in DOMAIN log /\ x \in Reads(log[k]))
      BY <2>6, <2>8, <2>10, <3>2
    <3> QED BY <3>1, <3>2
  <2>13. {r \in Resolutions(2) : <<r[1], r[2]>> \notin implied}
         = {r \in Resolutions(3) : <<r[1], r[2]>> \notin implied}
    BY <2>7, <2>12
  <2> QED BY <2>13 DEF implied
<1> QED BY <1>1, IInvHolds, PTL

-----------------------------------------------------------------------------
(***************************************************************************)
(* The symbol table of pass 2 is lexical scoping: what a lookup finds is   *)
(* what the rules of SemaRules, which know no table, say that the name     *)
(* means.                                                                  *)
(***************************************************************************)

\* Induction up to a bound.
LEMMA Upward ==
  ASSUME NEW n \in Nat, NEW T, 1 \in T, \A k \in 1 .. n : k \in T => k + 1 \in T
  PROVE  \A k \in 1 .. n + 1 : k \in T
<1> DEFINE B == {k \in 1 .. n + 1 : k \notin T}
<1> SUFFICES ASSUME B # {} PROVE FALSE
  OBVIOUS
<1>1. B \subseteq Nat
  OBVIOUS
<1>2. PICK k \in B : \A j \in B : k <= j
  <2> HIDE DEF B
  <2> QED BY <1>1, LeastExists
<1>3. k \in 1 .. n + 1 /\ k \notin T /\ k # 1
  BY <1>2
<1>4. k - 1 \in 1 .. n /\ k - 1 \notin B
  BY <1>2, <1>3
<1>5. k - 1 \in T /\ (k - 1) + 1 = k
  BY <1>3, <1>4
<1> QED BY <1>3, <1>4, <1>5

LEMMA Greatest_ ==
  ASSUME NEW T, T \subseteq Int, NEW m \in T, \A k \in T : k <= m
  PROVE  Greatest(T) = m
<1>1. \A i \in T : (\A j \in T : j <= i) => i = m
  BY SMT
<1>2. Greatest(T) \in T /\ \A j \in T : j <= Greatest(T)
  BY DEF Greatest
<1> QED BY <1>1, <1>2

LEMMA Least_ ==
  ASSUME NEW T, T \subseteq Int, NEW m \in T, \A k \in T : m <= k
  PROVE  Least(T) = m
<1>1. \A i \in T : (\A j \in T : i <= j) => i = m
  BY SMT
<1>2. Least(T) \in T /\ \A j \in T : Least(T) <= j
  BY DEF Least
<1> QED BY <1>1, <1>2

-----------------------------------------------------------------------------
(***************************************************************************)
(* A finished pass 2: its tables H before every node of log, on top of the *)
(* global scope that pass 1 left.                                          *)
(***************************************************************************)
Story(H) == Typed /\ Lived(H) /\ HoistedBy(Len(decls) + 1, H[1][1])

\* What is known of one step of pass 2.
LEMMA Steps ==
  ASSUME NEW H, Story(H)
  PROVE  /\ DOMAIN log = 1 .. Len(log) /\ DOMAIN H = 1 .. Len(log) + 1 /\ Len(log) \in Nat
         /\ Len(H[1]) = 1
         /\ \A k \in DOMAIN H : /\ H[k] \in Seq(Scope) /\ Table(H[k])
                                /\ Len(H[k]) \in Nat /\ Len(H[k]) > 0
                                /\ DOMAIN H[k] = 1 .. Len(H[k])
         /\ \A k \in DOMAIN log : /\ k \in Nat /\ k + 1 \in Nat /\ k \in DOMAIN H /\ k + 1 \in DOMAIN H
                                  /\ log[k] \in LogNode
                                  /\ Effect(log[k], k, H[k], H[k + 1])
                                  /\ Done2(log[k], k, H[k], H[k + 1])
<1>1. /\ log \in Seq(LogNode) /\ H \in Seq({t \in Seq(Scope) : Table(t)})
      /\ Len(H) = Len(log) + 1 /\ Len(H[1]) = 1
      /\ \A k \in DOMAIN log : Effect(log[k], k, H[k], H[k + 1])
  BY DEF Story, Typed, Lived
<1>2. /\ DOMAIN log = 1 .. Len(log) /\ DOMAIN H = 1 .. Len(log) + 1 /\ Len(log) \in Nat
      /\ \A k \in DOMAIN H : H[k] \in {t \in Seq(Scope) : Table(t)}
      /\ \A k \in DOMAIN log : log[k] \in LogNode
  BY <1>1
<1>3. \A k \in DOMAIN log : k \in Nat /\ k + 1 \in Nat /\ k \in DOMAIN H /\ k + 1 \in DOMAIN H
  BY <1>2
<1>4. \A k \in DOMAIN H : /\ H[k] \in Seq(Scope) /\ Table(H[k])
                          /\ Len(H[k]) \in Nat /\ Len(H[k]) > 0
                          /\ DOMAIN H[k] = 1 .. Len(H[k])
  BY <1>2 DEF Table
<1>5. ASSUME NEW k \in DOMAIN log PROVE Done2(log[k], k, H[k], H[k + 1])
  <2>1. log[k] \in LogNode /\ H[k] \in Seq(Scope) /\ Table(H[k]) /\ k \in Nat
    BY <1>2, <1>3, <1>4
  <2>2. Effect(log[k], k, H[k], H[k + 1])
    BY <1>1
  <2> QED BY <2>1, <2>2, Pass2
<1> QED BY <1>1, <1>2, <1>3, <1>4, <1>5

\* The depth of the table, node by node.
LEMMA Depths ==
  ASSUME NEW H, Story(H), NEW k \in DOMAIN log
  PROVE  Len(H[k + 1]) = Len(H[k]) + (IF Opens(k) THEN 1 ELSE IF log[k].node = "end" THEN -1 ELSE 0)
<1>1. Done2(log[k], k, H[k], H[k + 1]) /\ log[k] \in LogNode /\ Len(H[k]) \in Nat
  BY Steps
<1>2. CASE log[k].node \in {"fn", "block", "for"}
  <2>1. Len(H[k + 1]) = Len(H[k]) + 1
    BY <1>1, <1>2 DEF Done2, Opened
  <2> QED BY <1>2, <2>1 DEF Opens
<1>3. CASE log[k].node = "end"
  <2>1. Len(H[k + 1]) = Len(H[k]) - 1
    BY <1>1, <1>3 DEF Done2, Closed
  <2>2. ~Opens(k)
    BY <1>3 DEF Opens
  <2> QED BY <1>1, <1>3, <2>1, <2>2
<1>4. CASE log[k].node \in {"type", "expr", "cond", "return"}
  <2>1. Len(H[k + 1]) = Len(H[k]) /\ log[k].node # "end"
    BY <1>1, <1>4 DEF Done2
  <2>2. ~Opens(k)
    BY <1>4 DEF Opens
  <2> QED BY <1>1, <2>1, <2>2
<1>5. CASE log[k].node \in {"var", "import", "assign"}
  <2>1. Len(H[k + 1]) = Len(H[k]) /\ log[k].node # "end"
    BY <1>1, <1>5 DEF Done2, Widened
  <2>2. ~Opens(k)
    BY <1>5 DEF Opens
  <2> QED BY <1>1, <2>1, <2>2
<1> QED BY <1>1, <1>2, <1>3, <1>4, <1>5, Nodes_

\* The level of the rules is the depth of the table.
LEMMA Levels ==
  ASSUME NEW H, Story(H)
  PROVE  \A k \in DOMAIN H : Level(k) = Len(H[k]) - 1
<1> DEFINE opened(j) == {k \in 1 .. j - 1 : Opens(k)}
           ended(j)  == {k \in 1 .. j - 1 : log[k].node = "end"}
           T == {k \in DOMAIN H : Level(k) = Len(H[k]) - 1}
<1>1. /\ DOMAIN H = 1 .. Len(log) + 1 /\ Len(log) \in Nat /\ Len(H[1]) = 1
      /\ DOMAIN log = 1 .. Len(log)
      /\ \A k \in DOMAIN H : Len(H[k]) \in Nat
  BY Steps
<1>2. 1 \in T
  <2>1. opened(1) = {} /\ ended(1) = {}
    OBVIOUS
  <2>2. Level(1) = 0
    <3>1. Level(1) = Cardinality(opened(1)) - Cardinality(ended(1))
      BY DEF Level
    <3> HIDE DEF opened, ended
    <3>2. Level(1) = Cardinality({}) - Cardinality({})
      BY <2>1, <3>1
    <3> QED BY <3>2, FS_EmptySet
  <2>3. 1 \in DOMAIN H
    BY <1>1
  <2>4. Level(1) = Len(H[1]) - 1
    BY <1>1, <2>2
  <2> QED BY <2>3, <2>4
<1>3. ASSUME NEW k \in 1 .. Len(log), k \in T PROVE k + 1 \in T
  <2>1. k \in DOMAIN log /\ k \in Nat /\ (k + 1) - 1 = k /\ k + 1 \in DOMAIN H
    BY <1>1
  <2>2. /\ IsFiniteSet(1 .. k - 1)
    BY <2>1, FS_Interval
  <2>3. IsFiniteSet(opened(k)) /\ IsFiniteSet(ended(k))
    BY <2>2, FS_Subset
  <2>4. Cardinality(opened(k)) \in Nat /\ Cardinality(ended(k)) \in Nat
    BY <2>3, FS_CardinalityType
  <2>5. k \notin opened(k) /\ k \notin ended(k)
    BY <2>1
  <2>6. /\ opened(k + 1) = IF Opens(k) THEN opened(k) \cup {k} ELSE opened(k)
        /\ ended(k + 1) = IF log[k].node = "end" THEN ended(k) \cup {k} ELSE ended(k)
    <3>1. 1 .. (k + 1) - 1 = (1 .. k - 1) \cup {k}
      BY <2>1
    <3> QED BY <3>1
  <2>7. Level(k) = Cardinality(opened(k)) - Cardinality(ended(k))
    BY DEF Level
  <2>8. Level(k + 1) = Cardinality(opened(k + 1)) - Cardinality(ended(k + 1))
    BY DEF Level
  <2> HIDE DEF opened, ended
  <2>9. /\ Cardinality(opened(k) \cup {k}) = Cardinality(opened(k)) + 1
        /\ Cardinality(ended(k) \cup {k}) = Cardinality(ended(k)) + 1
    BY <2>3, <2>5, FS_AddElement
  <2>10. /\ Level(k) = Len(H[k]) - 1 /\ Len(H[k]) \in Nat
         /\ Len(H[k + 1]) = Len(H[k]) + (IF Opens(k) THEN 1 ELSE IF log[k].node = "end" THEN -1 ELSE 0)
    BY <1>1, <1>3, <2>1, Depths
  <2>11. ~(Opens(k) /\ log[k].node = "end")
    BY DEF Opens
  <2> HIDE DEF opened, ended, Level
  <2>12. Level(k + 1) = Level(k) + (IF Opens(k) THEN 1 ELSE IF log[k].node = "end" THEN -1 ELSE 0)
    BY <2>4, <2>6, <2>7, <2>8, <2>9, <2>11
  <2>13. Level(k + 1) = Len(H[k + 1]) - 1
    <3>1. \A a, b, c, d, i \in Int : a = b - 1 /\ c = b + i /\ d = a + i => d = c - 1
      OBVIOUS
    <3> DEFINE i == IF Opens(k) THEN 1 ELSE IF log[k].node = "end" THEN -1 ELSE 0
    <3>2. i \in Int /\ Len(H[k]) \in Int
      BY <2>10
    <3>3. /\ Level(k) = Len(H[k]) - 1 /\ Len(H[k + 1]) = Len(H[k]) + i
          /\ Level(k + 1) = Level(k) + i
      BY <2>10, <2>12
    <3> HIDE DEF i
    <3>4. Level(k) \in Int /\ Level(k + 1) \in Int /\ Len(H[k + 1]) \in Int
      BY <3>2, <3>3
    <3> QED BY <3>1, <3>2, <3>3, <3>4
  <2> QED BY <2>1, <2>13
<1> HIDE DEF T
<1>4. \A k \in 1 .. Len(log) + 1 : k \in T
  BY <1>1, <1>2, <1>3, Upward
<1> QED BY <1>1, <1>4 DEF T

-----------------------------------------------------------------------------
\* The scopes open before node k, by the nodes that opened them, and where
\* the table has them.
Stack(H, k) ==
  {0} \cup {o \in 1 .. k - 1 : Opens(o) /\ \A m \in o + 1 .. k : Len(H[m]) > Len(H[o])}
Place(H, o) == IF o = 0 THEN 1 ELSE Len(H[o]) + 1

\* Scopes opened later are further in.
LEMMA Places ==
  ASSUME NEW H, Story(H), NEW k \in DOMAIN H
  PROVE  /\ 0 \in Stack(H, k)
         /\ \A o \in Stack(H, k) : o \in Nat /\ o < k /\ Place(H, o) \in 1 .. Len(H[k])
         /\ \A o, p \in Stack(H, k) : o < p => Place(H, o) < Place(H, p)
<1>1. /\ DOMAIN H = 1 .. Len(log) + 1 /\ Len(log) \in Nat
      /\ \A m \in DOMAIN H : Len(H[m]) \in Nat /\ Len(H[m]) > 0
  BY Steps
<1>2. ASSUME NEW o \in Stack(H, k), o # 0
      PROVE  /\ o \in 1 .. k - 1 /\ o \in DOMAIN H
             /\ \A m \in o + 1 .. k : Len(H[m]) > Len(H[o])
  <2>1. o \in 1 .. k - 1 /\ \A m \in o + 1 .. k : Len(H[m]) > Len(H[o])
    BY <1>2 DEF Stack
  <2> QED BY <1>1, <2>1
<1>3. ASSUME NEW o \in Stack(H, k) PROVE o \in Nat /\ o < k /\ Place(H, o) \in 1 .. Len(H[k])
  <2>1. CASE o = 0
    BY <1>1, <2>1 DEF Place
  <2>2. CASE o # 0
    <3>1. o \in Nat /\ o < k /\ k \in o + 1 .. k
      BY <1>1, <1>2, <2>2
    <3>2. Len(H[k]) > Len(H[o]) /\ Len(H[k]) \in Nat /\ Len(H[o]) \in Nat
      BY <1>1, <1>2, <2>2, <3>1
    <3>3. Place(H, o) = Len(H[o]) + 1
      BY <2>2 DEF Place
    <3> QED BY <3>1, <3>2, <3>3
  <2> QED BY <2>1, <2>2
<1>4. ASSUME NEW o \in Stack(H, k), NEW p \in Stack(H, k), o < p
      PROVE  Place(H, o) < Place(H, p)
  <2>1. p # 0 /\ o \in Nat /\ p \in Nat
    BY <1>3, <1>4
  <2>2. p \in 1 .. k - 1 /\ p \in DOMAIN H /\ Place(H, p) = Len(H[p]) + 1
    BY <1>2, <2>1 DEF Place
  <2>3. CASE o = 0
    BY <1>1, <2>2, <2>3 DEF Place
  <2>4. CASE o # 0
    <3>1. o \in DOMAIN H /\ p \in o + 1 .. k
      BY <1>1, <1>2, <1>4, <2>1, <2>2, <2>4
    <3>2. Len(H[p]) > Len(H[o]) /\ Len(H[p]) \in Nat /\ Len(H[o]) \in Nat
      BY <1>1, <1>2, <2>2, <2>4, <3>1
    <3>3. Place(H, o) = Len(H[o]) + 1
      BY <2>4 DEF Place
    <3> QED BY <2>2, <3>2, <3>3
  <2> QED BY <2>3, <2>4
<1>5. 0 \in Stack(H, k)
  BY DEF Stack
<1> QED BY <1>3, <1>4, <1>5

\* What a node does to the scopes open.
LEMMA StackSteps ==
  ASSUME NEW H, Story(H), NEW k \in DOMAIN log
  PROVE  Stack(H, k + 1) =
           IF Opens(k) THEN Stack(H, k) \cup {k}
           ELSE IF log[k].node = "end" THEN {o \in Stack(H, k) : Place(H, o) < Len(H[k])}
           ELSE Stack(H, k)
<1> DEFINE ups(o, m) == Len(H[m]) > Len(H[o])
<1>1. /\ DOMAIN H = 1 .. Len(log) + 1 /\ Len(log) \in Nat /\ k \in Nat /\ k > 0
      /\ k \in DOMAIN H /\ k + 1 \in DOMAIN H
      /\ \A m \in DOMAIN H : Len(H[m]) \in Nat /\ Len(H[m]) > 0
  BY Steps
<1>2. Len(H[k + 1]) = Len(H[k]) + (IF Opens(k) THEN 1 ELSE IF log[k].node = "end" THEN -1 ELSE 0)
  BY Depths
<1>3. /\ \A j : j \in Stack(H, k) <=> j = 0 \/ (j \in 1 .. k - 1 /\ Opens(j) /\ \A m \in j + 1 .. k : ups(j, m))
      /\ \A j : j \in Stack(H, k + 1) <=> j = 0 \/ (j \in 1 .. k /\ Opens(j) /\ \A m \in j + 1 .. k + 1 : ups(j, m))
  <2>1. (k + 1) - 1 = k
    BY <1>1
  <2>2. Stack(H, k + 1) = {0} \cup {o \in 1 .. k : Opens(o) /\ \A m \in o + 1 .. k + 1 : ups(o, m)}
    BY <2>1 DEF Stack
  <2>3. Stack(H, k) = {0} \cup {o \in 1 .. k - 1 : Opens(o) /\ \A m \in o + 1 .. k : ups(o, m)}
    BY DEF Stack
  <2> HIDE DEF ups
  <2> QED BY <2>2, <2>3
<1>4. ASSUME NEW j \in 1 .. k - 1, Opens(j), \A m \in j + 1 .. k : ups(j, m)
      PROVE  /\ ups(j, k) /\ Len(H[j]) \in Nat
             /\ (\A m \in j + 1 .. k + 1 : ups(j, m)) <=> ups(j, k + 1)
  <2>1. k \in j + 1 .. k /\ k + 1 \in j + 1 .. k + 1 /\ j \in DOMAIN H
    BY <1>1
  <2>2. \A m \in j + 1 .. k + 1 : m \in j + 1 .. k \/ m = k + 1
    BY <1>1
  <2>3. Len(H[j]) \in Nat
    BY <1>1, <2>1
  <2> HIDE DEF ups
  <2>4. ups(j, k)
    BY <1>4, <2>1
  <2>5. (\A m \in j + 1 .. k + 1 : ups(j, m)) <=> ups(j, k + 1)
    BY <1>4, <2>1, <2>2
  <2> QED BY <2>3, <2>4, <2>5
<1>5. \A j \in 1 .. k - 1 : (\A m \in j + 1 .. k + 1 : ups(j, m)) => \A m \in j + 1 .. k : ups(j, m)
  <2>1. \A j \in 1 .. k - 1 : \A m \in j + 1 .. k : m \in j + 1 .. k + 1
    BY <1>1
  <2> HIDE DEF ups
  <2> QED BY <2>1
<1>6. (\A m \in k + 1 .. k + 1 : ups(k, m)) <=> ups(k, k + 1)
  <2>1. k + 1 .. k + 1 = {k + 1}
    BY <1>1
  <2> HIDE DEF ups
  <2> QED BY <2>1
<1>7. 1 .. k = (1 .. k - 1) \cup {k} /\ k # 0 /\ k \notin 1 .. k - 1
  BY <1>1
<1>8. ASSUME NEW j \in 1 .. k - 1, Opens(j), \A m \in j + 1 .. k : ups(j, m)
      PROVE  /\ log[k].node # "end" \/ Opens(k) => ups(j, k + 1)
             /\ log[k].node = "end" /\ ~Opens(k) => (ups(j, k + 1) <=> Place(H, j) < Len(H[k]))
  <2>1. Len(H[k]) > Len(H[j]) /\ Len(H[j]) \in Nat /\ Len(H[k]) \in Nat
    BY <1>1, <1>4, <1>8
  <2>2. Place(H, j) = Len(H[j]) + 1
    BY <1>7, <1>1 DEF Place
  <2>3. log[k].node # "end" \/ Opens(k) => Len(H[k + 1]) = Len(H[k]) \/ Len(H[k + 1]) = Len(H[k]) + 1
    <3>1. CASE Opens(k)
      BY <1>2, <3>1
    <3>2. CASE ~Opens(k) /\ log[k].node # "end"
      <4>1. Len(H[k + 1]) = Len(H[k]) + 0
        BY <1>2, <3>2
      <4> QED BY <2>1, <4>1
    <3> QED BY <3>1, <3>2
  <2>4. log[k].node = "end" /\ ~Opens(k) => Len(H[k + 1]) = Len(H[k]) - 1
    BY <1>2, <2>1
  <2> HIDE DEF Opens
  <2>5. log[k].node # "end" \/ Opens(k) => ups(j, k + 1)
    BY <2>1, <2>3
  <2>6. log[k].node = "end" /\ ~Opens(k) => (ups(j, k + 1) <=> Place(H, j) < Len(H[k]))
    BY <2>1, <2>2, <2>4
  <2> QED BY <2>5, <2>6
<1>9. Opens(k) => ups(k, k + 1)
  BY <1>1, <1>2
<1>10. ASSUME log[k].node = "end", ~Opens(k) PROVE Place(H, 0) < Len(H[k])
  <2>1. Len(H[k + 1]) = Len(H[k]) - 1 /\ Len(H[k + 1]) > 0 /\ Len(H[k]) \in Nat
    BY <1>1, <1>2, <1>10
  <2> QED BY <2>1 DEF Place
<1> HIDE DEF ups
<1>11. CASE Opens(k)
  <2>1. \A j : j \in Stack(H, k + 1) <=> j \in Stack(H, k) \/ j = k
    BY <1>3, <1>4, <1>5, <1>6, <1>7, <1>8, <1>9, <1>11
  <2> QED BY <1>11, <2>1
<1>12. CASE ~Opens(k) /\ log[k].node = "end"
  <2>1. \A j : j \in Stack(H, k + 1) <=> j \in Stack(H, k) /\ Place(H, j) < Len(H[k])
    BY <1>3, <1>4, <1>5, <1>7, <1>8, <1>10, <1>12
  <2> QED BY <1>12, <2>1
<1>13. CASE ~Opens(k) /\ log[k].node # "end"
  <2>1. \A j : j \in Stack(H, k + 1) <=> j \in Stack(H, k)
    BY <1>3, <1>4, <1>5, <1>7, <1>8, <1>13
  <2> QED BY <1>13, <2>1
<1> QED BY <1>11, <1>12, <1>13

\* Every scope of the table was opened by a node.
LEMMA Full ==
  ASSUME NEW H, Story(H)
  PROVE  \A k \in DOMAIN H : \A i \in 1 .. Len(H[k]) : \E o \in Stack(H, k) : Place(H, o) = i
<1> DEFINE full(k) == \A i \in 1 .. Len(H[k]) : \E o \in Stack(H, k) : Place(H, o) = i
           T == {k \in DOMAIN H : full(k)}
<1>1. /\ DOMAIN H = 1 .. Len(log) + 1 /\ Len(log) \in Nat /\ Len(H[1]) = 1
      /\ DOMAIN log = 1 .. Len(log)
      /\ \A k \in DOMAIN H : Len(H[k]) \in Nat
  BY Steps
<1>2. 1 \in T
  <2>1. 1 \in DOMAIN H
    BY <1>1
  <2>2. 0 \in Stack(H, 1) /\ Place(H, 0) = 1
    BY <2>1, Places DEF Place
  <2>3. \A i \in 1 .. Len(H[1]) : i = 1
    BY <1>1
  <2>4. full(1)
    BY <2>2, <2>3
  <2> QED BY <2>1, <2>4
<1>3. ASSUME NEW k \in 1 .. Len(log), k \in T PROVE k + 1 \in T
  <2>1. k \in DOMAIN log /\ k \in Nat /\ k > 0 /\ k \in DOMAIN H /\ k + 1 \in DOMAIN H
    BY <1>1
  <2>2. Len(H[k + 1]) = Len(H[k]) + (IF Opens(k) THEN 1 ELSE IF log[k].node = "end" THEN -1 ELSE 0)
    BY <2>1, Depths
  <2>3. Len(H[k]) \in Nat /\ Len(H[k + 1]) \in Nat
    BY <1>1, <2>1
  <2>4. Place(H, k) = Len(H[k]) + 1
    BY <2>1 DEF Place
  <2>5. \A i \in 1 .. Len(H[k]) : \E o \in Stack(H, k) : Place(H, o) = i
    BY <1>3
  <2>6. ASSUME NEW i \in 1 .. Len(H[k + 1]) PROVE \E o \in Stack(H, k + 1) : Place(H, o) = i
    <3>1. CASE Opens(k)
      <4>1. i \in 1 .. Len(H[k]) \/ i = Len(H[k]) + 1
        BY <2>2, <2>3, <3>1
      <4>2. Stack(H, k + 1) = Stack(H, k) \cup {k}
        BY <2>1, <3>1, StackSteps
      <4> QED BY <2>4, <2>5, <4>1, <4>2
    <3>2. CASE ~Opens(k) /\ log[k].node = "end"
      <4>1. i \in 1 .. Len(H[k]) /\ i < Len(H[k])
        BY <2>2, <2>3, <3>2
      <4>2. Stack(H, k + 1) = {o \in Stack(H, k) : Place(H, o) < Len(H[k])}
        BY <2>1, <3>2, StackSteps
      <4> QED BY <2>5, <4>1, <4>2
    <3>3. CASE ~Opens(k) /\ log[k].node # "end"
      <4>1. i \in 1 .. Len(H[k])
        BY <2>2, <2>3, <3>3
      <4>2. Stack(H, k + 1) = Stack(H, k)
        BY <2>1, <3>3, StackSteps
      <4> QED BY <2>5, <4>1, <4>2
    <3> QED BY <3>1, <3>2, <3>3
  <2> QED BY <2>1, <2>6
<1> HIDE DEF T
<1>4. \A k \in 1 .. Len(log) + 1 : k \in T
  BY <1>1, <1>2, <1>3, Upward
<1> QED BY <1>1, <1>4 DEF T

\* The innermost scope is that of the last node.
LEMMA Tops ==
  ASSUME NEW H, Story(H), NEW k \in DOMAIN H
  PROVE  LET top == Greatest(Stack(H, k))
         IN  /\ top \in Stack(H, k) /\ Place(H, top) = Len(H[k])
             /\ \A o \in Stack(H, k) : o <= top /\ (Place(H, o) = Len(H[k]) => o = top)
<1>1. /\ \A o \in Stack(H, k) : o \in Nat /\ o < k /\ Place(H, o) \in 1 .. Len(H[k])
      /\ \A o, p \in Stack(H, k) : o < p => Place(H, o) < Place(H, p)
  BY Places
<1>2. Len(H[k]) \in Nat /\ Len(H[k]) > 0
  BY Steps
<1>3. PICK o \in Stack(H, k) : Place(H, o) = Len(H[k])
  <2>1. Len(H[k]) \in 1 .. Len(H[k])
    BY <1>2
  <2> QED BY <2>1, Full
<1>4. \A p \in Stack(H, k) : p <= o
  <2>1. \A p \in Stack(H, k) : p \in Nat /\ o \in Nat /\ ~(o < p)
    BY <1>1, <1>2, <1>3
  <2> QED BY <2>1
<1>5. Stack(H, k) \subseteq Int
  BY <1>1
<1>6. Greatest(Stack(H, k)) = o
  BY <1>4, <1>5, Greatest_
<1>7. \A p \in Stack(H, k) : Place(H, p) = Len(H[k]) => p = o
  <2>1. \A p \in Stack(H, k) : Place(H, p) = Len(H[k]) => p \in Nat /\ o \in Nat /\ ~(p < o) /\ p <= o
    BY <1>1, <1>2, <1>3, <1>4
  <2> QED BY <2>1
<1> QED BY <1>3, <1>4, <1>6, <1>7

\* The scopes around a node are those that are open after it.
LEMMA Arounds ==
  ASSUME NEW H, Story(H), NEW k \in DOMAIN log
  PROVE  Around(k) = Stack(H, IF log[k].node = "end" THEN k ELSE k + 1)
<1>1. /\ DOMAIN H = 1 .. Len(log) + 1 /\ Len(log) \in Nat /\ k \in Nat /\ k > 0
      /\ k \in DOMAIN H /\ k + 1 \in DOMAIN H
      /\ \A m \in DOMAIN H : Len(H[m]) \in Nat /\ Len(H[m]) > 0
  BY Steps
<1>2. \A o \in 1 .. k : \A m \in o + 1 .. k : Level(m) > Level(o) <=> Len(H[m]) > Len(H[o])
  <2>1. \A o \in 1 .. k : \A m \in o + 1 .. k : o \in DOMAIN H /\ m \in DOMAIN H
    BY <1>1
  <2>2. \A a, b, c, d \in Int : a = c - 1 /\ b = d - 1 => (a > b <=> c > d)
    OBVIOUS
  <2>3. \A m \in DOMAIN H : Len(H[m]) \in Int /\ Level(m) = Len(H[m]) - 1 /\ Level(m) \in Int
    BY <1>1, Levels
  <2> QED BY <2>1, <2>2, <2>3
<1> DEFINE ups(o, m) == Len(H[m]) > Len(H[o])
<1>3. \A j : j \in Around(k) <=> j = 0 \/ (j \in 1 .. k /\ Opens(j) /\ \A m \in j + 1 .. k : ups(j, m))
  BY <1>2 DEF Around
<1>4. \A j : j \in Stack(H, k) <=> j = 0 \/ (j \in 1 .. k - 1 /\ Opens(j) /\ \A m \in j + 1 .. k : ups(j, m))
  BY DEF Stack
<1>5. 1 .. k = (1 .. k - 1) \cup {k} /\ (\A m : m \notin k + 1 .. k)
  BY <1>1
<1> HIDE DEF ups
<1>6. \A j : j \in Around(k) <=> j \in Stack(H, k) \/ (j = k /\ Opens(k))
  BY <1>3, <1>4, <1>5
<1>7. CASE log[k].node = "end"
  <2>1. ~Opens(k)
    BY <1>7 DEF Opens
  <2> QED BY <1>6, <1>7, <2>1
<1>8. CASE log[k].node # "end"
  <2>1. Stack(H, k + 1) = IF Opens(k) THEN Stack(H, k) \cup {k} ELSE Stack(H, k)
    BY <1>8, StackSteps
  <2>2. \A j : j \in Around(k) <=> j \in Stack(H, k + 1)
    BY <1>6, <2>1
  <2> QED BY <1>8, <2>2
<1> QED BY <1>7, <1>8

\* The scope a node declares in is the innermost one after it.
LEMMA Homes ==
  ASSUME NEW H, Story(H), NEW k \in DOMAIN log
  PROVE  /\ Home(k) \in Around(k) /\ Home(k) \in Nat /\ Home(k) <= k
         /\ Opens(k) => Home(k) = k
         /\ log[k].node # "end" => /\ Home(k) \in Stack(H, k + 1) /\ Place(H, Home(k)) = Len(H[k + 1])
                                   /\ \A o \in Stack(H, k + 1) : o <= Home(k) /\ (o # Home(k) => Place(H, o) # Len(H[k + 1]))
         /\ log[k].node # "end" /\ ~Opens(k) => Home(k) = Greatest(Stack(H, k))
<1>1. k \in Nat /\ k \in DOMAIN H /\ k + 1 \in DOMAIN H
  BY Steps
<1> DEFINE q == IF log[k].node = "end" THEN k ELSE k + 1
<1>2. Around(k) = Stack(H, q) /\ Home(k) = Greatest(Stack(H, q)) /\ q \in DOMAIN H
  BY <1>1, Arounds DEF Home
<1>3. /\ Home(k) \in Stack(H, q) /\ Place(H, Home(k)) = Len(H[q])
      /\ \A o \in Stack(H, q) : o <= Home(k) /\ (Place(H, o) = Len(H[q]) => o = Home(k))
  <2> HIDE DEF q
  <2> QED BY <1>2, Tops
<1>4. Home(k) \in Nat /\ Home(k) < q
  <2> HIDE DEF q
  <2> QED BY <1>2, <1>3, Places
<1>5. Home(k) <= k
  BY <1>1, <1>4
<1>6. Opens(k) => log[k].node # "end" /\ k \in Stack(H, k + 1)
  <2>1. Opens(k) => log[k].node # "end"
    BY DEF Opens
  <2>2. Opens(k) => Stack(H, k + 1) = Stack(H, k) \cup {k}
    BY StackSteps
  <2> QED BY <2>1, <2>2
<1>7. Opens(k) => Home(k) = k
  <2>1. Opens(k) => k <= Home(k)
    BY <1>3, <1>6
  <2> QED BY <1>1, <1>4, <1>5, <2>1
<1>8. log[k].node # "end" /\ ~Opens(k) => Stack(H, k + 1) = Stack(H, k)
  BY StackSteps
<1>9. log[k].node # "end" => q = k + 1
  OBVIOUS
<1> HIDE DEF q
<1>10. log[k].node # "end" => /\ Home(k) \in Stack(H, k + 1) /\ Place(H, Home(k)) = Len(H[k + 1])
                             /\ \A o \in Stack(H, k + 1) : o <= Home(k) /\ (o # Home(k) => Place(H, o) # Len(H[k + 1]))
  BY <1>3, <1>9
<1>11. log[k].node # "end" /\ ~Opens(k) => Home(k) = Greatest(Stack(H, k))
  BY <1>2, <1>8, <1>9
<1> QED BY <1>2, <1>3, <1>4, <1>5, <1>7, <1>10, <1>11

-----------------------------------------------------------------------------
(***************************************************************************)
(* What pass 2 has declared in each scope.                                 *)
(***************************************************************************)
\* What the nodes declare, by the table.
Told(H) ==
  [j \in Nodes |->
     CASE log[j].node \in {"var", "import", "for"} -> {log[j].name}
       [] log[j].node = "fn" -> ParamNames(log[j])
       [] log[j].node = "assign" ->
            IF lookup(H[j], log[j].name) = {} THEN {log[j].name} ELSE {}
       [] OTHER -> {}]

\* The nodes before k that declare x in the scope that o opened.
DeclaredIn(D, k, o, x) == {j \in 1 .. k - 1 : x \in D[j] /\ Home(j) = o}

LEMMA Lookless ==
  ASSUME NEW sc \in Seq(Scope), NEW x
  PROVE  lookup(sc, x) = {} <=> \A i \in DOMAIN sc : x \notin DOMAIN sc[i].syms
<1>1. CASE \E m \in DOMAIN sc : x \in DOMAIN sc[m].syms /\ lookup(sc, x) = {sc[m].syms[x]}
  BY <1>1
<1>2. CASE lookup(sc, x) = {} /\ \A i \in DOMAIN sc : x \notin DOMAIN sc[i].syms
  BY <1>2
<1>3. \/ \E m \in DOMAIN sc : x \in DOMAIN sc[m].syms /\ lookup(sc, x) = {sc[m].syms[x]}
      \/ lookup(sc, x) = {} /\ \A i \in DOMAIN sc : x \notin DOMAIN sc[i].syms
  BY Lookups
<1> QED BY <1>1, <1>2, <1>3

\* Node k leaves the scopes that stay open as they are, but for what it
\* declares itself.
LEMMA Placed ==
  ASSUME NEW H, Story(H), NEW k \in DOMAIN log, NEW o \in Stack(H, k + 1)
  PROVE  LET f == H[k + 1][Place(H, o)].syms
             g == H[k][Place(H, o)].syms
         IN  /\ o = k => DOMAIN f = Told(H)[k] /\ Home(k) = k /\ \A x \in Told(H)[k] : f[x].at = k
             /\ o # k => /\ o \in Stack(H, k)
                         /\ \A x : x \in DOMAIN f <=> x \in DOMAIN g \/ (x \in Told(H)[k] /\ Home(k) = o)
                         /\ \A x \in DOMAIN g : f[x] = g[x]
                         /\ \A x \in Told(H)[k] : Home(k) = o /\ x \notin DOMAIN g => f[x].at = k
<1> DEFINE s == H[k]
           t == H[k + 1]
           p == Place(H, o)
           n == log[k]
           S == Told(H)[k]
<1>1. /\ k \in Nat /\ k > 0 /\ k \in DOMAIN H /\ k + 1 \in DOMAIN H
      /\ n \in LogNode /\ Done2(n, k, s, t) /\ s \in Seq(Scope)
      /\ Len(s) \in Nat /\ Len(s) > 0 /\ DOMAIN s = 1 .. Len(s)
      /\ Len(t) \in Nat /\ Len(t) > 0 /\ DOMAIN t = 1 .. Len(t)
  BY Steps
<1>2. /\ Stack(H, k + 1) = IF Opens(k) THEN Stack(H, k) \cup {k}
                           ELSE IF n.node = "end" THEN {j \in Stack(H, k) : Place(H, j) < Len(s)}
                           ELSE Stack(H, k)
  BY StackSteps
<1>3. \A j \in Stack(H, k) : j \in Nat /\ j < k /\ Place(H, j) \in DOMAIN s
  BY <1>1, Places
<1>4. p \in DOMAIN t
  BY <1>1, Places
<1>5. /\ Opens(k) => Home(k) = k
      /\ n.node # "end" => /\ Home(k) \in Stack(H, k + 1) /\ Place(H, Home(k)) = Len(t)
                           /\ (o # Home(k) => p # Len(t))
  BY Homes
<1>6. S = CASE n.node \in {"var", "import", "for"} -> {n.name}
            [] n.node = "fn" -> ParamNames(n)
            [] n.node = "assign" -> IF lookup(s, n.name) = {} THEN {n.name} ELSE {}
            [] OTHER -> {}
  BY DEF Told, Nodes
<1>7. k \notin Stack(H, k)
  BY <1>1, <1>3
<1>8. o # k => o \in Stack(H, k) /\ p \in DOMAIN s
  BY <1>2, <1>3
<1>9. o = k => Opens(k)
  BY <1>2, <1>7
<1>10. k # 0 /\ Place(H, k) = Len(s) + 1
  BY <1>1 DEF Place
<1> HIDE DEF s, t, p, n, S
<1>11. CASE o = k
  <2>1. n.node \in {"fn", "block", "for"}
    BY <1>9, <1>11 DEF Opens, n
  <2>2. Opened(s, t, n.node, S, k)
    <3>1. CASE n.node = "fn"
      <4>1. S = ParamNames(n)
        BY <1>6, <3>1
      <4> QED BY <1>1, <3>1, <4>1 DEF Done2
    <3>2. CASE n.node = "block"
      <4>1. S = {}
        BY <1>6, <3>2
      <4> QED BY <1>1, <3>2, <4>1 DEF Done2
    <3>3. CASE n.node = "for"
      <4>1. S = {n.name}
        BY <1>6, <3>3
      <4> QED BY <1>1, <3>3, <4>1 DEF Done2
    <3> QED BY <2>1, <3>1, <3>2, <3>3
  <2>3. p = Len(s) + 1
    BY <1>10, <1>11 DEF p
  <2>4. DOMAIN t[p].syms = S /\ \A x \in S : t[p].syms[x].at = k
    BY <2>2, <2>3 DEF Opened
  <2> QED BY <1>5, <1>9, <1>11, <2>4 DEF t, p, S
<1>12. CASE o # k /\ n.node \in {"fn", "block", "for"}
  <2>1. Opens(k) /\ Home(k) # o
    BY <1>5, <1>12 DEF Opens, n
  <2>2. \A i \in DOMAIN s : t[i] = s[i]
    BY <1>1, <1>12 DEF Done2, Opened
  <2>3. t[p] = s[p]
    BY <1>8, <1>12, <2>2
  <2> QED BY <1>8, <1>12, <2>1, <2>3 DEF s, t, p
<1>13. CASE n.node = "end"
  <2>1. S = {}
    BY <1>6, <1>13
  <2>2. o # k
    BY <1>9, <1>13 DEF Opens, n
  <2>3. t[p] = s[p]
    BY <1>1, <1>4, <1>13 DEF Done2, Closed
  <2> QED BY <1>8, <2>1, <2>2, <2>3 DEF s, t, p, S
<1>14. CASE o # k /\ n.node \in {"type", "expr", "cond", "return", "var", "import", "assign"} /\ S = {}
  <2>1. t = s
    <3>1. CASE n.node \in {"type", "expr", "cond", "return"}
      BY <1>1, <3>1 DEF Done2
    <3>2. CASE n.node \in {"var", "import"}
      <4>1. S = {n.name}
        BY <1>6, <3>2
      <4> QED BY <1>14, <4>1
    <3>3. CASE n.node = "assign"
      <4>1. S = IF lookup(s, n.name) = {} THEN {n.name} ELSE {}
        BY <1>6, <3>3
      <4>2. lookup(s, n.name) # {}
        BY <1>14, <4>1
      <4>3. ~\A i \in DOMAIN s : n.name \notin DOMAIN s[i].syms
        BY <1>1, <4>2, Lookless
      <4> QED BY <1>1, <3>3, <4>3 DEF Done2
    <3> QED BY <1>14, <3>1, <3>2, <3>3
  <2> QED BY <1>8, <1>14, <2>1 DEF s, t, p, S
<1>15. CASE o # k /\ n.node \in {"var", "import", "assign"} /\ S # {}
  <2>1. S = {n.name} /\ Widened(s, t, n.name, k)
    <3>1. CASE n.node \in {"var", "import"}
      <4>1. S = {n.name}
        BY <1>6, <3>1
      <4> QED BY <1>1, <3>1, <4>1 DEF Done2
    <3>2. CASE n.node = "assign"
      <4>1. S = IF lookup(s, n.name) = {} THEN {n.name} ELSE {}
        BY <1>6, <3>2
      <4>2. S = {n.name} /\ lookup(s, n.name) = {}
        BY <1>15, <4>1
      <4>3. Widened(s, t, n.name, k)
        BY <1>1, <3>2, <4>2 DEF Done2
      <4> QED BY <4>2, <4>3
    <3> QED BY <1>15, <3>1, <3>2
  <2>2. /\ Len(t) = Len(s)
        /\ \A i \in DOMAIN s : i # Len(s) => t[i] = s[i]
        /\ DOMAIN t[Len(s)].syms = DOMAIN s[Len(s)].syms \cup S
        /\ \A y \in DOMAIN s[Len(s)].syms : t[Len(s)].syms[y] = s[Len(s)].syms[y]
        /\ \A x \in S : x \notin DOMAIN s[Len(s)].syms => t[Len(s)].syms[x].at = k
    BY <2>1 DEF Widened
  <2>3. CASE o = Home(k)
    <3>1. p = Len(s)
      <4>1. n.node # "end"
        BY <1>15
      <4>2. Place(H, Home(k)) = Len(t)
        BY <1>5, <4>1
      <4> QED BY <2>2, <2>3, <4>2 DEF p
    <3> QED BY <1>8, <1>15, <2>2, <2>3, <3>1 DEF s, t, p, S
  <2>4. CASE o # Home(k)
    <3>1. p # Len(s)
      BY <1>5, <1>15, <2>2, <2>4
    <3>2. t[p] = s[p]
      BY <1>8, <1>15, <2>2, <3>1
    <3> QED BY <1>8, <1>15, <2>4, <3>2 DEF s, t, p, S
  <2> QED BY <2>3, <2>4
<1>16. n.node \in {"var", "type", "import", "fn", "expr", "cond", "assign", "for", "return", "block", "end"}
  BY <1>1, Nodes_
<1>17. n.node \in {"type", "expr", "cond", "return"} => S = {}
  BY <1>6
<1>18. \/ o = k
       \/ o # k /\ n.node \in {"fn", "block", "for"}
       \/ n.node = "end"
       \/ o # k /\ n.node \in {"type", "expr", "cond", "return", "var", "import", "assign"} /\ S = {}
       \/ o # k /\ n.node \in {"var", "import", "assign"} /\ S # {}
  BY <1>16, <1>17
<1> QED BY <1>11, <1>12, <1>13, <1>14, <1>15, <1>18

\* A scope has the names that were hoisted into it or declared in it, each
\* with the place of its first declaration.
HoistedIn(o, x) == IF o = 0 THEN HoistedAs(x) ELSE {}
Holding(H, k) ==
  \A o \in Stack(H, k) : \A x :
    LET f  == H[k][Place(H, o)].syms
        ds == DeclaredIn(Told(H), k, o, x)
        hs == HoistedIn(o, x)
    IN  /\ x \in DOMAIN f <=> ds # {} \/ hs # {}
        /\ hs # {} => f[x].at = Greatest(hs)
        /\ hs = {} /\ ds # {} => f[x].at = Least(ds)

\* What pass 1 has left in the global scope.
LEMMA HoistedFirst ==
  ASSUME NEW H, Story(H), NEW x
  PROVE  /\ x \in DOMAIN H[1][1].syms <=> HoistedAs(x) # {}
         /\ HoistedAs(x) # {} => H[1][1].syms[x].at = Greatest(HoistedAs(x))
<1> DEFINE n == Len(decls) + 1
           f == H[1][1]
           T == HoistedOf(x, n)
<1>1. /\ x \in DOMAIN f.syms <=> x \in Builtins \/ T # {}
      /\ x \in DOMAIN f.syms => \/ x \in Builtins /\ f.syms[x] = Sym("function", FALSE, Any, 0, 0)
                                \/ FirstOf(x, n, f.syms[x])
  BY DEF Story, HoistedBy
<1>2. Len(decls) \in Nat /\ DOMAIN decls = 1 .. Len(decls) /\ DOMAIN decls = 1 .. n - 1
  BY DEF Story, Typed
<1>3. T = {k \in DOMAIN decls : Hoisted(decls[k]) /\ decls[k].name = x}
  BY <1>2 DEF HoistedOf
<1>4. HoistedAs(x) = (IF x \in Builtins THEN {0} ELSE {}) \cup {-i : i \in T}
  BY <1>3 DEF HoistedAs
<1>5. \A i \in T : i \in Nat /\ i > 0
  BY <1>2, <1>3
<1>6. HoistedAs(x) \subseteq Int /\ \A d \in HoistedAs(x) : d <= 0
  BY <1>4, <1>5
<1> HIDE DEF T, n, f
<1>7. HoistedAs(x) # {} <=> x \in Builtins \/ T # {}
  <2>1. x \in Builtins => 0 \in HoistedAs(x)
    BY <1>4
  <2>2. \A i \in T : -i \in HoistedAs(x)
    BY <1>4
  <2>3. \A d \in HoistedAs(x) : x \in Builtins \/ \E i \in T : d = -i
    BY <1>4
  <2> QED BY <2>1, <2>2, <2>3
<1>8. ASSUME x \in Builtins, f.syms[x] = Sym("function", FALSE, Any, 0, 0)
      PROVE  f.syms[x].at = Greatest(HoistedAs(x))
  <2>1. 0 \in HoistedAs(x)
    BY <1>4, <1>8
  <2>2. Greatest(HoistedAs(x)) = 0
    BY <1>6, <2>1, Greatest_
  <2> QED BY <1>8, <2>2 DEF Sym
<1>9. \A y \in DOMAIN f.syms : f.syms[y].at \in Int
  <2>1. f \in Scope
    <3>1. 1 \in DOMAIN H
      BY Steps
    <3>2. H[1] \in Seq(Scope) /\ 1 \in DOMAIN H[1]
      BY <3>1, Steps
    <3> QED BY <3>2 DEF f
  <2> QED BY <2>1, ScopeFields
<1>10. ASSUME FirstOf(x, n, f.syms[x]), x \in DOMAIN f.syms
      PROVE  f.syms[x].at = Greatest(HoistedAs(x))
  <2> DEFINE d == f.syms[x].at
  <2>1. x \notin Builtins /\ -d \in T /\ \A k \in T : -d <= k
    BY <1>10 DEF FirstOf, T
  <2>2. d < 0
    BY <1>10 DEF FirstOf
  <2> HIDE DEF d
  <2>3. PICK i \in T : i = -d /\ \A k \in T : i <= k
    BY <2>1
  <2>4. HoistedAs(x) = {-k : k \in T}
    BY <1>4, <2>1
  <2>5. -i \in HoistedAs(x) /\ \A k \in HoistedAs(x) : k <= -i
    BY <1>5, <2>3, <2>4
  <2>6. Greatest(HoistedAs(x)) = -i
    BY <1>6, <2>5, Greatest_
  <2>7. d = -i
    <3>1. i \in Nat /\ d \in Int
      BY <1>5, <1>9, <1>10, <2>3 DEF d
    <3> QED BY <2>2, <2>3, <3>1
  <2> QED BY <2>6, <2>7 DEF d
<1> QED BY <1>1, <1>7, <1>8, <1>10 DEF f

LEMMA Holdings ==
  ASSUME NEW H, Story(H)
  PROVE  \A k \in DOMAIN H : Holding(H, k)
<1> DEFINE D == Told(H)
           T == {k \in DOMAIN H : Holding(H, k)}
<1>1. /\ DOMAIN H = 1 .. Len(log) + 1 /\ Len(log) \in Nat /\ Len(H[1]) = 1
      /\ DOMAIN log = 1 .. Len(log)
  BY Steps
<1>2. 1 \in T
  <2>1. 1 \in DOMAIN H
    BY <1>1
  <2>2. \A o \in Stack(H, 1) : o = 0 /\ Place(H, o) = 1
    <3>1. \A o \in Stack(H, 1) : o \in Nat /\ o < 1
      BY <2>1, Places
    <3>2. \A o \in Stack(H, 1) : o = 0
      BY <3>1
    <3> QED BY <3>2 DEF Place
  <2>3. \A x : DeclaredIn(D, 1, 0, x) = {} /\ HoistedIn(0, x) = HoistedAs(x)
    BY DEF DeclaredIn, HoistedIn
  <2>4. Holding(H, 1)
    BY <2>2, <2>3, HoistedFirst DEF Holding
  <2> QED BY <2>1, <2>4
<1>3. ASSUME NEW k \in 1 .. Len(log), k \in T PROVE k + 1 \in T
  <2>1. k \in DOMAIN log /\ k \in Nat /\ k > 0 /\ k + 1 \in DOMAIN H
    BY <1>1
  <2>2. ASSUME NEW o \in Stack(H, k + 1), NEW x
        PROVE  LET f  == H[k + 1][Place(H, o)].syms
                   ds == DeclaredIn(D, k + 1, o, x)
                   hs == HoistedIn(o, x)
               IN  /\ x \in DOMAIN f <=> ds # {} \/ hs # {}
                   /\ hs # {} => f[x].at = Greatest(hs)
                   /\ hs = {} /\ ds # {} => f[x].at = Least(ds)
    <3> DEFINE f  == H[k + 1][Place(H, o)].syms
               g  == H[k][Place(H, o)].syms
               ds == DeclaredIn(D, k + 1, o, x)
               es == DeclaredIn(D, k, o, x)
               hs == HoistedIn(o, x)
               mine == x \in D[k] /\ Home(k) = o
    <3>1. es \subseteq 1 .. k - 1 /\ ds = IF mine THEN es \cup {k} ELSE es
      <4>1. 1 .. (k + 1) - 1 = (1 .. k - 1) \cup {k}
        BY <2>1
      <4>2. ds = {j \in (1 .. k - 1) \cup {k} : x \in D[j] /\ Home(j) = o}
        BY <4>1 DEF DeclaredIn
      <4> HIDE DEF D
      <4> QED BY <4>2 DEF DeclaredIn
    <3>2. CASE o = k
      <4>1. DOMAIN f = D[k] /\ Home(k) = k /\ \A y \in D[k] : f[y].at = k
        BY <2>1, <3>2, Placed
      <4>2. es = {}
        <5>1. \A j \in 1 .. k - 1 : j \in DOMAIN log /\ j < k
          BY <1>1, <2>1
        <5>2. \A j \in 1 .. k - 1 : Home(j) <= j /\ Home(j) \in Nat
          BY <5>1, Homes
        <5>3. \A j \in 1 .. k - 1 : Home(j) # k
          BY <2>1, <5>1, <5>2
        <5> QED BY <3>2, <5>3 DEF DeclaredIn
      <4>3. hs = {}
        BY <2>1, <3>2 DEF HoistedIn
      <4>4. ds = IF x \in D[k] THEN {k} ELSE {}
        BY <3>1, <3>2, <4>1, <4>2
      <4>5. Least({k}) = k
        BY <2>1, Least_
      <4> HIDE DEF f, ds, hs, D
      <4> QED BY <4>1, <4>3, <4>4, <4>5 DEF f, ds, hs, D
    <3>3. CASE o # k
      <4>1. /\ o \in Stack(H, k)
            /\ x \in DOMAIN f <=> x \in DOMAIN g \/ mine
            /\ x \in DOMAIN g => f[x] = g[x]
            /\ mine /\ x \notin DOMAIN g => f[x].at = k
        BY <2>1, <3>3, Placed
      <4>2. /\ x \in DOMAIN g <=> es # {} \/ hs # {}
            /\ hs # {} => g[x].at = Greatest(hs)
            /\ hs = {} /\ es # {} => g[x].at = Least(es)
        BY <1>3, <4>1 DEF Holding
      <4>3. es # {} => Least(es \cup {k}) = Least(es)
        <5> HIDE DEF es
        <5>1. SUFFICES ASSUME es # {} PROVE Least(es \cup {k}) = Least(es)
          OBVIOUS
        <5>2. es \subseteq Nat /\ es \subseteq Int /\ es \subseteq 1 .. k - 1
          BY <3>1, <2>1
        <5>3. PICK m \in es : \A j \in es : m <= j
          BY <5>1, <5>2, LeastExists
        <5>4. Least(es) = m
          BY <5>2, <5>3, Least_
        <5>5. m <= k /\ m \in es \cup {k} /\ es \cup {k} \subseteq Int
          <6>1. m \in 1 .. k - 1 /\ k \in Int
            BY <2>1, <5>2
          <6>2. m <= k
            BY <6>1
          <6> QED BY <5>2, <6>1, <6>2
        <5>6. \A j \in es \cup {k} : m <= j
          BY <5>3, <5>5
        <5>7. Least(es \cup {k}) = m
          BY <5>5, <5>6, Least_
        <5> QED BY <5>4, <5>7
      <4>4. es = {} => Least(es \cup {k}) = k
        <5>1. Least({k}) = k
          BY <2>1, Least_
        <5> HIDE DEF es
        <5> QED BY <5>1
      <4> HIDE DEF f, g, ds, es, hs, mine
      <4>5. CASE mine
        <5>1. ds = es \cup {k} /\ ds # {}
          BY <3>1, <4>5
        <5>2. x \in DOMAIN f
          BY <4>1, <4>5
        <5>3. hs # {} => f[x].at = Greatest(hs)
          BY <4>1, <4>2
        <5>4. hs = {} => f[x].at = Least(ds)
          BY <4>1, <4>2, <4>3, <4>4, <4>5, <5>1
        <5> QED BY <5>1, <5>2, <5>3, <5>4 DEF f, ds, hs
      <4>6. CASE ~mine
        <5>1. ds = es
          BY <3>1, <4>6
        <5> QED BY <4>1, <4>2, <4>6, <5>1 DEF f, ds, hs
      <4> QED BY <4>5, <4>6
    <3> QED BY <3>2, <3>3
  <2>3. Holding(H, k + 1)
    BY <2>2 DEF Holding
  <2> QED BY <2>1, <2>3
<1> HIDE DEF T
<1>4. \A k \in 1 .. Len(log) + 1 : k \in T
  BY <1>1, <1>2, <1>3, Upward
<1> QED BY <1>1, <1>4 DEF T

\* A name means at a node what the table has it for.
LEMMA Resolved ==
  ASSUME NEW H, Story(H), NEW j \in DOMAIN log, NEW q \in {j, j + 1}, NEW D, NEW x,
         Around(j) = Stack(H, q),
         {k \in 1 .. j : x \in D[k]} = {k \in 1 .. q - 1 : x \in Told(H)[k]}
  PROVE  Ids(lookup(H[q], x)) = Meaning(x, D, j)
<1> DEFINE V == {k \in 1 .. j : x \in D[k] /\ Home(k) \in Around(j)}
           inner == {k \in V : \A m \in V : Home(m) <= Home(k)}
           sc == H[q]
           has(o) == x \in DOMAIN sc[Place(H, o)].syms
           at(o) == sc[Place(H, o)].syms[x].at
           ds(o) == DeclaredIn(Told(H), q, o, x)
           hs == HoistedAs(x)
           means == Meaning(x, D, j)
<1>1. /\ j \in Nat /\ j > 0 /\ q \in DOMAIN H /\ DOMAIN log = 1 .. Len(log) /\ Len(log) \in Nat
      /\ sc \in Seq(Scope) /\ DOMAIN sc = 1 .. Len(sc) /\ Len(sc) \in Nat
  BY Steps
<1>2. V = {k \in 1 .. q - 1 : x \in Told(H)[k] /\ Home(k) \in Stack(H, q)}
  <2>1. V = {k \in {m \in 1 .. j : x \in D[m]} : Home(k) \in Stack(H, q)}
    OBVIOUS
  <2> HIDE DEF V
  <2> QED BY <2>1
<1>3. \A o \in Stack(H, q) : ds(o) = {k \in V : Home(k) = o}
  <2> HIDE DEF V
  <2> QED BY <1>2 DEF DeclaredIn
<1>4. \A k \in V : k \in Nat /\ Home(k) \in Nat /\ Home(k) \in Stack(H, q) /\ Home(k) <= j
  <2>1. \A k \in V : k \in DOMAIN log /\ k <= j /\ k \in Nat
    BY <1>1
  <2>2. \A k \in V : Home(k) \in Nat /\ Home(k) <= k
    BY <2>1, Homes
  <2>3. \A k \in V : Home(k) \in Stack(H, q)
    BY <1>2
  <2> HIDE DEF V
  <2> QED BY <1>1, <2>1, <2>2, <2>3
<1>5. \A o \in Stack(H, q) :
        /\ has(o) <=> ds(o) # {} \/ HoistedIn(o, x) # {}
        /\ HoistedIn(o, x) # {} => at(o) = Greatest(HoistedIn(o, x))
        /\ HoistedIn(o, x) = {} /\ ds(o) # {} => at(o) = Least(ds(o))
  BY <1>1, Holdings DEF Holding
<1>6. /\ 0 \in Stack(H, q) /\ HoistedIn(0, x) = hs
      /\ \A o \in Stack(H, q) : /\ o \in Nat /\ Place(H, o) \in DOMAIN sc
                                /\ o # 0 => HoistedIn(o, x) = {}
      /\ \A o, p \in Stack(H, q) : o < p => Place(H, o) < Place(H, p)
      /\ \A i \in DOMAIN sc : \E o \in Stack(H, q) : Place(H, o) = i
  BY <1>1, Places, Full DEF HoistedIn
<1>7. means = IF V # {} /\ (Home(Least(inner)) > 0 \/ hs = {}) THEN {Least(inner)}
              ELSE IF hs = {} THEN {} ELSE {Greatest(hs)}
  BY DEF Meaning
<1>8. \/ lookup(sc, x) = {} /\ \A i \in DOMAIN sc : x \notin DOMAIN sc[i].syms
      \/ \E m \in DOMAIN sc : /\ x \in DOMAIN sc[m].syms /\ lookup(sc, x) = {sc[m].syms[x]}
                              /\ \A i \in DOMAIN sc : x \in DOMAIN sc[i].syms => i <= m
  BY <1>1, Lookups
<1> HIDE DEF means, hs, sc
<1>9. ASSUME lookup(sc, x) = {}, \A i \in DOMAIN sc : x \notin DOMAIN sc[i].syms
      PROVE  Ids(lookup(sc, x)) = means
  <2>1. \A o \in Stack(H, q) : ~has(o)
    BY <1>6, <1>9
  <2> HIDE DEF has, at, ds, V, inner
  <2>2. hs = {} /\ V = {}
    <3>1. \A k \in V : ds(Home(k)) # {}
      BY <1>3, <1>4
    <3> QED BY <1>4, <1>5, <1>6, <2>1, <3>1
  <2>3. means = {}
    BY <1>7, <2>2
  <2> QED BY <1>9, <2>3 DEF Ids
<1>10. ASSUME NEW m \in DOMAIN sc, x \in DOMAIN sc[m].syms, lookup(sc, x) = {sc[m].syms[x]},
              \A i \in DOMAIN sc : x \in DOMAIN sc[i].syms => i <= m
       PROVE  Ids(lookup(sc, x)) = means
  <2>1. PICK o \in Stack(H, q) : Place(H, o) = m
    BY <1>6
  <2>2. has(o) /\ Ids(lookup(sc, x)) = {at(o)}
    BY <1>10, <2>1 DEF Ids
  <2>3. \A p \in Stack(H, q) : has(p) => p <= o
    <3>1. \A p \in Stack(H, q) : has(p) => Place(H, p) <= m
      BY <1>6, <1>10
    <3>2. m \in Nat /\ \A p \in Stack(H, q) : Place(H, p) \in Nat /\ p \in Nat
      BY <1>1, <1>6
    <3> HIDE DEF has
    <3>3. \A p \in Stack(H, q) : has(p) => ~(o < p)
      BY <1>6, <2>1, <3>1, <3>2
    <3> QED BY <2>1, <3>2, <3>3
  <2> HIDE DEF has, at, ds
  <2>4. \A k \in V : Home(k) <= o
    <3>1. \A k \in V : ds(Home(k)) # {}
      <4> HIDE DEF V
      <4> QED BY <1>3, <1>4
    <3> HIDE DEF V
    <3> QED BY <1>4, <1>5, <2>3, <3>1
  <2>5. CASE ds(o) # {}
    <3>1. \E k \in V : Home(k) = o
      <4> HIDE DEF V
      <4> QED BY <1>3, <2>5
    <3>2. inner = {k \in V : Home(k) = o}
      <4>1. \A k \in V : (\A p \in V : Home(p) <= Home(k)) <=> Home(k) = o
        <5> HIDE DEF V
        <5>1. o \in Nat
          BY <1>6
        <5> QED BY <1>4, <2>4, <3>1, <5>1
      <4> HIDE DEF V
      <4> QED BY <4>1
    <3>3. inner = ds(o) /\ V # {}
      <4> HIDE DEF V, inner
      <4> QED BY <1>3, <3>1, <3>2
    <3>4. Home(Least(inner)) = o
      <4>1. inner \subseteq Nat /\ inner # {} /\ inner \subseteq Int
        BY <2>5, <1>4, <3>3
      <4> HIDE DEF inner
      <4>2. PICK l \in inner : \A k \in inner : l <= k
        BY <4>1, LeastExists
      <4>3. Least(inner) = l
        BY <4>1, <4>2, Least_
      <4> QED BY <3>2, <4>2, <4>3
    <3> HIDE DEF V, inner
    <3>5. CASE o # 0 \/ hs = {}
      <4>1. o > 0 \/ hs = {}
        BY <1>6, <3>5
      <4>2. means = {Least(inner)}
        BY <1>7, <3>3, <3>4, <4>1
      <4>3. at(o) = Least(inner)
        BY <1>5, <1>6, <2>5, <3>3, <3>5
      <4> QED BY <2>2, <4>2, <4>3
    <3>6. CASE o = 0 /\ hs # {}
      <4>1. means = {Greatest(hs)}
        BY <1>7, <3>4, <3>6
      <4>2. at(o) = Greatest(hs)
        BY <1>5, <1>6, <3>6
      <4> QED BY <2>2, <4>1, <4>2
    <3> QED BY <3>5, <3>6
  <2>6. CASE ds(o) = {}
    <3> HIDE DEF V, inner
    <3>1. o = 0 /\ hs # {}
      BY <1>5, <1>6, <2>2, <2>6
    <3>2. V = {}
      <4>1. \A k \in V : Home(k) = 0
        BY <1>4, <2>4, <3>1
      <4> QED BY <1>3, <1>6, <2>6, <3>1, <4>1
    <3>3. means = {Greatest(hs)}
      BY <1>7, <3>1, <3>2
    <3>4. at(o) = Greatest(hs)
      BY <1>5, <1>6, <3>1
    <3> QED BY <2>2, <3>3, <3>4
  <2> QED BY <2>5, <2>6
<1> QED BY <1>8, <1>9, <1>10 DEF sc, means

\* One round of the definition of Declares.
Declared(D) ==
  [j \in Nodes |->
     CASE log[j].node \in {"var", "import", "for"} -> {log[j].name}
       [] log[j].node = "fn" -> {log[j].params[i].name : i \in DOMAIN log[j].params}
       [] log[j].node = "assign" ->
            IF Meaning(log[j].name, [k \in 1 .. j |-> IF k = j THEN {} ELSE D[k]], j) = {}
            THEN {log[j].name} ELSE {}
       [] OTHER -> {}]

LEMMA Rounds ==
  ASSUME NEW D, D = Declared(D)
  PROVE  Declares = Declared(Declares)
BY DEF Declares, Declared

\* What the nodes declare by the table satisfies the rule for it.
LEMMA ToldOnce ==
  ASSUME NEW H, Story(H)
  PROVE  Told(H) = Declared(Told(H))
<1> DEFINE D == Told(H)
           before(j) == [k \in 1 .. j |-> IF k = j THEN {} ELSE D[k]]
<1>1. DOMAIN log = 1 .. Len(log) /\ Len(log) \in Nat
  BY Steps
<1>2. ASSUME NEW j \in Nodes, log[j].node = "assign"
      PROVE  lookup(H[j], log[j].name) = {} <=> Meaning(log[j].name, before(j), j) = {}
  <2> DEFINE x == log[j].name
  <2>1. j \in DOMAIN log /\ j \in Nat
    BY <1>1 DEF Nodes
  <2>2. ~Opens(j) /\ log[j].node # "end"
    BY <1>2 DEF Opens
  <2>3. Around(j) = Stack(H, j)
    BY <2>1, <2>2, Arounds, StackSteps
  <2>4. {k \in 1 .. j : x \in before(j)[k]} = {k \in 1 .. j - 1 : x \in D[k]}
    <3>1. \A k \in 1 .. j : before(j)[k] = IF k = j THEN {} ELSE D[k]
      OBVIOUS
    <3>2. \A k : k \in 1 .. j - 1 <=> k \in 1 .. j /\ k # j
      BY <2>1
    <3> HIDE DEF before, D
    <3> QED BY <3>1, <3>2
  <2> HIDE DEF before, x
  <2>5. Ids(lookup(H[j], x)) = Meaning(x, before(j), j)
    BY <2>1, <2>3, <2>4, Resolved
  <2>6. lookup(H[j], x) = {} <=> Ids(lookup(H[j], x)) = {}
    BY DEF Ids
  <2> QED BY <2>5, <2>6 DEF x
<1>3. ASSUME NEW j \in Nodes PROVE D[j] = Declared(D)[j]
  <2>1. D[j] = CASE log[j].node \in {"var", "import", "for"} -> {log[j].name}
                 [] log[j].node = "fn" -> ParamNames(log[j])
                 [] log[j].node = "assign" ->
                      IF lookup(H[j], log[j].name) = {} THEN {log[j].name} ELSE {}
                 [] OTHER -> {}
    BY DEF Told
  <2>2. Declared(D)[j] = CASE log[j].node \in {"var", "import", "for"} -> {log[j].name}
                 [] log[j].node = "fn" -> ParamNames(log[j])
                 [] log[j].node = "assign" ->
                      IF Meaning(log[j].name, before(j), j) = {} THEN {log[j].name} ELSE {}
                 [] OTHER -> {}
    BY DEF Declared, ParamNames
  <2> HIDE DEF before, D
  <2>3. CASE log[j].node = "assign"
    BY <1>2, <2>1, <2>2, <2>3
  <2>4. CASE log[j].node # "assign"
    BY <2>1, <2>2, <2>4
  <2> QED BY <2>3, <2>4
<1>4. D = [j \in Nodes |-> D[j]]
  BY DEF Told
<1>5. Declared(D) = [j \in Nodes |-> Declared(D)[j]]
  BY DEF Declared
<1> HIDE DEF D
<1> QED BY <1>3, <1>4, <1>5 DEF D

\* The rule has one solution.
LEMMA Declarations ==
  ASSUME NEW H, Story(H)
  PROVE  Declares = Told(H)
<1> DEFINE D == Told(H)
           E == Declares
           B == {j \in Nodes : E[j] # D[j]}
<1>1. D = Declared(D) /\ E = Declared(E)
  BY ToldOnce, Rounds
<1>2. E = [j \in Nodes |-> E[j]] /\ D = [j \in Nodes |-> D[j]]
  <2>1. \A F : Declared(F) = [j \in Nodes |-> Declared(F)[j]]
    BY DEF Declared
  <2> HIDE DEF D, E
  <2> QED BY <1>1, <2>1
<1>3. Nodes = 1 .. Len(log) /\ Len(log) \in Nat
  BY Steps DEF Nodes
<1> HIDE DEF D, E
<1>4. ASSUME B # {} PROVE FALSE
  <2>1. B \subseteq Nat
    BY <1>3
  <2>2. PICK j \in B : \A k \in B : j <= k
    <3> HIDE DEF B
    <3> QED BY <1>4, <2>1, LeastExists
  <2>3. \A k \in 1 .. j : k # j => E[k] = D[k]
    <3>1. j \in Nat /\ j \in Nodes
      BY <1>3
    <3>2. \A k \in 1 .. j : k # j => k \in Nodes /\ ~(j <= k)
      BY <1>3, <3>1
    <3> QED BY <2>2, <3>2
  <2>4. [k \in 1 .. j |-> IF k = j THEN {} ELSE E[k]] = [k \in 1 .. j |-> IF k = j THEN {} ELSE D[k]]
    BY <2>3
  <2>5. j \in Nodes
    OBVIOUS
  <2>6. Declared(E)[j] = Declared(D)[j]
    BY <2>4, <2>5 DEF Declared
  <2> QED BY <1>1, <2>2, <2>6
<1>5. \A j \in Nodes : E[j] = D[j]
  BY <1>4
<1> QED BY <1>2, <1>5 DEF D, E

-----------------------------------------------------------------------------
(***************************************************************************)
(* What a symbol in the table says of its declaration.                     *)
(***************************************************************************)
\* The assignments and calls that pass 2 refuses: it takes every parameter
\* for mutable, and any number of arguments for a function without any.
Kept(d) ==
  \/ IsFunction(d)
  \/ d > 0 /\ (log[d].node = "for" \/ (log[d].node = "var" /\ log[d].var # "var"))
Miscounted(l, d) ==
  /\ IsFunction(d) /\ d # 0
  /\ LET n == Len(decls[-d].params) IN n # 0 /\ n # Len(l.args)

Faithful(sym) ==
  /\ sym.kind \in {"constant", "function"} \/ (sym.kind = "variable" /\ ~sym.mut)
       <=> Kept(sym.at)
  /\ sym.kind = "function" <=> IsFunction(sym.at)
  /\ \A l : sym.kind = "function" /\ sym.type # Any /\ sym.arity # 0 /\ sym.arity # Len(l.args)
              <=> Miscounted(l, sym.at)
AllFaithful(sc) == \A i \in DOMAIN sc : \A x \in DOMAIN sc[i].syms : Faithful(sc[i].syms[x])

\* The symbol of what node k declares.
LEMMA FaithfulLocal ==
  ASSUME NEW k \in Nat, k > 0, NEW sym, sym.at = k, sym.kind # "function",
         sym.kind = "constant" \/ (sym.kind = "variable" /\ ~sym.mut)
           <=> log[k].node = "for" \/ (log[k].node = "var" /\ log[k].var # "var")
  PROVE  Faithful(sym)
<1>1. ~IsFunction(k)
  BY DEF IsFunction
<1>2. \A l : ~Miscounted(l, k)
  BY <1>1 DEF Miscounted
<1>3. Kept(k) <=> log[k].node = "for" \/ (log[k].node = "var" /\ log[k].var # "var")
  BY <1>1 DEF Kept
<1> QED BY <1>1, <1>2, <1>3 DEF Faithful

\* The symbols of pass 1.
LEMMA FaithfulHoisted ==
  ASSUME NEW H, Story(H)
  PROVE  AllFaithful(H[1])
<1> DEFINE f == H[1][1]
           n == Len(decls) + 1
<1>1. \A x \in DOMAIN f.syms : \/ x \in Builtins /\ f.syms[x] = Sym("function", FALSE, Any, 0, 0)
                               \/ FirstOf(x, n, f.syms[x])
  BY DEF Story, HoistedBy
<1>2. 1 \in DOMAIN H /\ DOMAIN H[1] = 1 .. 1 /\ H[1] \in Seq(Scope)
  BY Steps
<1>3. \A i \in DOMAIN H[1] : i = 1
  BY <1>2
<1>4. Faithful(Sym("function", FALSE, Any, 0, 0))
  <2>1. IsFunction(0) /\ \A l : ~Miscounted(l, 0)
    BY DEF IsFunction, Miscounted
  <2>2. Kept(0)
    BY <2>1 DEF Kept
  <2> QED BY <2>1, <2>2 DEF Faithful, Sym
<1>5. ASSUME NEW x \in DOMAIN f.syms, FirstOf(x, n, f.syms[x]) PROVE Faithful(f.syms[x])
  <2> DEFINE sym == f.syms[x]
             d   == sym.at
  <2>1. /\ sym.at < 0 /\ -sym.at \in HoistedOf(x, n) /\ sym.kind \in {"function", "type"}
        /\ sym.kind = "function" <=> decls[-sym.at].node = "fn"
        /\ decls[-sym.at].node = "fn" =>
             sym.type = decls[-sym.at].ret /\ sym.arity = Len(decls[-sym.at].params)
    BY <1>5 DEF FirstOf
  <2>2. -d \in DOMAIN decls
    <3>1. Len(decls) \in Nat /\ DOMAIN decls = 1 .. n - 1
      BY DEF Story, Typed
    <3> QED BY <2>1, <3>1 DEF HoistedOf
  <2>3. decls[-d] \in Decl
    <3>1. decls \in Seq(pool.decls) /\ pool.decls \subseteq Decl
      BY PoolFacts DEF Story, Typed
    <3> QED BY <2>2, <3>1
  <2>4. decls[-d].node = "fn" => decls[-d].ret # Any
    <3>1. decls[-d].node = "fn" => decls[-d].ret \in Types \cup {Bare}
      BY <2>3 DEF Decl, VarDecl
    <3>2. Any \notin Types /\ Any # Bare
      BY TypesAssumption DEF Any, Bare
    <3> QED BY <3>1, <3>2
  <2>5. d \in Int
    <3>1. f \in Scope
      BY <1>2
    <3> HIDE DEF f
    <3> QED BY <1>5, <3>1, ScopeFields
  <2> HIDE DEF sym, f
  <2>6. d < 0 /\ d # 0 /\ ~(d > 0)
    BY <2>1, <2>5
  <2> HIDE DEF d
  <2>7. IsFunction(d) <=> decls[-d].node = "fn"
    BY <2>6 DEF IsFunction
  <2>8. Kept(d) <=> decls[-d].node = "fn"
    BY <2>6, <2>7 DEF Kept
  <2>9. sym.kind = "function" <=> decls[-d].node = "fn"
    BY <2>1 DEF d
  <2>10. sym.kind # "constant" /\ sym.kind # "variable"
    BY <2>1
  <2>11. ASSUME NEW l
         PROVE  sym.kind = "function" /\ sym.type # Any /\ sym.arity # 0 /\ sym.arity # Len(l.args)
                  <=> Miscounted(l, d)
    <3>1. CASE decls[-d].node = "fn"
      <4>1. sym.type # Any /\ sym.arity = Len(decls[-d].params)
        BY <2>1, <2>4, <3>1 DEF d
      <4>2. Miscounted(l, d) <=> sym.arity # 0 /\ sym.arity # Len(l.args)
        BY <2>6, <2>7, <3>1, <4>1 DEF Miscounted
      <4> QED BY <2>9, <3>1, <4>1, <4>2
    <3>2. CASE decls[-d].node # "fn"
      BY <2>7, <2>9, <3>2 DEF Miscounted
    <3> QED BY <3>1, <3>2
  <2>12. sym.kind \in {"constant", "function"} \/ (sym.kind = "variable" /\ ~sym.mut) <=> Kept(d)
    BY <2>8, <2>9, <2>10
  <2>13. sym.kind = "function" <=> IsFunction(d)
    BY <2>7, <2>9
  <2> QED BY <2>11, <2>12, <2>13 DEF Faithful, d, sym
<1>6. \A x \in DOMAIN f.syms : Faithful(f.syms[x])
  BY <1>1, <1>4, <1>5
<1> QED BY <1>3, <1>6 DEF AllFaithful

\* The operations of SymbolTable.
LEMMA FaithfulKept ==
  ASSUME NEW sc \in Seq(Scope), Len(sc) > 0, AllFaithful(sc)
  PROVE  /\ \A x \in Names, sym \in Symbol : Faithful(sym) => AllFaithful(define(sc, x, sym))
         /\ \A l \in Labels : AllFaithful(enterScope(sc, l))
         /\ \A ps \in Seq(Parameter), k \in Nat \ {0} :
              log[k].node = "fn" => AllFaithful(DefineParams(enterScope(sc, "fn"), ps, k))
         /\ Len(sc) > 1 => AllFaithful(leaveScope(sc))
<1>1. ASSUME NEW x \in Names, NEW sym \in Symbol, Faithful(sym)
      PROVE  AllFaithful(define(sc, x, sym))
  <2> DEFINE t == define(sc, x, sym)
             n == Len(sc)
  <2>1. /\ t \in Seq(Scope) /\ Len(t) = n
        /\ \A i \in DOMAIN sc : i # n => t[i] = sc[i]
        /\ DOMAIN t[n].syms = DOMAIN sc[n].syms \cup {x}
        /\ \A y \in DOMAIN sc[n].syms : t[n].syms[y] = sc[n].syms[y]
        /\ ~InCurrent(sc, x) => t[n].syms[x] = sym
    BY Defined
  <2> HIDE DEF t
  <2>2. DOMAIN t = DOMAIN sc /\ n \in DOMAIN sc
    BY <2>1
  <2>3. \A y \in DOMAIN t[n].syms : Faithful(t[n].syms[y])
    BY <1>1, <2>1, <2>2 DEF AllFaithful, InCurrent
  <2>4. \A i \in DOMAIN t : i # n => \A y \in DOMAIN t[i].syms : Faithful(t[i].syms[y])
    BY <2>1, <2>2 DEF AllFaithful
  <2> QED BY <2>3, <2>4 DEF AllFaithful, t
<1>2. ASSUME NEW l \in Labels
      PROVE  LET t == enterScope(sc, l)
             IN  /\ AllFaithful(t) /\ t \in Seq(Scope) /\ Len(t) = Len(sc) + 1 /\ Len(t) > 0
                 /\ DOMAIN t = 1 .. Len(sc) + 1
                 /\ \A i \in DOMAIN sc : t[i] = sc[i]
  <2> DEFINE t == enterScope(sc, l)
             n == Len(sc) + 1
  <2>1. /\ t \in Seq(Scope) /\ Len(t) = n
        /\ \A i \in DOMAIN sc : t[i] = sc[i]
        /\ DOMAIN t[n].syms = {}
    BY Entered
  <2> HIDE DEF t
  <2>2. DOMAIN t = 1 .. n /\ n > 0
    BY <2>1
  <2>3. \A i \in DOMAIN t : i \in DOMAIN sc \/ i = n
    BY <2>2
  <2>4. AllFaithful(t)
    BY <2>1, <2>3 DEF AllFaithful
  <2> QED BY <2>1, <2>2, <2>4 DEF t
<1>3. ASSUME NEW ps \in Seq(Parameter), NEW k \in Nat \ {0}, log[k].node = "fn"
      PROVE  AllFaithful(DefineParams(enterScope(sc, "fn"), ps, k))
  <2> DEFINE u == enterScope(sc, "fn")
             t == DefineParams(u, ps, k)
             n == Len(u)
  <2>1. AllFaithful(u) /\ u \in Seq(Scope) /\ Len(u) > 0
    BY <1>2 DEF Labels
  <2> HIDE DEF u
  <2>2. /\ t \in Seq(Scope) /\ Len(t) = n
        /\ \A i \in DOMAIN u : i # n => t[i] = u[i]
        /\ \A x \in DOMAIN t[n].syms : t[n].syms[x].at = k /\ t[n].syms[x].kind = "parameter"
    BY <2>1, Parameters
  <2> HIDE DEF t
  <2>3. ASSUME NEW x \in DOMAIN t[n].syms PROVE Faithful(t[n].syms[x])
    <3> DEFINE sym == t[n].syms[x]
    <3>1. sym.at = k /\ sym.kind = "parameter"
      BY <2>2
    <3> HIDE DEF sym
    <3>2. Faithful(sym)
      BY <1>3, <3>1, FaithfulLocal
    <3> QED BY <3>2 DEF sym
  <2>4. DOMAIN t = DOMAIN u
    BY <2>1, <2>2
  <2> QED BY <2>1, <2>2, <2>3, <2>4 DEF AllFaithful, t, u
<1>4. ASSUME Len(sc) > 1 PROVE AllFaithful(leaveScope(sc))
  <2> DEFINE t == leaveScope(sc)
  <2>1. \A i \in DOMAIN t : i \in DOMAIN sc /\ t[i] = sc[i]
    BY <1>4, Left
  <2> HIDE DEF t
  <2>2. AllFaithful(t)
    BY <2>1 DEF AllFaithful
  <2> QED BY <2>2 DEF t
<1> QED BY <1>1, <1>2, <1>3, <1>4

LEMMA AlwaysFaithful ==
  ASSUME NEW H, Story(H)
  PROVE  \A k \in DOMAIN H : AllFaithful(H[k])
<1> DEFINE T == {k \in DOMAIN H : AllFaithful(H[k])}
<1>1. DOMAIN H = 1 .. Len(log) + 1 /\ Len(log) \in Nat /\ DOMAIN log = 1 .. Len(log)
  BY Steps
<1>2. 1 \in T
  BY <1>1, FaithfulHoisted
<1>3. ASSUME NEW k \in 1 .. Len(log), k \in T PROVE k + 1 \in T
  <2> DEFINE s == H[k]
             t == H[k + 1]
             n == log[k]
  <2>1. /\ k \in Nat \ {0} /\ k \in Nat /\ k \in Int /\ k > 0 /\ k + 1 \in DOMAIN H
        /\ s \in Seq(Scope) /\ Len(s) > 0 /\ n \in LogNode /\ Effect(n, k, s, t)
    BY <1>1, Steps
  <2>2. AllFaithful(s)
    BY <1>3
  <2>3. /\ \A x \in Names, sym \in Symbol : Faithful(sym) => AllFaithful(define(s, x, sym))
        /\ \A l \in Labels : AllFaithful(enterScope(s, l))
        /\ \A ps \in Seq(Parameter), j \in Nat \ {0} :
             log[j].node = "fn" => AllFaithful(DefineParams(enterScope(s, "fn"), ps, j))
        /\ Len(s) > 1 => AllFaithful(leaveScope(s))
    BY <2>1, <2>2, FaithfulKept
  <2>4. \A m \in BOOLEAN, ty \in TypeNames, kind \in {"variable", "constant", "module"} :
          LET sym == Sym(kind, m, ty, 0, k)
          IN  /\ sym \in Symbol
              /\ (kind = "constant" \/ (kind = "variable" /\ ~m)
                    <=> n.node = "for" \/ (n.node = "var" /\ n.var # "var")) => Faithful(sym)
    <3> TAKE m \in BOOLEAN, ty \in TypeNames, kind \in {"variable", "constant", "module"}
    <3> DEFINE sym == Sym(kind, m, ty, 0, k)
    <3>1. sym \in Symbol
      BY <2>1, Symbols
    <3>2. sym.at = k /\ sym.kind = kind /\ sym.mut = m
      BY DEF Sym
    <3> HIDE DEF sym
    <3>3. sym.kind # "function"
      BY <3>2
    <3>4. (kind = "constant" \/ (kind = "variable" /\ ~m)
             <=> n.node = "for" \/ (n.node = "var" /\ n.var # "var")) => Faithful(sym)
      BY <2>1, <3>2, <3>3, FaithfulLocal
    <3> QED BY <3>1, <3>4 DEF sym
  <2>5. TRUE \in BOOLEAN /\ FALSE \in BOOLEAN /\ Bare \in TypeNames /\ Any \in TypeNames
    BY DEF TypeNames
  <2>6. n.node \in {"var", "import", "assign", "for"} => n.name \in Names
    BY <2>1, Nodes_
  <2> HIDE DEF s, t
  <2>7. CASE n.node = "fn"
    <3>1. n.params \in Seq(Parameter)
      BY <2>1, <2>7, Nodes_
    <3>2. t = DefineParams(enterScope(s, "fn"), n.params, k)
      BY <2>1, <2>7 DEF Effect
    <3> QED BY <2>1, <2>3, <2>7, <3>1, <3>2 DEF t
  <2>8. CASE n.node = "import"
    <3> DEFINE sym == Sym("module", FALSE, Bare, 0, k)
    <3>1. sym \in Symbol /\ Faithful(sym)
      BY <2>4, <2>5, <2>8
    <3>2. t = define(s, n.name, sym)
      BY <2>1, <2>8 DEF Effect
    <3> HIDE DEF sym
    <3> QED BY <2>1, <2>3, <2>6, <2>8, <3>1, <3>2 DEF t
  <2>9. CASE n.node \in {"type", "expr", "cond", "return"}
    <3>1. t = s
      BY <2>1, <2>9 DEF Effect
    <3> QED BY <2>1, <2>2, <3>1 DEF s, t
  <2>10. CASE n.node = "var"
    <3> DEFINE kind == IF n.var = "const" THEN "constant" ELSE "variable"
               m == n.var = "var"
               sym == Sym(kind, m, n.type, 0, k)
    <3>1. n.type \in TypeNames
      BY <2>1, <2>10, Nodes_, VarDecls
    <3>2. kind \in {"variable", "constant", "module"} /\ m \in BOOLEAN
      OBVIOUS
    <3>3. kind = "constant" \/ (kind = "variable" /\ ~m) <=> n.node = "for" \/ (n.node = "var" /\ n.var # "var")
      BY <2>10
    <3>4. sym \in Symbol /\ Faithful(sym)
      <4> HIDE DEF kind, m
      <4> QED BY <2>4, <3>1, <3>2, <3>3
    <3>5. t = define(s, n.name, sym)
      <4>1. t = define(s, n.name, VarSym(n, n.type, k))
        BY <2>1, <2>10 DEF Effect
      <4> QED BY <4>1 DEF VarSym
    <3> HIDE DEF sym
    <3> QED BY <2>1, <2>3, <2>6, <2>10, <3>4, <3>5 DEF t
  <2>11. CASE n.node = "assign"
    <3> DEFINE sym == Sym("variable", TRUE, Any, 0, k)
    <3>1. sym \in Symbol /\ Faithful(sym)
      BY <2>4, <2>5, <2>11
    <3>2. t = s \/ t = define(s, n.name, sym)
      BY <2>1, <2>11 DEF Effect
    <3> HIDE DEF sym
    <3> QED BY <2>1, <2>2, <2>3, <2>6, <2>11, <3>1, <3>2 DEF s, t
  <2>12. CASE n.node = "block"
    <3>1. t = enterScope(s, "block")
      BY <2>1, <2>12 DEF Effect
    <3> QED BY <2>1, <2>3, <3>1 DEF t, Labels
  <2>13. CASE n.node = "for"
    <3> DEFINE sym == Sym("variable", FALSE, Bare, 0, k)
               u == enterScope(s, "for")
    <3>1. sym \in Symbol /\ Faithful(sym)
      BY <2>4, <2>5, <2>13
    <3>2. t = define(u, n.name, sym)
      BY <2>1, <2>13 DEF Effect
    <3>3. AllFaithful(u)
      BY <2>3 DEF Labels
    <3>4. u \in Seq(Scope) /\ Len(u) > 0
      <4>1. u \in Seq(Scope) /\ Len(u) = Len(s) + 1
        BY <2>1, Entered DEF Labels
      <4>2. Len(s) \in Nat
        BY <2>1
      <4> HIDE DEF u
      <4> QED BY <4>1, <4>2
    <3> HIDE DEF sym, u
    <3>5. AllFaithful(define(u, n.name, sym))
      BY <2>6, <2>13, <3>1, <3>3, <3>4, FaithfulKept
    <3> QED BY <2>1, <3>2, <3>5 DEF t
  <2>14. CASE n.node = "end"
    <3>1. t = leaveScope(s) /\ Len(s) > 1
      BY <2>1, <2>14 DEF Effect
    <3> QED BY <2>1, <2>3, <3>1 DEF t
  <2> QED BY <2>1, <2>7, <2>8, <2>9, <2>10, <2>11, <2>12, <2>13, <2>14, Nodes_
<1> HIDE DEF T
<1>4. \A k \in 1 .. Len(log) + 1 : k \in T
  BY <1>1, <1>2, <1>3, Upward
<1> QED BY <1>1, <1>4 DEF T

\* What a lookup finds.
LEMMA Finds ==
  ASSUME NEW H, Story(H), NEW k \in DOMAIN H, NEW x
  PROVE  \/ lookup(H[k], x) = {}
         \/ \E sym : lookup(H[k], x) = {sym} /\ Faithful(sym)
<1>1. H[k] \in Seq(Scope) /\ AllFaithful(H[k])
  BY Steps, AlwaysFaithful
<1> QED BY <1>1, Lookups DEF AllFaithful

-----------------------------------------------------------------------------
(***************************************************************************)
(* The faults of pass 2 and the rules.                                     *)
(***************************************************************************)
Speaking == {"var", "expr", "cond", "assign", "return", "for"}

\* The expression of a node is looked up in the table that the rules mean.
LEMMA Views ==
  ASSUME NEW H, Story(H), NEW j \in DOMAIN log, log[j].node \in Speaking, NEW x
  PROVE  Means(x, j) = Ids(lookup(View(log[j], H[j], H[j + 1]), x))
<1>1. /\ j \in Nat /\ j > 0 /\ DOMAIN log = 1 .. Len(log) /\ Len(log) \in Nat
      /\ log[j].node # "end"
  BY Steps DEF Speaking
<1>2. Declares = Told(H) /\ Around(j) = Stack(H, j + 1)
  BY <1>1, Declarations, Arounds
<1>3. CASE log[j].node = "var"
  <2> DEFINE D == [Told(H) EXCEPT ![j] = {}]
  <2>1. ~Opens(j)
    BY <1>3 DEF Opens
  <2>2. Around(j) = Stack(H, j)
    BY <1>1, <1>2, <2>1, StackSteps
  <2>3. \A k \in 1 .. j : D[k] = IF k = j THEN {} ELSE Told(H)[k]
    <3>1. \A k \in 1 .. j : k \in DOMAIN Told(H)
      <4>1. DOMAIN Told(H) = 1 .. Len(log)
        BY <1>1 DEF Told, Nodes
      <4> QED BY <1>1, <4>1
    <3> QED BY <3>1
  <2>4. \A k : k \in 1 .. j - 1 <=> k \in 1 .. j /\ k # j
    BY <1>1
  <2> HIDE DEF D
  <2>5. {k \in 1 .. j : x \in D[k]} = {k \in 1 .. j - 1 : x \in Told(H)[k]}
    BY <2>3, <2>4
  <2>6. Ids(lookup(H[j], x)) = Meaning(x, D, j)
    BY <2>2, <2>5, Resolved
  <2>7. Means(x, j) = Meaning(x, D, j) /\ View(log[j], H[j], H[j + 1]) = H[j]
    BY <1>2, <1>3 DEF Means, View, D
  <2> QED BY <2>6, <2>7
<1>4. CASE log[j].node # "var"
  <2>1. {k \in 1 .. j : x \in Told(H)[k]} = {k \in 1 .. (j + 1) - 1 : x \in Told(H)[k]}
    BY <1>1
  <2>2. Ids(lookup(H[j + 1], x)) = Meaning(x, Told(H), j)
    BY <1>2, <2>1, Resolved
  <2>3. Means(x, j) = Meaning(x, Told(H), j) /\ View(log[j], H[j], H[j + 1]) = H[j + 1]
    BY <1>2, <1>4 DEF Means, View
  <2> QED BY <2>2, <2>3
<1> QED BY <1>3, <1>4

LEMMA Expressions ==
  ASSUME NEW j \in DOMAIN log
  PROVE  /\ Expr(j) = Uttered(log[j])
         /\ \A l \in Leaves(Expr(j)) : l.op \in {"read", "call"} => log[j].node \in Speaking
<1>1. Expr(j) = Uttered(log[j])
  BY DEF Expr, Uttered
<1>2. log[j].node \notin Speaking => Expr(j) = None
  BY DEF Expr, Speaking
<1>3. \A l \in Leaves(None) : l.op \notin {"read", "call"}
  BY DEF Leaves, None
<1> QED BY <1>1, <1>2, <1>3

\* A name is taken if something before declared it in the same scope.
LEMMA Redeclarations ==
  ASSUME NEW H, Story(H), NEW j \in DOMAIN log
  PROVE  Redeclared(j) <=> \/ log[j].node = "fn" /\ Duplicated(log[j].params)
                           \/ log[j].node = "var" /\ InCurrent(H[j], log[j].name)
<1>1. CASE log[j].node = "fn"
  BY <1>1 DEF Redeclared
<1>2. CASE log[j].node = "var"
  <2> DEFINE x == log[j].name
             top == Greatest(Stack(H, j))
  <2>1. j \in DOMAIN H /\ ~Opens(j) /\ log[j].node # "end"
    BY <1>2, Steps DEF Opens
  <2>2. top = Home(j)
    BY <2>1, Homes
  <2>3. top \in Stack(H, j) /\ Place(H, top) = Len(H[j])
    BY <2>1, Tops
  <2> HIDE DEF top
  <2>4. InCurrent(H[j], x) <=> DeclaredIn(Told(H), j, top, x) # {} \/ HoistedIn(top, x) # {}
    BY <2>1, <2>3, Holdings DEF Holding, InCurrent
  <2>5. DeclaredIn(Told(H), j, top, x) # {} <=> \E k \in 1 .. j - 1 : x \in Told(H)[k] /\ Home(k) = Home(j)
    BY <2>2 DEF DeclaredIn
  <2>6. HoistedIn(top, x) # {} <=> Home(j) = 0 /\ HoistedAs(x) # {}
    BY <2>2 DEF HoistedIn
  <2>7. Redeclared(j) <=> \/ \E k \in 1 .. j - 1 : x \in Told(H)[k] /\ Home(k) = Home(j)
                          \/ Home(j) = 0 /\ HoistedAs(x) # {}
    BY <1>2, Declarations DEF Redeclared
  <2> QED BY <1>2, <2>4, <2>5, <2>6, <2>7
<1>3. CASE log[j].node \notin {"fn", "var"}
  BY <1>3 DEF Redeclared
<1> QED BY <1>1, <1>2, <1>3

\* An assignment is refused if what the target means afterwards is frozen.
LEMMA Refusals ==
  ASSUME NEW H, Story(H), NEW j \in DOMAIN log, log[j].node = "assign"
  PROVE  Refused(H[j], log[j].name) <=> \E d \in Means(log[j].name, j) : Kept(d)
<1> DEFINE x == log[j].name
           s == H[j]
           t == H[j + 1]
<1>1. /\ j \in Nat /\ j > 0 /\ j \in DOMAIN H /\ j + 1 \in DOMAIN H
      /\ s \in Seq(Scope) /\ Len(s) > 0 /\ t \in Seq(Scope) /\ DOMAIN s = 1 .. Len(s) /\ DOMAIN t = 1 .. Len(t)
      /\ Effect(log[j], j, s, t) /\ Done2(log[j], j, s, t)
  BY Steps
<1>2. Means(x, j) = Ids(lookup(t, x))
  BY Views DEF Speaking, View
<1>3. Refused(t, x) <=> \E d \in Ids(lookup(t, x)) : Kept(d)
  <2>1. \/ lookup(t, x) = {}
        \/ \E sym : lookup(t, x) = {sym} /\ Faithful(sym)
    BY <1>1, Finds
  <2> HIDE DEF t, x
  <2> QED BY <2>1 DEF Refused, Ids, Faithful
<1>4. CASE lookup(s, x) # {}
  <2>1. t = s
    BY <1>1, <1>4 DEF Effect
  <2> QED BY <1>2, <1>3, <2>1
<1>5. CASE lookup(s, x) = {}
  <2>1. \A i \in DOMAIN s : x \notin DOMAIN s[i].syms
    BY <1>1, <1>5, Lookless
  <2>2. Widened(s, t, x, j)
    BY <1>1, <1>5 DEF Done2
  <2> HIDE DEF s, t, x
  <2>3. /\ Len(t) = Len(s) /\ Len(s) \in DOMAIN s
        /\ \A i \in DOMAIN s : i # Len(s) => t[i] = s[i]
        /\ t[Len(s)].syms[x].at = j
    BY <1>1, <2>1, <2>2 DEF Widened
  <2>4. \A i \in DOMAIN t : x \in DOMAIN t[i].syms => t[i].syms[x].at = j
    BY <1>1, <2>1, <2>3
  <2>5. \A d \in Ids(lookup(t, x)) : d = j
    BY <1>1, <2>4, Lookups DEF Ids
  <2>6. ~Kept(j)
    BY <1>1 DEF Kept, IsFunction
  <2>7. ~Refused(s, x)
    BY <1>5 DEF Refused
  <2> QED BY <1>2, <2>5, <2>6, <2>7 DEF s, x
<1> QED BY <1>4, <1>5

\* What pass 2 reports of one leaf.
LEMMA LeafChecked ==
  ASSUME NEW H, Story(H), NEW j \in DOMAIN log, NEW l \in Leaves(Expr(j)), NEW what
  PROVE  what \in LeafFaults(View(log[j], H[j], H[j + 1]), l) <=>
           \/ what = "undeclared" /\ l.op \in {"read", "call"} /\ Means(l.name, j) = {}
           \/ what = "not a function" /\ l.op = "call" /\ \E d \in Means(l.name, j) : ~IsFunction(d)
           \/ what = "arguments" /\ l.op = "call" /\ \E d \in Means(l.name, j) : Miscounted(l, d)
<1> DEFINE sc == View(log[j], H[j], H[j + 1])
           syms == lookup(sc, l.name)
<1>1. CASE l.op \notin {"read", "call"}
  <2>1. LeafFaults(sc, l) = {}
    BY <1>1 DEF LeafFaults
  <2> QED BY <1>1, <2>1
<1>2. CASE l.op \in {"read", "call"}
  <2>1. log[j].node \in Speaking
    BY <1>2, Expressions
  <2>2. Means(l.name, j) = Ids(syms)
    BY <2>1, Views
  <2>3. syms = {} \/ \E sym : syms = {sym} /\ Faithful(sym)
    <3>1. sc = H[j] \/ sc = H[j + 1]
      BY DEF View
    <3>2. j \in DOMAIN H /\ j + 1 \in DOMAIN H
      BY Steps
    <3> HIDE DEF sc
    <3> QED BY <3>1, <3>2, Finds
  <2>4. what \in LeafFaults(sc, l) <=>
          \/ what = "undeclared" /\ syms = {}
          \/ what = "not a function" /\ l.op = "call" /\ \E s \in syms : s.kind # "function"
          \/ /\ what = "arguments" /\ l.op = "call"
             /\ \E s \in syms : /\ s.kind = "function" /\ s.type # Any
                                /\ s.arity # 0 /\ s.arity # Len(l.args)
    <3> HIDE DEF sc
    <3>1. CASE l.op = "read"
      <4>1. LeafFaults(sc, l) = If(syms = {}, "undeclared")
        BY <3>1 DEF LeafFaults
      <4> HIDE DEF syms
      <4> QED BY <3>1, <4>1 DEF If
    <3>2. CASE l.op = "call"
      <4> DEFINE A == \E s \in syms : s.kind # "function"
                 B == \E s \in syms : /\ s.kind = "function" /\ s.type # Any
                                      /\ s.arity # 0 /\ s.arity # Len(l.args)
      <4>1. LeafFaults(sc, l) = If(syms = {}, "undeclared") \cup If(A, "not a function") \cup If(B, "arguments")
        BY <3>2 DEF LeafFaults
      <4> HIDE DEF syms, A, B
      <4>2. what \in LeafFaults(sc, l) <=> \/ what = "undeclared" /\ syms = {}
                                           \/ what = "not a function" /\ A
                                           \/ what = "arguments" /\ B
        BY <4>1 DEF If
      <4> QED BY <3>2, <4>2 DEF A, B
    <3> QED BY <1>2, <3>1, <3>2
  <2> HIDE DEF sc, syms
  <2>5. syms = {} <=> Means(l.name, j) = {}
    BY <2>2 DEF Ids
  <2>6. (\E s \in syms : s.kind # "function") <=> \E d \in Means(l.name, j) : ~IsFunction(d)
    BY <2>2, <2>3 DEF Ids, Faithful
  <2>7. (\E s \in syms : s.kind = "function" /\ s.type # Any /\ s.arity # 0 /\ s.arity # Len(l.args))
          <=> \E d \in Means(l.name, j) : Miscounted(l, d)
    BY <2>2, <2>3 DEF Ids, Faithful
  <2> QED BY <1>2, <2>4, <2>5, <2>6, <2>7 DEF sc
<1> QED BY <1>1, <1>2

\* What pass 2 finds wrong with a node.
Charged(j, what) ==
  LET leaves == Leaves(Expr(j))
      calls  == {l \in leaves : l.op = "call"}
  IN  CASE what = "redefinition"   -> Redeclared(j)
        [] what = "undeclared"     -> \E x \in NamesIn(Expr(j)) : Means(x, j) = {}
        [] what = "not a function" ->
             \E l \in calls : \E d \in Means(l.name, j) : ~IsFunction(d)
        [] what = "arguments"      ->
             \E l \in calls : \E d \in Means(l.name, j) : Miscounted(l, d)
        [] what = "immutable"      ->
             /\ log[j].node = "assign"
             /\ \E d \in Means(log[j].name, j) : Kept(d)
        [] OTHER -> FALSE

\* Pass 2 reports of a node what it finds wrong with it.
LEMMA Judged ==
  ASSUME NEW H, Story(H), NEW j \in DOMAIN log, NEW what
  PROVE  what \in Reproved(log[j], H[j], H[j + 1]) <=> what \in Faults /\ Charged(j, what)
<1> DEFINE sc == View(log[j], H[j], H[j + 1])
           n == log[j]
           leaves == Leaves(Expr(j))
           spoken == \E l \in leaves : what \in LeafFaults(sc, l)
           again == \/ n.node = "fn" /\ Duplicated(n.params)
                    \/ n.node = "var" /\ InCurrent(H[j], n.name)
           frozen == n.node = "assign" /\ Refused(H[j], n.name)
<1>1. what \in Reproved(n, H[j], H[j + 1]) <=>
        spoken \/ (what = "redefinition" /\ again) \/ (what = "immutable" /\ frozen)
  <2>1. what \in ExprFaults(sc, Uttered(n)) <=> spoken
    BY Expressions DEF ExprFaults
  <2>2. Reproved(n, H[j], H[j + 1]) = ExprFaults(sc, Uttered(n))
          \cup If(n.node = "fn" /\ Duplicated(n.params), "redefinition")
          \cup If(n.node = "var" /\ InCurrent(H[j], n.name), "redefinition")
          \cup If(frozen, "immutable")
    BY DEF Reproved
  <2> HIDE DEF sc, spoken, frozen
  <2> QED BY <2>1, <2>2 DEF If
<1>2. again <=> Redeclared(j)
  BY Redeclarations
<1>3. frozen <=> n.node = "assign" /\ \E d \in Means(n.name, j) : Kept(d)
  BY Refusals
<1>4. spoken <=> \E l \in leaves :
        \/ what = "undeclared" /\ l.op \in {"read", "call"} /\ Means(l.name, j) = {}
        \/ what = "not a function" /\ l.op = "call" /\ \E d \in Means(l.name, j) : ~IsFunction(d)
        \/ what = "arguments" /\ l.op = "call" /\ \E d \in Means(l.name, j) : Miscounted(l, d)
  BY LeafChecked
<1> HIDE DEF spoken, again, frozen, sc
<1>5. CASE what = "redefinition"
  <2>1. Charged(j, what) <=> Redeclared(j)
    BY <1>5 DEF Charged
  <2> QED BY <1>1, <1>2, <1>4, <1>5, <2>1 DEF Faults
<1>6. CASE what = "undeclared"
  <2>1. Charged(j, what) <=> \E x \in NamesIn(Expr(j)) : Means(x, j) = {}
    BY <1>6 DEF Charged
  <2>2. (\E x \in NamesIn(Expr(j)) : Means(x, j) = {}) <=>
          \E l \in leaves : l.op \in {"read", "call"} /\ Means(l.name, j) = {}
    BY DEF NamesIn
  <2> QED BY <1>1, <1>4, <1>6, <2>1, <2>2 DEF Faults
<1>7. CASE what = "not a function"
  <2>1. Charged(j, what) <=> \E l \in {m \in leaves : m.op = "call"} : \E d \in Means(l.name, j) : ~IsFunction(d)
    BY <1>7 DEF Charged
  <2> HIDE DEF leaves
  <2> QED BY <1>1, <1>4, <1>7, <2>1 DEF Faults
<1>8. CASE what = "arguments"
  <2>1. Charged(j, what) <=> \E l \in {m \in leaves : m.op = "call"} : \E d \in Means(l.name, j) : Miscounted(l, d)
    BY <1>8 DEF Charged
  <2> HIDE DEF leaves
  <2> QED BY <1>1, <1>4, <1>8, <2>1 DEF Faults
<1>9. CASE what = "immutable"
  <2>1. Charged(j, what) <=> n.node = "assign" /\ \E d \in Means(n.name, j) : Kept(d)
    BY <1>9 DEF Charged
  <2> QED BY <1>1, <1>3, <1>4, <1>9, <2>1 DEF Faults
<1>10. CASE what \notin Faults
  BY <1>1, <1>4, <1>10 DEF Faults
<1> QED BY <1>5, <1>6, <1>7, <1>8, <1>9, <1>10 DEF Faults

\* It is wrong by the rules, and all that is, unless the node is condoned.
LEMMA Excused ==
  ASSUME NEW j \in DOMAIN log, NEW what
  PROVE  /\ Charged(j, what) => Wrong(j, what)
         /\ Wrong(j, what) /\ ~Condoned(j) => Charged(j, what)
<1> DEFINE calls == {l \in Leaves(Expr(j)) : l.op = "call"}
           x == log[j].name
<1>1. \A d : Kept(d) => Frozen(d, x)
  BY DEF Kept, Frozen
<1>2. \A d : Frozen(d, x) => Kept(d) \/ (d > 0 /\ log[d].node = "fn")
  BY DEF Frozen, Kept
<1>3. \A l, d : Miscounted(l, d) => WrongCall(l, d)
  BY DEF Miscounted, WrongCall
<1>4. \A l, d : WrongCall(l, d) => Miscounted(l, d) \/ Len(decls[-d].params) = 0
  BY DEF Miscounted, WrongCall
<1>5. CASE what = "immutable"
  <2>1. Charged(j, what) <=> log[j].node = "assign" /\ \E d \in Means(x, j) : Kept(d)
    BY <1>5 DEF Charged
  <2>2. Wrong(j, what) <=> log[j].node = "assign" /\ \E d \in Means(x, j) : Frozen(d, x)
    BY <1>5 DEF Wrong
  <2>3. (\E d \in Means(x, j) : d > 0 /\ log[d].node = "fn" /\ Frozen(d, x)) /\ log[j].node = "assign"
          => Condoned(j)
    BY DEF Condoned
  <2> QED BY <1>1, <1>2, <2>1, <2>2, <2>3
<1>6. CASE what = "arguments"
  <2>1. Charged(j, what) <=> \E l \in calls : \E d \in Means(l.name, j) : Miscounted(l, d)
    BY <1>6 DEF Charged
  <2>2. Wrong(j, what) <=> \E l \in calls : \E d \in Means(l.name, j) : WrongCall(l, d)
    BY <1>6 DEF Wrong
  <2>3. (\E l \in calls : \E d \in Means(l.name, j) : WrongCall(l, d) /\ Len(decls[-d].params) = 0)
          => Condoned(j)
    BY DEF Condoned
  <2> HIDE DEF calls
  <2> QED BY <1>3, <1>4, <2>1, <2>2, <2>3
<1>7. CASE what \notin {"immutable", "arguments"}
  BY <1>7 DEF Charged, Wrong
<1> QED BY <1>5, <1>6, <1>7

-----------------------------------------------------------------------------
(***************************************************************************)
(* Lexical scoping: when analyze (SemanticAnalyzer.cpp) is done, pass 1    *)
(* has reported exactly the hoisted names that were taken, and pass 2      *)
(* names that mean nothing at their node, redeclarations, calls of what is *)
(* no function or with a wrong number of arguments, and assignments to     *)
(* what is immutable, each at its node, nothing else, and all of them      *)
(* where no parameter is assigned to and no function without parameters    *)
(* has arguments: no name leaks from a scope and no scope hides too much,  *)
(* in modules of any length and nesting.                                   *)
(***************************************************************************)
THEOREM ScopesEnforced == Spec => []NamesChecked
<1>1. ASSUME IInv, pass = "done" PROVE NamesChecked
  <2>1. PICK H : History(H)
    BY <1>1 DEF IInv
  <2>2. Front = Len(decls) + 1
    BY <1>1 DEF Front
  <2>3. Story(H)
    BY <1>1, <2>1, <2>2 DEF IInv, History, Story
  <2>4. /\ \A e \in errors : e = <<e[1], e[2], e[3]>>
        /\ \A k, what : <<1, k, what>> \in errors <=>
                        what = "redefinition" /\ k \in HoistFaults /\ k < Front
        /\ \A k, what : <<2, k, what>> \in errors <=>
                        k \in DOMAIN log /\ what \in Reproved(log[k], H[k], H[k + 1])
    BY <2>1 DEF History, Reported
  <2>5. \A k \in HoistFaults : k < Front
    <3>1. Len(decls) \in Nat /\ DOMAIN decls = 1 .. Len(decls)
      BY <2>3 DEF Story, Typed
    <3> QED BY <2>2, <3>1 DEF HoistFaults
  <2>6. Of(1) = {<<1, i, "redefinition">> : i \in HoistFaults}
    <3>1. \A e \in Of(1) : \E i \in HoistFaults : e = <<1, i, "redefinition">>
      <4> TAKE e \in Of(1)
      <4>1. e \in errors /\ e[1] = 1 /\ e = <<1, e[2], e[3]>>
        BY <2>4 DEF Of
      <4>2. <<1, e[2], e[3]>> \in errors
        BY <4>1
      <4>3. e[3] = "redefinition" /\ e[2] \in HoistFaults
        BY <2>4, <4>2
      <4> QED BY <4>1, <4>3
    <3>2. \A i \in HoistFaults : <<1, i, "redefinition">> \in Of(1)
      BY <2>4, <2>5 DEF Of
    <3> QED BY <3>1, <3>2
  <2>7. \A k, what : <<2, k, what>> \in errors <=> k \in Nodes /\ what \in Faults /\ Charged(k, what)
    BY <2>3, <2>4, Judged DEF Nodes
  <2> DEFINE W == {g \in Nodes \X Faults : Wrong(g[1], g[2])}
  <2>8. Of(2) \subseteq {<<2, f[1], f[2]>> : f \in W}
    <3>1. ASSUME NEW e \in Of(2) PROVE \E f \in W : e = <<2, f[1], f[2]>>
      <4>1. e \in errors /\ e[1] = 2 /\ e = <<2, e[2], e[3]>>
        BY <2>4 DEF Of
      <4>2. <<2, e[2], e[3]>> \in errors
        BY <4>1
      <4>3. e[2] \in Nodes /\ e[3] \in Faults /\ Charged(e[2], e[3])
        BY <2>7, <4>2
      <4>4. Wrong(e[2], e[3])
        BY <4>3, Excused DEF Nodes
      <4>5. <<e[2], e[3]>> \in W
        BY <4>3, <4>4
      <4>6. PICK f \in W : f = <<e[2], e[3]>>
        BY <4>5
      <4>7. e = <<2, f[1], f[2]>>
        BY <4>1, <4>6
      <4> QED BY <4>6, <4>7
    <3> HIDE DEF W
    <3> QED BY <3>1
  <2>9. ASSUME NEW f \in W, ~Condoned(f[1]) PROVE <<2, f[1], f[2]>> \in Of(2)
    <3>1. f[1] \in Nodes /\ f[2] \in Faults /\ Wrong(f[1], f[2])
      OBVIOUS
    <3> HIDE DEF W
    <3>2. Charged(f[1], f[2])
      BY <2>9, <3>1, Excused DEF Nodes
    <3>3. <<2, f[1], f[2]>> \in errors
      BY <2>7, <3>1, <3>2
    <3> QED BY <3>3 DEF Of
  <2> QED BY <2>6, <2>8, <2>9 DEF NamesChecked
<1>2. IInv => NamesChecked
  BY <1>1 DEF NamesChecked
<1> QED BY <1>2, IInvHolds, PTL
=============================================================================
