------------------------------- MODULE MCSema -------------------------------
(***************************************************************************)
(* Small instances of Sema: the declarations and expressions that modules  *)
(* are built from.                                                         *)
(***************************************************************************)
EXTENDS SemaRules

Lit(t)      == [op |-> "lit", type |-> t]
Read(x)     == [op |-> "read", name |-> x]
Call(x, ts) == [op |-> "call", name |-> x, args |-> ts]
Plus(l, r)  == [op |-> "binary", lhs |-> l, rhs |-> r]
Opaque      == [op |-> "opaque"]
Param(x, t, m) == [name |-> x, type |-> t, mut |-> m]
Var(k, x, t, e) == [node |-> "var", var |-> k, name |-> x, type |-> t, init |-> e]
Fn(x, ps, t) == [node |-> "fn", name |-> x, params |-> ps, ret |-> t]
Type(x)     == [node |-> "type", name |-> x]
Import(x)   == [node |-> "import", name |-> x]

\* Scopes: every way of declaring x, and functions f.
ScopeNames  == {"x", "f"}
ScopeDecls  == {Fn("f", <<>>, Bare), Fn("f", <<Param("f", "i64", FALSE)>>, Bare),
                Fn("g", <<Param("x", "i64", FALSE), Param("x", "i64", TRUE)>>, Bare),
                Var("let", "x", Bare, Lit("i64")), Var("var", "f", Bare, Read("x")),
                Type("x"), Import("x")}
ScopeLocals == {Var("let", "x", Bare, Lit("i64")), Var("var", "x", Bare, Read("x")),
                Var("const", "f", Bare, Lit("i64"))}
ScopeExprs  == {Plus(Read("x"), Call("f", <<"i64">>)), Plus(Read("f"), Call("x", <<"i64">>))}

\* Types: annotated globals, locals with and without annotation.
TypeDecls  == {Fn("f", <<Param("x", "i32", TRUE)>>, "str"), Fn("h", <<>>, "i64"),
               Var("var", "x", "str", Lit("str"))}
TypeLocals == {Var("var", "x", t, e) : t \in {Bare, "i32", "str"}, e \in {Lit("i64"), Read("x")}}
                \cup {Var("let", "y", Bare, Call("f", <<"str">>)), Var("var", "y", "str", None)}
TypeExprs  == {Lit("str"), Read("x"), Read("y"), Plus(Read("x"), Lit("i64"))}

\* Bodies: longer ones, in which scopes are left and names hidden and found
\* again.
BodyDecls  == {Fn("f", <<>>, Bare), Fn("f", <<Param("x", "i64", TRUE)>>, "str")}
BodyLocals == {Var("var", "x", Bare, Lit("str")), Var("let", "x", Bare, Read("x"))}
BodyExprs  == {Read("x"), Plus(Read("x"), Lit("str"))}

\* Modules that pass 3 types otherwise than their declarations say.
LateDecls   == {Fn("f", <<>>, Bare), Var("let", "x", "i64", Lit("i64"))}
GlobalDecls == {Fn("f", <<>>, Bare), Var("let", "x", Bare, Lit("str"))}
PlainDecls  == {Fn("f", <<>>, Bare), Fn("f", <<Param("x", "i64", FALSE)>>, Bare)}
YFromX      == {Var("let", "y", "i64", Read("x"))}
OpaqueLocals == {Var("let", "x", "i64", Opaque), Var("let", "y", Bare, Lit("str"))}
OneExpr     == {Lit("i64")}
CallExprs   == {Call("f", <<t>>) : t \in {"i64", "str"}}
StrExprs    == {Lit("str"), Lit("i64")}

Pool(ds, ls, es, kinds, xs, maxDecls, maxStmts) ==
  [decls |-> ds, locals |-> ls, exprs |-> es, kinds |-> kinds, names |-> xs,
   maxDecls |-> maxDecls, maxStmts |-> maxStmts]

Statements == {"var", "expr", "assign", "return", "block", "for"}
ScopePool  == Pool(ScopeDecls, ScopeLocals, ScopeExprs,
                   {"var", "expr", "assign", "block", "for", "implicit"}, {"x", "f", "g"}, 2, 2)
TypePool   == Pool(TypeDecls, TypeLocals, TypeExprs, Statements, {"x", "y", "f", "h"}, 2, 2)
BodyPool   == Pool(BodyDecls, BodyLocals, BodyExprs, Statements, {"x", "f"}, 1, 3)
AllPools   == {ScopePool, TypePool, BodyPool}

\* Pools with which TypesChecked (the first three), ParamsImmutable,
\* ArityChecked and ArgumentsChecked (the last) fail.
InferredGlobal == {Pool(GlobalDecls, YFromX, OneExpr, {"var"}, {}, 2, 1)}
LateGlobal     == {Pool(LateDecls, {}, StrExprs, {"assign", "implicit"}, {"x", "f"}, 2, 1)}
StaleType      == {Pool(PlainDecls, OpaqueLocals, OneExpr, {"var"}, {}, 1, 2)}
MutParameter   == {Pool(PlainDecls, {}, OneExpr, {"assign"}, {"x", "f"}, 1, 1)}
PlainCalls     == {Pool(PlainDecls, {}, CallExprs, {"expr"}, {}, 1, 1)}
=============================================================================
