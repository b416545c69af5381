---------------------------- MODULE ParserProofs ----------------------------
(***************************************************************************)
(* Proofs about Parser, for every set of token kinds and every bound on    *)
(* the source: its types, that a literal out of range is always reported,  *)
(* and that what is accepted has its brackets in pairs.                    *)
(***************************************************************************)
EXTENDS Parser, FiniteSetTheorems, TLAPS

(***************************************************************************)
(* if, ef and match take their parentheses with Match: with either in the  *)
(* language, "(" may go without ")" (README, divergences).                 *)
(***************************************************************************)
Loose == Tokens \cap {"if", "ef", "match"} # {}

AllPairs == {<<"(", ")">>, <<"[", "]">>, <<"{", "}">>}
Pairs    == {p \in AllPairs : Loose => p # <<"(", ")">>}
Brackets == {"(", ")", "[", "]", "{", "}"}

\* The functions that go on with an operand, those of if and match, and
\* the others.
Operand  == {"parsePostfixExpr", "operators", "infix"}
Optional == {"parseIfStmt", "elseBranch", "parseMatchStmt"}
Callable == Callees \ (Operand \cup Optional)

-----------------------------------------------------------------------------
(***************************************************************************)
(* Items as the functions make them.                                       *)
(***************************************************************************)
Spans == 1 .. Len(toks) + 1
Good ==
  {x \in Items :
    /\ x.do \in {"until", "more"} => x.what \in Callable
    /\ x.do = "call" => \/ x.what \in Callable
                        \/ x.what \in Operand /\ x.from \in Spans
                        \/ x.what \in Optional /\ Loose
    /\ x.do = "build"   => x.from \in Spans
    /\ x.do = "declare" => x.what \in Tokens \cup {"eof"}
    /\ x.do = "expect"  => x.what \in ExpectKinds
    /\ x.do = "match"   => x.what \in MatchKinds /\ (x.what \in Brackets => Loose)}
Plain == {x \in Good : x.do # "toplevel"}

\* Items that consume no bracket, but for what they call.
Neutral ==
  {x \in Plain : /\ x.do \notin {"error", "sync", "take"}
                 /\ x.do = "expect" => x.what \notin Brackets}

(***************************************************************************)
(* What a token adds to the closing brackets of pair p that are due, once  *)
(* it is consumed; and what an item at the head adds when the current      *)
(* token is t.                                                             *)
(***************************************************************************)
Weight(t, p) == IF t = p[2] THEN 1 ELSE IF t = p[1] THEN -1 ELSE 0
Adds(x, p, t) == CASE x.do = "expect" -> Weight(x.what, p)
                   [] x.do = "take"   -> Weight(t, p)
                   [] OTHER           -> 0

\* due[i]: how many closing brackets the items of s from i on are to take.
IsDue(due, s, p, t) ==
  /\ due \in [1 .. Len(s) + 1 -> Nat] /\ due[Len(s) + 1] = 0
  /\ \A i \in 1 .. Len(s) : due[i] = due[i + 1] + Adds(s[i], p, t)
Due(s, p, t, n) == \E due : IsDue(due, s, p, t) /\ due[1] = n

\* Count, of any sequence of tokens.
CountIn(s, k, n) == Cardinality({i \in 1 .. n : s[i] = k})
Balanced(p) ==
  /\ \A n \in 0 .. pos - 1 : CountIn(toks, p[2], n) <= CountIn(toks, p[1], n)
  /\ Due(todo, p, Cur, CountIn(toks, p[1], pos - 1) - CountIn(toks, p[2], pos - 1))

(***************************************************************************)
(* The inductive invariant.  An error is about to be reported, has been,   *)
(* or everything consumed so far is as the properties want it.             *)
(***************************************************************************)
Typed ==
  /\ toks \in Seq(Tokens \cup {"eof"}) /\ pos \in 1 .. Len(toks) + 1
  /\ \A i \in 1 .. Len(toks) - 1 : toks[i] # "eof"
  /\ Ended => pos \in 1 .. Len(toks)
  /\ todo \in Seq(Good)
  /\ \A i \in DOMAIN todo : todo[i].do = "toplevel" <=> i = Len(todo)
  /\ todo = <<>> => pos \in 1 .. Len(toks) /\ Cur = "eof"
  /\ IsFiniteSet(tree)
  /\ \A n \in tree : n[2] \in Spans /\ n[3] \in 0 .. Len(toks)
  /\ failed \in BOOLEAN /\ moduleName \in Ids \cup {"anon"}
  /\ functions \in Seq(Function) /\ implicitMain \in Seq(Function)

Broken == failed \/ (todo # <<>> /\ todo[1].do = "error")
Clean ==
  /\ \A i \in DOMAIN todo : todo[i].do \notin {"error", "sync"}
                            /\ (todo[i].do = "take" => i = 1)
  /\ todo # <<>> /\ todo[1].do = "take" => pos \in 1 .. Len(toks) /\ Cur # "huge"
  /\ \A i \in 1 .. pos - 1 : toks[i] # "huge"
  /\ \A p \in Pairs : Balanced(p)

IInv == Typed /\ (Broken \/ Clean)

\* The items of a function, when the current token is t: an error, or
\* nothing that disturbs the balance.
Nested(items, p, t) ==
  \/ \A i \in 1 .. Len(items) : Adds(items[i], p, t) = 0
  \/ \E a, b \in 1 .. Len(items) :
       /\ a < b /\ Adds(items[a], p, t) = -1 /\ Adds(items[b], p, t) = 1
       /\ \A i \in 1 .. Len(items) \ {a, b} : Adds(items[i], p, t) = 0
Orderly(items, t) ==
  /\ \A i \in 1 .. Len(items) : items[i].do \notin {"error", "sync"}
                                /\ (items[i].do = "take" => i = 1 /\ t # "huge")
  /\ \A p \in Pairs : Nested(items, p, t)
Expansion(items, t) ==
  /\ items \in Seq(Plain)
  /\ (items # <<>> /\ items[1].do = "error") \/ Orderly(items, t)


(***************************************************************************)
(* What the functions call, expect and build.                              *)
(***************************************************************************)
LEMMA LooksAtToken ==
  ASSUME Typed, Seen
  PROVE  /\ pos \in 1 .. Len(toks) /\ pos \in Spans
         /\ Cur \in Tokens \cup {"eof"}
<1>1. toks \in Seq(Tokens \cup {"eof"}) /\ pos \in 1 .. Len(toks) + 1 /\ Len(toks) \in Nat
  BY DEF Typed
<1>2. pos \in 1 .. Len(toks)
  BY <1>1 DEF Typed, Seen
<1>3. Cur \in Tokens \cup {"eof"}
  BY <1>1, <1>2 DEF Cur
<1> QED BY <1>1, <1>2, <1>3 DEF Spans

Numbers(min, from) == min \in 0 .. 10 /\ from \in Nat
Dos == {"call", "until", "more", "expect", "match", "take", "error", "throw", "sync",
        "build", "declare", "fold", "header", "toplevel"}
What == Callees \cup NodeKinds \cup ExpectKinds \cup MatchKinds
        \cup Tokens \cup {"eof", ""}

LEMMA Fields ==
  ASSUME NEW do \in Dos, NEW what \in What, NEW min, NEW from, Numbers(min, from)
  PROVE  /\ Item(do, what, min, from) \in Items
         /\ Item(do, what, min, from).do = do
         /\ Item(do, what, min, from).what = what
         /\ Item(do, what, min, from).min = min
         /\ Item(do, what, min, from).from = from
<1>1. min \in 0 .. 10 /\ from \in Nat
  BY DEF Numbers
<1> QED BY <1>1 DEF Item, Items, Dos, What

LEMMA ItemFields ==
  ASSUME NEW x \in Items
  PROVE  x.do \in Dos /\ x.what \in What /\ x.min \in 0 .. 10 /\ x.from \in Nat
<1>1. Items = [do : Dos, what : What, min : 0 .. 10, from : Nat]
  BY Zenon DEF Items, Dos, What
<1> QED BY <1>1

LEMMA NoNumbers ==
  ASSUME NEW do \in Dos, NEW what \in What
  PROVE  /\ Item(do, what, 0, 0) \in Items
         /\ Item(do, what, 0, 0).do = do /\ Item(do, what, 0, 0).what = what
<1> DEFINE min == 0
           from == 0
<1>1. Numbers(min, from)
  BY DEF Numbers
<1> HIDE DEF min, from
<1>2. /\ Item(do, what, min, from) \in Items
      /\ Item(do, what, min, from).do = do /\ Item(do, what, min, from).what = what
  BY <1>1, Fields
<1> QED BY <1>2 DEF min, from

LEMMA Names ==
  /\ "call" \in Dos /\ "until" \in Dos /\ "more" \in Dos /\ "expect" \in Dos
  /\ "match" \in Dos /\ "take" \in Dos /\ "error" \in Dos /\ "throw" \in Dos
  /\ "sync" \in Dos /\ "build" \in Dos /\ "declare" \in Dos /\ "fold" \in Dos
  /\ "header" \in Dos /\ "toplevel" \in Dos /\ "" \in What
  /\ \A w : w \in Callees \/ w \in NodeKinds \/ w \in ExpectKinds \/ w \in MatchKinds
             \/ w \in Tokens \cup {"eof"} => w \in What
BY DEF Dos, What

LEMMA NeutralCall ==
  ASSUME NEW f \in Callees, f \notin Operand, f \in Optional => Loose
  PROVE  Call(f) \in Neutral
<1> DEFINE x == Call(f)
<1>1. x \in Items /\ x.do = "call" /\ x.what = f
  BY NoNumbers, Names DEF Call
<1> HIDE DEF x
<1>2. x \in Neutral
  BY <1>1 DEF Neutral, Plain, Good, Callable
<1> QED BY <1>2 DEF x

LEMMA NeutralRepeat ==
  ASSUME NEW f \in Callable
  PROVE  Until(f) \in Neutral /\ More(f) \in Neutral
<1> DEFINE x == Until(f)
           y == More(f)
<1>0. f \in What
  BY DEF Callable, What
<1>1. x \in Items /\ x.do = "until" /\ x.what = f
  BY <1>0, NoNumbers, Names DEF Until
<1>2. y \in Items /\ y.do = "more" /\ y.what = f
  BY <1>0, NoNumbers, Names DEF More
<1> HIDE DEF x, y
<1>3. x \in Neutral
  BY <1>1 DEF Neutral, Plain, Good
<1>4. y \in Neutral
  BY <1>2 DEF Neutral, Plain, Good
<1> QED BY <1>3, <1>4 DEF x, y

LEMMA NeutralOperand ==
  ASSUME NEW min \in 0 .. 10, NEW from \in Spans, Typed
  PROVE  /\ Postfix(from) \in Neutral /\ Operators(min, from) \in Neutral
         /\ Infix(min, from) \in Neutral
<1> DEFINE x == Postfix(from)
           y == Operators(min, from)
           z == Infix(min, from)
<1>1. Numbers(0, from) /\ Numbers(min, from)
  BY DEF Spans, Typed, Numbers
<1>2. Operand \subseteq What /\ "call" \in Dos
  BY DEF Operand, Dos, What, Callees
<1>3. x \in Items /\ x.do = "call" /\ x.what = "parsePostfixExpr" /\ x.from = from
  BY <1>1, <1>2, Fields DEF Postfix, Operand
<1>4. y \in Items /\ y.do = "call" /\ y.what = "operators" /\ y.from = from
  BY <1>1, <1>2, Fields DEF Operators, Operand
<1>5. z \in Items /\ z.do = "call" /\ z.what = "infix" /\ z.from = from
  BY <1>1, <1>2, Fields DEF Infix, Operand
<1> HIDE DEF x, y, z
<1>6. x \in Neutral
  BY <1>3 DEF Neutral, Plain, Good, Operand
<1>7. y \in Neutral
  BY <1>4 DEF Neutral, Plain, Good, Operand
<1>8. z \in Neutral
  BY <1>5 DEF Neutral, Plain, Good, Operand
<1> QED BY <1>6, <1>7, <1>8 DEF x, y, z

LEMMA NeutralExpr ==
  ASSUME NEW min \in 0 .. 10
  PROVE  Expr(min) \in Neutral
<1> DEFINE x == Expr(min)
<1>1. Numbers(min, 0)
  BY DEF Numbers
<1>2. "parseExpr" \in What /\ "call" \in Dos /\ "parseExpr" \in Callable
  BY DEF Dos, What, Callees, Callable, Operand, Optional
<1>3. x \in Items /\ x.do = "call" /\ x.what = "parseExpr"
  BY <1>1, <1>2, Fields DEF Expr
<1> HIDE DEF x
<1>4. x \in Neutral
  BY <1>2, <1>3 DEF Neutral, Plain, Good
<1> QED BY <1>4 DEF x

LEMMA NeutralBuild ==
  ASSUME NEW kind \in NodeKinds, NEW from \in Spans, Typed
  PROVE  Build(kind, from) \in Neutral
<1> DEFINE x == Build(kind, from)
<1>1. Numbers(0, from)
  BY DEF Spans, Typed, Numbers
<1>2. x \in Items /\ x.do = "build" /\ x.from = from
  <2>1. "build" \in Dos /\ kind \in What
    BY Names
  <2> QED BY <1>1, <2>1, Fields DEF Build
<1> HIDE DEF x
<1>3. x \in Neutral
  BY <1>2 DEF Neutral, Plain, Good
<1> QED BY <1>3 DEF x

LEMMA NeutralDeclare ==
  ASSUME NEW name \in Tokens \cup {"eof"}, NEW from \in Spans, Typed
  PROVE  Declare(name, from) \in Neutral
<1> DEFINE x == Declare(name, from)
<1>1. Numbers(0, from)
  BY DEF Spans, Typed, Numbers
<1>2. x \in Items /\ x.do = "declare" /\ x.what = name
  <2>1. "declare" \in Dos /\ name \in What
    BY Names
  <2> QED BY <1>1, <2>1, Fields DEF Declare
<1> HIDE DEF x
<1>3. x \in Neutral
  BY <1>2 DEF Neutral, Plain, Good
<1> QED BY <1>3 DEF x

LEMMA NeutralExpect ==
  ASSUME NEW k \in ExpectKinds \ Brackets
  PROVE  Expect(k) \in Neutral
<1> DEFINE x == Expect(k)
<1>1. x \in Items /\ x.do = "expect" /\ x.what = k
  BY NoNumbers, Names DEF Expect
<1> HIDE DEF x
<1>2. x \in Neutral
  BY <1>1 DEF Neutral, Plain, Good
<1> QED BY <1>2 DEF x

LEMMA NeutralMatch ==
  ASSUME NEW k \in MatchKinds, k \in Brackets => Loose
  PROVE  Match(k) \in Neutral
<1> DEFINE x == Match(k)
<1>1. x \in Items /\ x.do = "match" /\ x.what = k
  BY NoNumbers, Names DEF Match
<1> HIDE DEF x
<1>2. x \in Neutral
  BY <1>1 DEF Neutral, Plain, Good
<1> QED BY <1>2 DEF x

LEMMA NeutralOthers == Throw \in Neutral /\ Fold \in Neutral
<1> DEFINE x == Throw
           y == Fold
<1>1. x \in Items /\ x.do = "throw"
  BY NoNumbers, Names DEF Throw
<1>2. y \in Items /\ y.do = "fold"
  BY NoNumbers, Names DEF Fold
<1> HIDE DEF x, y
<1>3. x \in Neutral
  BY <1>1 DEF Neutral, Plain, Good
<1>4. y \in Neutral
  BY <1>2 DEF Neutral, Plain, Good
<1> QED BY <1>3, <1>4 DEF x, y

\* Brackets that are expected, and the items that tell nothing of what they
\* consume.
LEMMA ExpectBracket ==
  ASSUME NEW k \in Brackets
  PROVE  Expect(k) \in Plain /\ Expect(k).do = "expect" /\ Expect(k).what = k
<1> DEFINE x == Expect(k)
<1>0. k \in ExpectKinds
  BY DEF Brackets, ExpectKinds
<1>1. x \in Items /\ x.do = "expect" /\ x.what = k
  BY <1>0, NoNumbers, Names DEF Expect
<1> HIDE DEF x
<1>2. x \in Plain
  BY <1>0, <1>1 DEF Plain, Good
<1> QED BY <1>1, <1>2 DEF x

LEMMA OtherItems ==
  /\ Take \in Plain /\ Take.do = "take"
  /\ Error \in Plain /\ Error.do = "error"
  /\ Sync \in Plain /\ Sync.do = "sync"
<1>1. Take \in Items /\ Take.do = "take"
  BY NoNumbers, Names DEF Take
<1>2. Error \in Items /\ Error.do = "error"
  BY NoNumbers, Names DEF Error
<1>3. Sync \in Items /\ Sync.do = "sync"
  BY NoNumbers, Names DEF Sync
<1>4. \A x \in Items : x.do \in {"take", "error", "sync"} => x \in Plain
  BY DEF Plain, Good
<1> QED BY <1>1, <1>2, <1>3, <1>4

-----------------------------------------------------------------------------
(***************************************************************************)
(* Sequences of items: without brackets, or within a pair of them.         *)
(***************************************************************************)
Fits(x, i, t) == x \in Neutral \/ (x = Take /\ i = 1 /\ t \notin Brackets \cup {"huge"})
Opens(x, i, t, o) == x = Expect(o) \/ (x = Take /\ i = 1 /\ t = o)

FlatItems(items, t) ==
  items \in Seq(Plain) /\ \A i \in 1 .. Len(items) : Fits(items[i], i, t)
FramedItems(items, t, o, c) ==
  /\ items \in Seq(Plain) /\ <<o, c>> \in AllPairs
  /\ \E a, b \in 1 .. Len(items) :
       /\ a < b /\ Opens(items[a], a, t, o) /\ items[b] = Expect(c)
       /\ \A i \in 1 .. Len(items) \ {a, b} : Fits(items[i], i, t)

LEMMA PairKinds ==
  ASSUME NEW p \in AllPairs
  PROVE  \/ p = <<"(", ")">> /\ p[1] = "(" /\ p[2] = ")"
         \/ p = <<"[", "]">> /\ p[1] = "[" /\ p[2] = "]"
         \/ p = <<"{", "}">> /\ p[1] = "{" /\ p[2] = "}"
<1>1. p = <<"(", ")">> \/ p = <<"[", "]">> \/ p = <<"{", "}">>
  BY Zenon DEF AllPairs
<1>2. ASSUME NEW o, NEW c, p = <<o, c>> PROVE p[1] = o /\ p[2] = c
  BY <1>2
<1> QED BY <1>1, <1>2

LEMMA PairBrackets ==
  ASSUME NEW p \in AllPairs
  PROVE  /\ p[1] \in Brackets /\ p[2] \in Brackets /\ p[1] # p[2]
         /\ p[1] \notin Ids \cup {"huge", "eof"} /\ p[2] \notin Ids \cup {"huge", "eof"}
         /\ \A q \in AllPairs : q # p => p[1] \notin {q[1], q[2]} /\ p[2] \notin {q[1], q[2]}
<1>1. /\ p[1] \in Brackets /\ p[2] \in Brackets /\ p[1] # p[2]
      /\ p[1] \notin Ids \cup {"huge", "eof"} /\ p[2] \notin Ids \cup {"huge", "eof"}
  BY PairKinds DEF Brackets, Ids
<1>2. ASSUME NEW q \in AllPairs, q # p
      PROVE  p[1] \notin {q[1], q[2]} /\ p[2] \notin {q[1], q[2]}
  <2>1. CASE p = <<"(", ")">> /\ p[1] = "(" /\ p[2] = ")"
    BY <1>2, <2>1, PairKinds
  <2>2. CASE p = <<"[", "]">> /\ p[1] = "[" /\ p[2] = "]"
    BY <1>2, <2>2, PairKinds
  <2>3. CASE p = <<"{", "}">> /\ p[1] = "{" /\ p[2] = "}"
    BY <1>2, <2>3, PairKinds
  <2> QED BY <2>1, <2>2, <2>3, PairKinds
<1> QED BY <1>1, <1>2

LEMMA FittingAdds ==
  ASSUME NEW x, NEW i, NEW t, Fits(x, i, t), NEW p \in AllPairs
  PROVE  /\ Adds(x, p, t) = 0 /\ x.do \notin {"error", "sync"}
         /\ x.do = "take" => i = 1 /\ t # "huge"
<1>1. CASE x \in Neutral
  <2>1. x.do \notin {"error", "sync", "take"} /\ (x.do = "expect" => x.what \notin Brackets)
    BY <1>1 DEF Neutral
  <2>2. x.do = "expect" => Weight(x.what, p) = 0
    BY <2>1, PairBrackets DEF Weight
  <2> QED BY <2>1, <2>2 DEF Adds
<1>2. CASE x = Take /\ i = 1 /\ t \notin Brackets \cup {"huge"}
  <2>1. x.do = "take" /\ i = 1 /\ t # "huge"
    BY <1>2, OtherItems
  <2>2. Weight(t, p) = 0
    BY <1>2, PairBrackets DEF Weight
  <2> QED BY <2>1, <2>2 DEF Adds
<1> QED BY <1>1, <1>2 DEF Fits

LEMMA OpeningAdds ==
  ASSUME NEW q \in AllPairs, NEW p \in AllPairs, NEW x, NEW i, NEW t, Opens(x, i, t, q[1])
  PROVE  /\ Adds(x, p, t) = (IF p = q THEN -1 ELSE 0) /\ x.do \notin {"error", "sync"}
         /\ x.do = "take" => i = 1 /\ t # "huge"
<1>1. Weight(q[1], p) = (IF p = q THEN -1 ELSE 0)
  BY PairBrackets DEF Weight
<1>2. CASE x = Expect(q[1])
  <2>1. x.do = "expect" /\ x.what = q[1]
    BY <1>2, PairBrackets, ExpectBracket
  <2>2. Adds(x, p, t) = Weight(q[1], p)
    BY <2>1 DEF Adds
  <2> QED BY <1>1, <2>1, <2>2
<1>3. CASE x = Take /\ i = 1 /\ t = q[1]
  <2>1. x.do = "take"
    BY <1>3, OtherItems
  <2>2. Adds(x, p, t) = Weight(q[1], p)
    BY <1>3, <2>1 DEF Adds
  <2>3. t # "huge"
    BY <1>3, PairBrackets
  <2> QED BY <1>1, <1>3, <2>1, <2>2, <2>3
<1> QED BY <1>2, <1>3 DEF Opens

LEMMA ClosingAdds ==
  ASSUME NEW q \in AllPairs, NEW p \in AllPairs, NEW x, NEW t, x = Expect(q[2])
  PROVE  Adds(x, p, t) = (IF p = q THEN 1 ELSE 0) /\ x.do = "expect"
<1>1. Weight(q[2], p) = (IF p = q THEN 1 ELSE 0)
  BY PairBrackets DEF Weight
<1>2. x.do = "expect" /\ x.what = q[2]
  BY PairBrackets, ExpectBracket
<1>3. Adds(x, p, t) = Weight(q[2], p)
  BY <1>2 DEF Adds
<1> QED BY <1>1, <1>2, <1>3

LEMMA Flat ==
  ASSUME NEW items, NEW t, FlatItems(items, t)
  PROVE  Expansion(items, t)
<1>1. items \in Seq(Plain) /\ \A i \in 1 .. Len(items) : Fits(items[i], i, t)
  BY DEF FlatItems
<1>2. ASSUME NEW p \in Pairs
      PROVE  Nested(items, p, t)
  <2>1. p \in AllPairs
    BY DEF Pairs
  <2>2. \A i \in 1 .. Len(items) : Adds(items[i], p, t) = 0
    BY <1>1, <2>1, FittingAdds
  <2> QED BY <2>2 DEF Nested
<1>3. ASSUME NEW i \in 1 .. Len(items)
      PROVE  items[i].do \notin {"error", "sync"} /\ (items[i].do = "take" => i = 1 /\ t # "huge")
  <2>1. Fits(items[i], i, t) /\ <<"[", "]">> \in AllPairs
    BY <1>1 DEF AllPairs
  <2> QED BY <2>1, FittingAdds
<1> QED BY <1>1, <1>2, <1>3 DEF Expansion, Orderly

LEMMA Framed ==
  ASSUME NEW items, NEW t, NEW o, NEW c, FramedItems(items, t, o, c)
  PROVE  Expansion(items, t)
<1> DEFINE q == <<o, c>>
<1>1. items \in Seq(Plain) /\ q \in AllPairs /\ q[1] = o /\ q[2] = c
  BY DEF FramedItems
<1>2. PICK a, b \in 1 .. Len(items) :
        /\ a < b /\ Opens(items[a], a, t, o) /\ items[b] = Expect(c)
        /\ \A i \in 1 .. Len(items) \ {a, b} : Fits(items[i], i, t)
  BY DEF FramedItems
<1> HIDE DEF q
<1>3. ASSUME NEW p \in AllPairs
      PROVE  /\ Adds(items[a], p, t) = (IF p = q THEN -1 ELSE 0)
             /\ items[a].do \notin {"error", "sync"}
             /\ items[a].do = "take" => a = 1 /\ t # "huge"
             /\ Adds(items[b], p, t) = (IF p = q THEN 1 ELSE 0) /\ items[b].do = "expect"
  <2>1. Opens(items[a], a, t, q[1]) /\ items[b] = Expect(q[2])
    BY <1>1, <1>2
  <2>2. /\ Adds(items[a], p, t) = (IF p = q THEN -1 ELSE 0)
        /\ items[a].do \notin {"error", "sync"}
        /\ items[a].do = "take" => a = 1 /\ t # "huge"
    <3> DEFINE x == items[a]
    <3>1. Opens(x, a, t, q[1])
      BY <2>1
    <3> HIDE DEF x
    <3>2. /\ Adds(x, p, t) = (IF p = q THEN -1 ELSE 0) /\ x.do \notin {"error", "sync"}
          /\ x.do = "take" => a = 1 /\ t # "huge"
      BY <1>1, <3>1, OpeningAdds
    <3> QED BY <3>2 DEF x
  <2>3. Adds(items[b], p, t) = (IF p = q THEN 1 ELSE 0) /\ items[b].do = "expect"
    BY <1>1, <2>1, ClosingAdds
  <2> QED BY <2>2, <2>3
<1>4. ASSUME NEW p \in AllPairs, NEW i \in 1 .. Len(items) \ {a, b}
      PROVE  /\ Adds(items[i], p, t) = 0 /\ items[i].do \notin {"error", "sync"}
             /\ items[i].do = "take" => i = 1 /\ t # "huge"
  <2>1. Fits(items[i], i, t)
    BY <1>2
  <2> QED BY <2>1, FittingAdds
<1>5. ASSUME NEW p \in Pairs
      PROVE  Nested(items, p, t)
  <2>0. p \in AllPairs
    BY DEF Pairs
  <2>1. CASE p = q
    <3>1. Adds(items[a], p, t) = -1 /\ Adds(items[b], p, t) = 1
      BY <1>3, <2>0, <2>1
    <3>2. \A i \in 1 .. Len(items) \ {a, b} : Adds(items[i], p, t) = 0
      BY <1>4, <2>0
    <3>3. /\ a < b /\ Adds(items[a], p, t) = -1 /\ Adds(items[b], p, t) = 1
          /\ \A i \in 1 .. Len(items) \ {a, b} : Adds(items[i], p, t) = 0
      BY <1>2, <3>1, <3>2
    <3> QED BY <3>3, Zenon DEF Nested
  <2>2. CASE p # q
    <3>1. \A i \in 1 .. Len(items) : Adds(items[i], p, t) = 0
      BY <1>3, <1>4, <2>0, <2>2
    <3> QED BY <3>1 DEF Nested
  <2> QED BY <2>1, <2>2
<1>6. ASSUME NEW i \in 1 .. Len(items)
      PROVE  items[i].do \notin {"error", "sync"} /\ (items[i].do = "take" => i = 1 /\ t # "huge")
  BY <1>1, <1>3, <1>4
<1> QED BY <1>1, <1>5, <1>6 DEF Expansion, Orderly

-----------------------------------------------------------------------------
(***************************************************************************)
(* The same, for the lengths and places that the functions have.           *)
(***************************************************************************)
Leads(x, t) == x \in Neutral \/ (x = Take /\ t \notin Brackets \cup {"huge"})
Opening(x, t, o) == x = Expect(o) \/ (x = Take /\ t = o)

LEMMA Halves ==
  ASSUME NEW o, NEW c, <<o, c>> \in AllPairs
  PROVE  o \in Brackets /\ c \in Brackets
<1> DEFINE p == <<o, c>>
<1>1. p \in AllPairs /\ p[1] = o /\ p[2] = c
  OBVIOUS
<1> HIDE DEF p
<1> QED BY <1>1, PairBrackets

LEMMA Kinds ==
  /\ Neutral \subseteq Plain
  /\ \A x, t : Leads(x, t) => x \in Plain /\ Fits(x, 1, t)
  /\ \A x, t, i : x \in Neutral => Fits(x, i, t)
  /\ \A x, t, o : o \in Brackets /\ Opening(x, t, o) => x \in Plain /\ Opens(x, 1, t, o)
  /\ \A t, o, i : Opens(Expect(o), i, t, o)
<1>1. Neutral \subseteq Plain
  BY DEF Neutral
<1>2. ASSUME NEW x, NEW t, Leads(x, t) PROVE x \in Plain /\ Fits(x, 1, t)
  BY <1>1, <1>2, OtherItems DEF Leads, Fits
<1>3. ASSUME NEW x, NEW t, NEW i, x \in Neutral PROVE Fits(x, i, t)
  BY <1>3 DEF Fits
<1>4. ASSUME NEW x, NEW t, NEW o, o \in Brackets, Opening(x, t, o)
      PROVE  x \in Plain /\ Opens(x, 1, t, o)
  BY <1>4, ExpectBracket, OtherItems DEF Opening, Opens
<1>5. ASSUME NEW t, NEW o, NEW i PROVE Opens(Expect(o), i, t, o)
  BY DEF Opens
<1> QED BY <1>1, <1>2, <1>3, <1>4, <1>5

LEMMA Flat0 ==
  ASSUME NEW t
  PROVE  Expansion(<<>>, t)
<1> DEFINE s == <<>>
<1>1. s \in Seq(Plain) /\ Len(s) = 0
  OBVIOUS
<1> HIDE DEF s
<1>2. FlatItems(s, t)
  BY <1>1 DEF FlatItems
<1>3. Expansion(s, t)
  BY <1>2, Flat
<1> QED BY <1>3 DEF s

LEMMA Flat1 ==
  ASSUME NEW t, NEW a, Leads(a, t)
  PROVE  Expansion(<<a>>, t)
<1> DEFINE s == <<a>>
<1>1. a \in Plain
  BY Kinds
<1>2. s \in Seq(Plain) /\ Len(s) = 1 /\ s[1] = a
  BY <1>1
<1> HIDE DEF s
<1>3. Fits(s[1], 1, t)
  BY <1>2, Kinds
<1>4. FlatItems(s, t)
  BY <1>2, <1>3 DEF FlatItems
<1>5. Expansion(s, t)
  BY <1>4, Flat
<1> QED BY <1>5 DEF s

LEMMA Flat2 ==
  ASSUME NEW t, NEW a, Leads(a, t),
         NEW b \in Neutral
  PROVE  Expansion(<<a, b>>, t)
<1> DEFINE s == <<a, b>>
<1>1. a \in Plain /\ b \in Plain
  BY Kinds
<1>2. s \in Seq(Plain) /\ Len(s) = 2 /\ s[1] = a /\ s[2] = b
  BY <1>1
<1> HIDE DEF s
<1>3. Fits(s[1], 1, t) /\ Fits(s[2], 2, t)
  BY <1>2, Kinds
<1>4. FlatItems(s, t)
  BY <1>2, <1>3 DEF FlatItems
<1>5. Expansion(s, t)
  BY <1>4, Flat
<1> QED BY <1>5 DEF s

LEMMA Flat3 ==
  ASSUME NEW t, NEW a, Leads(a, t),
         NEW b \in Neutral, NEW d \in Neutral
  PROVE  Expansion(<<a, b, d>>, t)
<1> DEFINE s == <<a, b, d>>
<1>1. a \in Plain /\ b \in Plain /\ d \in Plain
  BY Kinds
<1>2. s \in Seq(Plain) /\ Len(s) = 3 /\ s[1] = a /\ s[2] = b /\ s[3] = d
  BY <1>1
<1> HIDE DEF s
<1>3. Fits(s[1], 1, t) /\ Fits(s[2], 2, t) /\ Fits(s[3], 3, t)
  BY <1>2, Kinds
<1>4. FlatItems(s, t)
  BY <1>2, <1>3 DEF FlatItems
<1>5. Expansion(s, t)
  BY <1>4, Flat
<1> QED BY <1>5 DEF s

LEMMA Flat4 ==
  ASSUME NEW t, NEW a, Leads(a, t),
         NEW b \in Neutral, NEW d \in Neutral, NEW e \in Neutral
  PROVE  Expansion(<<a, b, d, e>>, t)
<1> DEFINE s == <<a, b, d, e>>
<1>1. a \in Plain /\ b \in Plain /\ d \in Plain /\ e \in Plain
  BY Kinds
<1>2. s \in Seq(Plain) /\ Len(s) = 4 /\ s[1] = a /\ s[2] = b /\ s[3] = d /\ s[4] = e
  BY <1>1
<1> HIDE DEF s
<1>3. Fits(s[1], 1, t) /\ Fits(s[2], 2, t) /\ Fits(s[3], 3, t) /\ Fits(s[4], 4, t)
  BY <1>2, Kinds
<1>4. FlatItems(s, t)
  BY <1>2, <1>3 DEF FlatItems
<1>5. Expansion(s, t)
  BY <1>4, Flat
<1> QED BY <1>5 DEF s

LEMMA Flat5 ==
  ASSUME NEW t, NEW a, Leads(a, t),
         NEW b \in Neutral, NEW d \in Neutral, NEW e \in Neutral, NEW f \in Neutral
  PROVE  Expansion(<<a, b, d, e, f>>, t)
<1> DEFINE s == <<a, b, d, e, f>>
<1>1. a \in Plain /\ b \in Plain /\ d \in Plain /\ e \in Plain /\ f \in Plain
  BY Kinds
<1>2. s \in Seq(Plain) /\ Len(s) = 5 /\ s[1] = a /\ s[2] = b /\ s[3] = d /\ s[4] = e /\ s[5] = f
  BY <1>1
<1> HIDE DEF s
<1>3. Fits(s[1], 1, t) /\ Fits(s[2], 2, t) /\ Fits(s[3], 3, t) /\ Fits(s[4], 4, t) /\ Fits(s[5], 5, t)
  BY <1>2, Kinds
<1>4. FlatItems(s, t)
  BY <1>2, <1>3 DEF FlatItems
<1>5. Expansion(s, t)
  BY <1>4, Flat
<1> QED BY <1>5 DEF s

LEMMA Flat6 ==
  ASSUME NEW t, NEW a, Leads(a, t),
         NEW b \in Neutral, NEW d \in Neutral, NEW e \in Neutral, NEW f \in Neutral, NEW g \in Neutral
  PROVE  Expansion(<<a, b, d, e, f, g>>, t)
<1> DEFINE s == <<a, b, d, e, f, g>>
<1>1. a \in Plain /\ b \in Plain /\ d \in Plain /\ e \in Plain /\ f \in Plain /\ g \in Plain
  BY Kinds
<1>2. s \in Seq(Plain) /\ Len(s) = 6 /\ s[1] = a /\ s[2] = b /\ s[3] = d /\ s[4] = e /\ s[5] = f /\ s[6] = g
  BY <1>1
<1> HIDE DEF s
<1>3. Fits(s[1], 1, t) /\ Fits(s[2], 2, t) /\ Fits(s[3], 3, t) /\ Fits(s[4], 4, t) /\ Fits(s[5], 5, t) /\ Fits(s[6], 6, t)
  BY <1>2, Kinds
<1>4. FlatItems(s, t)
  BY <1>2, <1>3 DEF FlatItems
<1>5. Expansion(s, t)
  BY <1>4, Flat
<1> QED BY <1>5 DEF s

LEMMA Framed824 ==
  ASSUME NEW t, NEW o, NEW c, <<o, c>> \in AllPairs, NEW a, Leads(a, t),
         NEW d \in Neutral, NEW f \in Neutral, NEW g \in Neutral, NEW h \in Neutral, NEW i \in Neutral
  PROVE  Expansion(<<a, Expect(o), d, Expect(c), f, g, h, i>>, t)
<1> DEFINE s == <<a, Expect(o), d, Expect(c), f, g, h, i>>
<1>0. o \in Brackets /\ c \in Brackets
  BY Halves
<1>1. a \in Plain /\ Expect(o) \in Plain /\ d \in Plain /\ Expect(c) \in Plain /\ f \in Plain /\ g \in Plain /\ h \in Plain /\ i \in Plain
  BY <1>0, Kinds, ExpectBracket
<1>2. s \in Seq(Plain) /\ Len(s) = 8 /\ s[1] = a /\ s[2] = Expect(o) /\ s[3] = d /\ s[4] = Expect(c) /\ s[5] = f /\ s[6] = g /\ s[7] = h /\ s[8] = i
  BY <1>1
<1> HIDE DEF s
<1>3. Fits(s[1], 1, t) /\ Fits(s[3], 3, t) /\ Fits(s[5], 5, t) /\ Fits(s[6], 6, t) /\ Fits(s[7], 7, t) /\ Fits(s[8], 8, t)
      /\ Opens(s[2], 2, t, o) /\ s[4] = Expect(c)
  BY <1>0, <1>2, Kinds
<1>4. /\ 2 \in 1 .. Len(s) /\ 4 \in 1 .. Len(s) /\ 2 < 4
      /\ \A k \in 1 .. Len(s) \ {2, 4} : Fits(s[k], k, t)
  BY <1>2, <1>3
<1>5. FramedItems(s, t, o, c)
  BY <1>0, <1>2, <1>3, <1>4 DEF FramedItems
<1>6. Expansion(s, t)
  BY <1>5, Framed
<1> QED BY <1>6 DEF s

LEMMA Framed524 ==
  ASSUME NEW t, NEW o, NEW c, <<o, c>> \in AllPairs, NEW a, Leads(a, t),
         NEW d \in Neutral, NEW f \in Neutral
  PROVE  Expansion(<<a, Expect(o), d, Expect(c), f>>, t)
<1> DEFINE s == <<a, Expect(o), d, Expect(c), f>>
<1>0. o \in Brackets /\ c \in Brackets
  BY Halves
<1>1. a \in Plain /\ Expect(o) \in Plain /\ d \in Plain /\ Expect(c) \in Plain /\ f \in Plain
  BY <1>0, Kinds, ExpectBracket
<1>2. s \in Seq(Plain) /\ Len(s) = 5 /\ s[1] = a /\ s[2] = Expect(o) /\ s[3] = d /\ s[4] = Expect(c) /\ s[5] = f
  BY <1>1
<1> HIDE DEF s
<1>3. Fits(s[1], 1, t) /\ Fits(s[3], 3, t) /\ Fits(s[5], 5, t)
      /\ Opens(s[2], 2, t, o) /\ s[4] = Expect(c)
  BY <1>0, <1>2, Kinds
<1>4. /\ 2 \in 1 .. Len(s) /\ 4 \in 1 .. Len(s) /\ 2 < 4
      /\ \A k \in 1 .. Len(s) \ {2, 4} : Fits(s[k], k, t)
  BY <1>2, <1>3
<1>5. FramedItems(s, t, o, c)
  BY <1>0, <1>2, <1>3, <1>4 DEF FramedItems
<1>6. Expansion(s, t)
  BY <1>5, Framed
<1> QED BY <1>6 DEF s

LEMMA Framed413 ==
  ASSUME NEW t, NEW o, NEW c, <<o, c>> \in AllPairs, NEW a, Opening(a, t, o),
         NEW b \in Neutral, NEW e \in Neutral
  PROVE  Expansion(<<a, b, Expect(c), e>>, t)
<1> DEFINE s == <<a, b, Expect(c), e>>
<1>0. o \in Brackets /\ c \in Brackets
  BY Halves
<1>1. a \in Plain /\ b \in Plain /\ Expect(c) \in Plain /\ e \in Plain
  BY <1>0, Kinds, ExpectBracket
<1>2. s \in Seq(Plain) /\ Len(s) = 4 /\ s[1] = a /\ s[2] = b /\ s[3] = Expect(c) /\ s[4] = e
  BY <1>1
<1> HIDE DEF s
<1>3. Fits(s[2], 2, t) /\ Fits(s[4], 4, t)
      /\ Opens(s[1], 1, t, o) /\ s[3] = Expect(c)
  BY <1>0, <1>2, Kinds
<1>4. /\ 1 \in 1 .. Len(s) /\ 3 \in 1 .. Len(s) /\ 1 < 3
      /\ \A k \in 1 .. Len(s) \ {1, 3} : Fits(s[k], k, t)
  BY <1>2, <1>3
<1>5. FramedItems(s, t, o, c)
  BY <1>0, <1>2, <1>3, <1>4 DEF FramedItems
<1>6. Expansion(s, t)
  BY <1>5, Framed
<1> QED BY <1>6 DEF s

LEMMA Framed414 ==
  ASSUME NEW t, NEW o, NEW c, <<o, c>> \in AllPairs, NEW a, Opening(a, t, o),
         NEW b \in Neutral, NEW d \in Neutral
  PROVE  Expansion(<<a, b, d, Expect(c)>>, t)
<1> DEFINE s == <<a, b, d, Expect(c)>>
<1>0. o \in Brackets /\ c \in Brackets
  BY Halves
<1>1. a \in Plain /\ b \in Plain /\ d \in Plain /\ Expect(c) \in Plain
  BY <1>0, Kinds, ExpectBracket
<1>2. s \in Seq(Plain) /\ Len(s) = 4 /\ s[1] = a /\ s[2] = b /\ s[3] = d /\ s[4] = Expect(c)
  BY <1>1
<1> HIDE DEF s
<1>3. Fits(s[2], 2, t) /\ Fits(s[3], 3, t)
      /\ Opens(s[1], 1, t, o) /\ s[4] = Expect(c)
  BY <1>0, <1>2, Kinds
<1>4. /\ 1 \in 1 .. Len(s) /\ 4 \in 1 .. Len(s) /\ 1 < 4
      /\ \A k \in 1 .. Len(s) \ {1, 4} : Fits(s[k], k, t)
  BY <1>2, <1>3
<1>5. FramedItems(s, t, o, c)
  BY <1>0, <1>2, <1>3, <1>4 DEF FramedItems
<1>6. Expansion(s, t)
  BY <1>5, Framed
<1> QED BY <1>6 DEF s

LEMMA Framed513 ==
  ASSUME NEW t, NEW o, NEW c, <<o, c>> \in AllPairs, NEW a, Opening(a, t, o),
         NEW b \in Neutral, NEW e \in Neutral, NEW f \in Neutral
  PROVE  Expansion(<<a, b, Expect(c), e, f>>, t)
<1> DEFINE s == <<a, b, Expect(c), e, f>>
<1>0. o \in Brackets /\ c \in Brackets
  BY Halves
<1>1. a \in Plain /\ b \in Plain /\ Expect(c) \in Plain /\ e \in Plain /\ f \in Plain
  BY <1>0, Kinds, ExpectBracket
<1>2. s \in Seq(Plain) /\ Len(s) = 5 /\ s[1] = a /\ s[2] = b /\ s[3] = Expect(c) /\ s[4] = e /\ s[5] = f
  BY <1>1
<1> HIDE DEF s
<1>3. Fits(s[2], 2, t) /\ Fits(s[4], 4, t) /\ Fits(s[5], 5, t)
      /\ Opens(s[1], 1, t, o) /\ s[3] = Expect(c)
  BY <1>0, <1>2, Kinds
<1>4. /\ 1 \in 1 .. Len(s) /\ 3 \in 1 .. Len(s) /\ 1 < 3
      /\ \A k \in 1 .. Len(s) \ {1, 3} : Fits(s[k], k, t)
  BY <1>2, <1>3
<1>5. FramedItems(s, t, o, c)
  BY <1>0, <1>2, <1>3, <1>4 DEF FramedItems
<1>6. Expansion(s, t)
  BY <1>5, Framed
<1> QED BY <1>6 DEF s

LEMMA Framed746 ==
  ASSUME NEW t, NEW o, NEW c, <<o, c>> \in AllPairs, NEW a, Leads(a, t),
         NEW b \in Neutral, NEW d \in Neutral, NEW f \in Neutral, NEW h \in Neutral
  PROVE  Expansion(<<a, b, d, Expect(o), f, Expect(c), h>>, t)
<1> DEFINE s == <<a, b, d, Expect(o), f, Expect(c), h>>
<1>0. o \in Brackets /\ c \in Brackets
  BY Halves
<1>1. a \in Plain /\ b \in Plain /\ d \in Plain /\ Expect(o) \in Plain /\ f \in Plain /\ Expect(c) \in Plain /\ h \in Plain
  BY <1>0, Kinds, ExpectBracket
<1>2. s \in Seq(Plain) /\ Len(s) = 7 /\ s[1] = a /\ s[2] = b /\ s[3] = d /\ s[4] = Expect(o) /\ s[5] = f /\ s[6] = Expect(c) /\ s[7] = h
  BY <1>1
<1> HIDE DEF s
<1>3. Fits(s[1], 1, t) /\ Fits(s[2], 2, t) /\ Fits(s[3], 3, t) /\ Fits(s[5], 5, t) /\ Fits(s[7], 7, t)
      /\ Opens(s[4], 4, t, o) /\ s[6] = Expect(c)
  BY <1>0, <1>2, Kinds
<1>4. /\ 4 \in 1 .. Len(s) /\ 6 \in 1 .. Len(s) /\ 4 < 6
      /\ \A k \in 1 .. Len(s) \ {4, 6} : Fits(s[k], k, t)
  BY <1>2, <1>3
<1>5. FramedItems(s, t, o, c)
  BY <1>0, <1>2, <1>3, <1>4 DEF FramedItems
<1>6. Expansion(s, t)
  BY <1>5, Framed
<1> QED BY <1>6 DEF s

LEMMA Framed313 ==
  ASSUME NEW t, NEW o, NEW c, <<o, c>> \in AllPairs, NEW a, Opening(a, t, o),
         NEW b \in Neutral
  PROVE  Expansion(<<a, b, Expect(c)>>, t)
<1> DEFINE s == <<a, b, Expect(c)>>
<1>0. o \in Brackets /\ c \in Brackets
  BY Halves
<1>1. a \in Plain /\ b \in Plain /\ Expect(c) \in Plain
  BY <1>0, Kinds, ExpectBracket
<1>2. s \in Seq(Plain) /\ Len(s) = 3 /\ s[1] = a /\ s[2] = b /\ s[3] = Expect(c)
  BY <1>1
<1> HIDE DEF s
<1>3. Fits(s[2], 2, t)
      /\ Opens(s[1], 1, t, o) /\ s[3] = Expect(c)
  BY <1>0, <1>2, Kinds
<1>4. /\ 1 \in 1 .. Len(s) /\ 3 \in 1 .. Len(s) /\ 1 < 3
      /\ \A k \in 1 .. Len(s) \ {1, 3} : Fits(s[k], k, t)
  BY <1>2, <1>3
<1>5. FramedItems(s, t, o, c)
  BY <1>0, <1>2, <1>3, <1>4 DEF FramedItems
<1>6. Expansion(s, t)
  BY <1>5, Framed
<1> QED BY <1>6 DEF s

-----------------------------------------------------------------------------
(***************************************************************************)
(* What each function expands to, given the current token.                 *)
(***************************************************************************)
LEMMA NeutralCalls ==
  /\ Call("parseTopLevelDecl") \in Neutral
  /\ Call("parseFunctionDecl") \in Neutral
  /\ Call("parseStructDecl") \in Neutral /\ Call("parseEnumDecl") \in Neutral
  /\ Call("parseTypeAliasDecl") \in Neutral /\ Call("parseType") \in Neutral
  /\ Call("parseImportDecl") \in Neutral /\ Call("parseVarDecl") \in Neutral
  /\ Call("modulePath") \in Neutral /\ Call("importAlias") \in Neutral
  /\ Call("parseParam") \in Neutral /\ Call("parseParamList") \in Neutral
  /\ Call("returnType") \in Neutral /\ Call("functionBody") \in Neutral
  /\ Call("parseBlock") \in Neutral /\ Call("openBody") \in Neutral
  /\ Call("body") \in Neutral /\ Call("parseStmt") \in Neutral
  /\ Call("moreParams") \in Neutral /\ Call("variantFields") \in Neutral
  /\ Call("varType") \in Neutral /\ Call("varInit") \in Neutral
  /\ Call("parseWhileStmt") \in Neutral /\ Call("parseVloopStmt") \in Neutral
  /\ Call("parseForStmt") \in Neutral /\ Call("parseReturnStmt") \in Neutral
  /\ Call("parsePrimaryExpr") \in Neutral /\ Call("elements") \in Neutral
  /\ Call("parseCallArgs") \in Neutral /\ Call("arraySize") \in Neutral
  /\ Call("typeList") \in Neutral /\ Call("typePath") \in Neutral
  /\ Loose => /\ Call("parseIfStmt") \in Neutral /\ Call("elseBranch") \in Neutral
              /\ Call("parseMatchStmt") \in Neutral
  /\ Until("parseStmt") \in Neutral /\ Until("field") \in Neutral
  /\ Until("variant") \in Neutral /\ Until("matchArm") \in Neutral
  /\ More("parseExpr") \in Neutral /\ More("parseType") \in Neutral
<1>1. ASSUME NEW f \in Callable PROVE Call(f) \in Neutral
  BY NeutralCall DEF Callable
<1>2. ASSUME NEW f \in Optional, Loose PROVE Call(f) \in Neutral
  <2>1. f \in Callees /\ f \notin Operand
    BY DEF Optional, Operand, Callees
  <2> QED BY <1>2, <2>1, NeutralCall
<1>3. /\ "parseExpr" \in Callable /\ "parseTopLevelDecl" \in Callable
      /\ "parseFunctionDecl" \in Callable /\ "parseStructDecl" \in Callable
      /\ "parseEnumDecl" \in Callable /\ "parseTypeAliasDecl" \in Callable
      /\ "parseType" \in Callable /\ "parseImportDecl" \in Callable
      /\ "parseVarDecl" \in Callable /\ "modulePath" \in Callable
      /\ "importAlias" \in Callable /\ "parseParam" \in Callable
      /\ "parseParamList" \in Callable /\ "returnType" \in Callable
      /\ "functionBody" \in Callable /\ "parseBlock" \in Callable
      /\ "openBody" \in Callable /\ "body" \in Callable
      /\ "parseStmt" \in Callable /\ "moreParams" \in Callable
      /\ "field" \in Callable /\ "variant" \in Callable
      /\ "variantFields" \in Callable /\ "varType" \in Callable
      /\ "varInit" \in Callable /\ "parseWhileStmt" \in Callable
      /\ "parseVloopStmt" \in Callable /\ "parseForStmt" \in Callable
      /\ "parseReturnStmt" \in Callable /\ "matchArm" \in Callable
      /\ "parsePrimaryExpr" \in Callable /\ "elements" \in Callable
      /\ "parseCallArgs" \in Callable /\ "arraySize" \in Callable
      /\ "typeList" \in Callable /\ "typePath" \in Callable
  BY DEF Callable, Callees, Operand, Optional
<1>4. "parseIfStmt" \in Optional /\ "elseBranch" \in Optional /\ "parseMatchStmt" \in Optional
  BY DEF Optional
<1> QED BY <1>1, <1>2, <1>3, <1>4, NeutralRepeat

LEMMA NeutralBuilds ==
  ASSUME Typed, NEW from \in Spans
  PROVE
    /\ Build("Match", from) \in Neutral /\ Build("Struct", from) \in Neutral
    /\ Build("Enum", from) \in Neutral /\ Build("Type", from) \in Neutral
    /\ Build("Import", from) \in Neutral /\ Build("Param", from) \in Neutral
    /\ Build("Fn", from) \in Neutral /\ Build("Block", from) \in Neutral
    /\ Build("Let", from) \in Neutral /\ Build("If", from) \in Neutral
    /\ Build("While", from) \in Neutral /\ Build("Vloop", from) \in Neutral
    /\ Build("For", from) \in Neutral /\ Build("Return", from) \in Neutral
    /\ Build("Break", from) \in Neutral /\ Build("ExprStmt", from) \in Neutral
    /\ Build("Arm", from) \in Neutral /\ Build("Unary", from) \in Neutral
    /\ Build("Array", from) \in Neutral /\ Build("Call", from) \in Neutral
    /\ Build("Assign", from) \in Neutral /\ Build("Binary", from) \in Neutral
    /\ Build("Index", from) \in Neutral /\ Build("Member", from) \in Neutral
    /\ Build("Cast", from) \in Neutral
BY NeutralBuild DEF NodeKinds

LEMMA NeutralWords ==
  /\ Expect("id") \in Neutral /\ Expect(":") \in Neutral /\ Expect("=") \in Neutral
  /\ Expect("in") \in Neutral /\ Expect("=>") \in Neutral
  /\ Match(";") \in Neutral /\ Match("mut") \in Neutral /\ Match("pub") \in Neutral
  /\ Match(",") \in Neutral /\ Match("let") \in Neutral /\ Match("if") \in Neutral
  /\ Loose => Match("(") \in Neutral /\ Match(")") \in Neutral
  /\ Expr(0) \in Neutral /\ Throw \in Neutral /\ Fold \in Neutral
<1>1. \A k \in {"id", ":", "=", "in", "=>"} : k \in ExpectKinds \ Brackets
  BY DEF ExpectKinds, Brackets
<1>2. \A k \in {";", "mut", "pub", ",", "let", "if"} : k \in MatchKinds /\ k \notin Brackets
  BY DEF MatchKinds, Brackets
<1>3. "(" \in MatchKinds /\ ")" \in MatchKinds
  BY DEF MatchKinds
<1>4. Expr(0) \in Neutral
  BY NeutralExpr
<1> QED BY <1>1, <1>2, <1>3, <1>4, NeutralExpect, NeutralMatch, NeutralOthers

LEMMA PairList ==
  <<"(", ")">> \in AllPairs /\ <<"[", "]">> \in AllPairs /\ <<"{", "}">> \in AllPairs
BY DEF AllPairs

LEMMA NeutralLeads ==
  /\ \A x, t : x \in Neutral => Leads(x, t)
  /\ \A t : t \notin Brackets \cup {"huge"} => Leads(Take, t)
  /\ \A t, o : t = o => Opening(Take, t, o)
  /\ \A t, o : Opening(Expect(o), t, o)
BY DEF Leads, Opening

LEMMA ErrorFirst ==
  ASSUME NEW t
  PROVE  Expansion(<<Error, Sync>>, t) /\ Expansion(<<Error, Take>>, t)
<1>1. ASSUME NEW x \in Plain PROVE Expansion(<<Error, x>>, t)
  <2> DEFINE s == <<Error, x>>
  <2>1. s \in Seq(Plain) /\ s[1] = Error /\ s # <<>>
    BY OtherItems
  <2> HIDE DEF s
  <2>2. Expansion(s, t)
    BY <2>1, OtherItems DEF Expansion
  <2> QED BY <2>2 DEF s
<1> QED BY <1>1, OtherItems

\* Declarations.
LEMMA Declarations ==
  ASSUME Typed, Seen
  PROVE  /\ Expansion(parseTopLevelDecl, Cur)
         /\ Expansion(modulePath, Cur)
         /\ Expansion(importAlias, Cur)
         /\ Expansion(parseImportDecl, Cur)
         /\ Expansion(parseFunctionDecl, Cur)
         /\ Expansion(returnType, Cur)
         /\ Expansion(functionBody, Cur)
         /\ Expansion(openBody, Cur)
         /\ Expansion(parseParamList, Cur)
         /\ Expansion(moreParams, Cur)
         /\ Expansion(parseParam, Cur)
         /\ Expansion(parseStructDecl, Cur)
         /\ Expansion(field, Cur)
         /\ Expansion(parseEnumDecl, Cur)
         /\ Expansion(variant, Cur)
         /\ Expansion(variantFields, Cur)
         /\ Expansion(parseTypeAliasDecl, Cur)
         /\ Expansion(parseVarDecl, Cur)
         /\ Expansion(varType, Cur)
         /\ Expansion(varInit, Cur)
<1>0. pos \in Spans /\ Cur \in Tokens \cup {"eof"}
  BY LooksAtToken
<1>1. Expansion(parseTopLevelDecl, Cur)
  <2>1. CASE Cur \in {"fn", "struct", "enum", "type", "import"}
    BY <1>0, <2>1, NeutralCalls, NeutralWords, NeutralBuilds, NeutralLeads, Flat2 DEF parseTopLevelDecl, Brackets
  <2>2. CASE Cur = "let"
    BY <1>0, <2>2, NeutralCalls, NeutralWords, NeutralBuilds, NeutralLeads, Flat1 DEF parseTopLevelDecl, Brackets
  <2>3. CASE Cur \notin {"fn", "struct", "enum", "type", "import", "let"}
    BY <2>3, ErrorFirst DEF parseTopLevelDecl
  <2> QED BY <2>1, <2>2, <2>3
<1>2. Expansion(modulePath, Cur)
  <2>1. CASE Cur = "."
    BY <1>0, <2>1, NeutralCalls, NeutralWords, NeutralBuilds, NeutralLeads, Flat3 DEF modulePath, Brackets
  <2>2. CASE Cur # "."
    BY <2>2, Flat0 DEF modulePath
  <2> QED BY <2>1, <2>2
<1>3. Expansion(importAlias, Cur)
  <2>1. CASE Cur = "as"
    BY <1>0, <2>1, NeutralCalls, NeutralWords, NeutralBuilds, NeutralLeads, Flat2 DEF importAlias, Brackets
  <2>2. CASE Cur # "as"
    BY <2>2, Flat0 DEF importAlias
  <2> QED BY <2>1, <2>2
<1>4. Expansion(parseImportDecl, Cur)
  BY <1>0, NeutralCalls, NeutralWords, NeutralBuilds, NeutralLeads, Flat5 DEF parseImportDecl
<1>5. Expansion(parseFunctionDecl, Cur)
  BY <1>0, NeutralCalls, NeutralWords, NeutralBuilds, NeutralLeads, PairList,
     NeutralDeclare, Framed824 DEF parseFunctionDecl
<1>6. Expansion(returnType, Cur)
  <2>1. CASE Cur = "->"
    BY <1>0, <2>1, NeutralCalls, NeutralWords, NeutralBuilds, NeutralLeads, Flat2 DEF returnType, Brackets
  <2>2. CASE Cur # "->"
    BY <2>2, Flat0 DEF returnType
  <2> QED BY <2>1, <2>2
<1>7. Expansion(functionBody, Cur)
  <2>1. CASE Cur = "{"
    BY <1>0, <2>1, NeutralCalls, NeutralWords, NeutralBuilds, NeutralLeads, Flat1 DEF functionBody, Brackets
  <2>2. CASE Cur # "{"
    BY <1>0, <2>2, NeutralCalls, NeutralWords, NeutralBuilds, NeutralLeads, Flat1 DEF functionBody, Brackets
  <2> QED BY <2>1, <2>2
<1>8. Expansion(openBody, Cur)
  <2>1. CASE AtEnd \/ Cur \in DeclStart \ {"let"}
    BY <2>1, Flat0 DEF openBody
  <2>2. CASE ~(AtEnd \/ Cur \in DeclStart \ {"let"})
    BY <1>0, <2>2, NeutralCalls, NeutralWords, NeutralBuilds, NeutralLeads, Flat2 DEF openBody, Brackets
  <2> QED BY <2>1, <2>2
<1>9. Expansion(parseParamList, Cur)
  <2>1. CASE Cur = ")"
    BY <2>1, Flat0 DEF parseParamList
  <2>2. CASE Cur # ")"
    BY <1>0, <2>2, NeutralCalls, NeutralWords, NeutralBuilds, NeutralLeads, Flat2 DEF parseParamList, Brackets
  <2> QED BY <2>1, <2>2
<1>10. Expansion(moreParams, Cur)
  <2>1. CASE Cur = "," /\ Peek = ")"
    BY <1>0, <2>1, NeutralCalls, NeutralWords, NeutralBuilds, NeutralLeads, Flat1 DEF moreParams, Brackets
  <2>2. CASE Cur = "," /\ Peek # ")"
    BY <1>0, <2>2, NeutralCalls, NeutralWords, NeutralBuilds, NeutralLeads, Flat3 DEF moreParams, Brackets
  <2>3. CASE Cur # ","
    BY <2>3, Flat0 DEF moreParams
  <2> QED BY <2>1, <2>2, <2>3
<1>11. Expansion(parseParam, Cur)
  BY <1>0, NeutralCalls, NeutralWords, NeutralBuilds, NeutralLeads, Flat5 DEF parseParam
<1>12. Expansion(parseStructDecl, Cur)
  BY <1>0, NeutralCalls, NeutralWords, NeutralBuilds, NeutralLeads, PairList, Framed524 DEF parseStructDecl
<1>13. Expansion(field, Cur)
  BY <1>0, NeutralCalls, NeutralWords, NeutralBuilds, NeutralLeads, Flat5 DEF field
<1>14. Expansion(parseEnumDecl, Cur)
  BY <1>0, NeutralCalls, NeutralWords, NeutralBuilds, NeutralLeads, PairList, Framed524 DEF parseEnumDecl
<1>15. Expansion(variant, Cur)
  BY <1>0, NeutralCalls, NeutralWords, NeutralBuilds, NeutralLeads, Flat3 DEF variant
<1>16. Expansion(variantFields, Cur)
  <2>1. CASE Cur = "("
    BY <1>0, <2>1, NeutralCalls, NeutralWords, NeutralBuilds, NeutralLeads, PairList,
       Framed414 DEF variantFields, Brackets
  <2>2. CASE Cur # "("
    BY <2>2, Flat0 DEF variantFields
  <2> QED BY <2>1, <2>2
<1>17. Expansion(parseTypeAliasDecl, Cur)
  BY <1>0, NeutralCalls, NeutralWords, NeutralBuilds, NeutralLeads, Flat5 DEF parseTypeAliasDecl
<1>18. Expansion(parseVarDecl, Cur)
  BY <1>0, NeutralCalls, NeutralWords, NeutralBuilds, NeutralLeads, Flat6 DEF parseVarDecl
<1>19. Expansion(varType, Cur)
  <2>1. CASE Cur = ":"
    BY <1>0, <2>1, NeutralCalls, NeutralWords, NeutralBuilds, NeutralLeads, Flat2 DEF varType, Brackets
  <2>2. CASE Cur # ":"
    BY <2>2, Flat0 DEF varType
  <2> QED BY <2>1, <2>2
<1>20. Expansion(varInit, Cur)
  <2>1. CASE Cur = "="
    BY <1>0, <2>1, NeutralCalls, NeutralWords, NeutralBuilds, NeutralLeads, Flat2 DEF varInit, Brackets
  <2>2. CASE Cur # "="
    BY <2>2, Flat0 DEF varInit
  <2> QED BY <2>1, <2>2
<1> QED BY <1>1, <1>2, <1>3, <1>4, <1>5, <1>6, <1>7, <1>8, <1>9, <1>10, <1>11, <1>12,
      <1>13, <1>14, <1>15, <1>16, <1>17, <1>18, <1>19, <1>20

\* Statements.
LEMMA Statements ==
  ASSUME Typed, Seen
  PROVE  /\ Expansion(parseBlock, Cur)
         /\ Expansion(body, Cur)
         /\ Expansion(parseStmt, Cur)
         /\ Loose => Expansion(parseIfStmt, Cur)
         /\ Loose => Expansion(elseBranch, Cur)
         /\ Loose => Expansion(parseMatchStmt, Cur)
         /\ Expansion(parseWhileStmt, Cur)
         /\ Expansion(parseVloopStmt, Cur)
         /\ Expansion(parseForStmt, Cur)
         /\ Expansion(matchArm, Cur)
         /\ Expansion(parseReturnStmt, Cur)
<1>0. pos \in Spans /\ Cur \in Tokens \cup {"eof"}
  BY LooksAtToken
<1>1. Expansion(parseBlock, Cur)
  BY <1>0, NeutralCalls, NeutralWords, NeutralBuilds, NeutralLeads, PairList, Framed413 DEF parseBlock
<1>2. Expansion(body, Cur)
  <2>1. CASE Cur = "{"
    BY <1>0, <2>1, NeutralCalls, NeutralWords, NeutralBuilds, NeutralLeads, Flat1 DEF body, Brackets
  <2>2. CASE Cur # "{"
    BY <1>0, <2>2, NeutralCalls, NeutralWords, NeutralBuilds, NeutralLeads, Flat1 DEF body, Brackets
  <2> QED BY <2>1, <2>2
<1>3. Expansion(parseStmt, Cur)
  <2>1. CASE Cur \in {"{", "let"}
    BY <1>0, <2>1, NeutralCalls, NeutralWords, NeutralBuilds, NeutralLeads, Flat1 DEF parseStmt, Brackets
  <2>2. CASE Cur \in {"if", "ef", "match"}
    <3>1. Loose
      BY <1>0, <2>2 DEF Loose
    <3> QED BY <1>0, <2>2, <3>1, NeutralCalls, NeutralWords, NeutralBuilds, NeutralLeads, Flat2 DEF parseStmt, Brackets
  <2>3. CASE Cur \in {"while", "vloop", "for", "return"}
    BY <1>0, <2>3, NeutralCalls, NeutralWords, NeutralBuilds, NeutralLeads, Flat2 DEF parseStmt, Brackets
  <2>4. CASE Cur = "break"
    BY <1>0, <2>4, NeutralCalls, NeutralWords, NeutralBuilds, NeutralLeads, Flat3 DEF parseStmt, Brackets
  <2>5. CASE Cur \notin {"{", "let", "if", "ef", "match", "while", "vloop", "for", "return", "break"}
    BY <1>0, <2>5, NeutralCalls, NeutralWords, NeutralBuilds, NeutralLeads, Flat3 DEF parseStmt, Brackets
  <2> QED BY <2>1, <2>2, <2>3, <2>4, <2>5
<1>4. ASSUME Loose PROVE Expansion(parseIfStmt, Cur)
  BY <1>0, <1>4, NeutralCalls, NeutralWords, NeutralBuilds, NeutralLeads, Flat6 DEF parseIfStmt
<1>5. ASSUME Loose PROVE Expansion(elseBranch, Cur)
  <2>1. CASE Cur = "ef" \/ (Cur = "else" /\ Peek = "if")
    BY <1>0, <1>5, <2>1, NeutralCalls, NeutralWords, NeutralBuilds, NeutralLeads, Flat3 DEF elseBranch, Brackets
  <2>2. CASE Cur = "el" \/ (Cur = "else" /\ Peek # "if")
    BY <1>0, <1>5, <2>2, NeutralCalls, NeutralWords, NeutralBuilds, NeutralLeads, Flat2 DEF elseBranch, Brackets
  <2>3. CASE Cur \notin {"ef", "el", "else"}
    BY <2>3, Flat0 DEF elseBranch
  <2> QED BY <2>1, <2>2, <2>3
<1>6. ASSUME Loose PROVE Expansion(parseMatchStmt, Cur)
  BY <1>0, <1>6, NeutralCalls, NeutralWords, NeutralBuilds, NeutralLeads, PairList,
     Framed746 DEF parseMatchStmt
<1>7. Expansion(parseWhileStmt, Cur)
  BY <1>0, NeutralCalls, NeutralWords, NeutralBuilds, NeutralLeads, Flat3 DEF parseWhileStmt
<1>8. Expansion(parseVloopStmt, Cur)
  BY <1>0, NeutralCalls, NeutralWords, NeutralBuilds, NeutralLeads, PairList, Framed513 DEF parseVloopStmt
<1>9. Expansion(parseForStmt, Cur)
  BY <1>0, NeutralCalls, NeutralWords, NeutralBuilds, NeutralLeads, Flat5 DEF parseForStmt
<1>10. Expansion(matchArm, Cur)
  <2>1. CASE Cur = "_"
    BY <1>0, <2>1, NeutralCalls, NeutralWords, NeutralBuilds, NeutralLeads, Flat5 DEF matchArm, Brackets
  <2>2. CASE Cur # "_"
    BY <1>0, <2>2, NeutralCalls, NeutralWords, NeutralBuilds, NeutralLeads, Flat5 DEF matchArm, Brackets
  <2> QED BY <2>1, <2>2
<1>11. Expansion(parseReturnStmt, Cur)
  <2>1. CASE Cur \in {";", "}"} \/ AtEnd
    BY <1>0, <2>1, NeutralCalls, NeutralWords, NeutralBuilds, NeutralLeads, Flat2 DEF parseReturnStmt, Brackets
  <2>2. CASE ~(Cur \in {";", "}"} \/ AtEnd)
    BY <1>0, <2>2, NeutralCalls, NeutralWords, NeutralBuilds, NeutralLeads, Flat3 DEF parseReturnStmt, Brackets
  <2> QED BY <2>1, <2>2
<1> QED BY <1>1, <1>2, <1>3, <1>4, <1>5, <1>6, <1>7, <1>8, <1>9, <1>10, <1>11

\* Expressions.
LEMMA Expressions ==
  ASSUME Typed, Seen, NEW min \in 0 .. 10, NEW from \in Spans
  PROVE  /\ Expansion(parseExpr(min), Cur)
         /\ Expansion(operators(min, from), Cur)
         /\ Expansion(infix(min, from), Cur)
         /\ Expansion(parsePrimaryExpr, Cur)
         /\ Expansion(elements, Cur)
         /\ Expansion(parsePostfixExpr(from), Cur)
         /\ Expansion(parseCallArgs, Cur)
<1>0. pos \in Spans /\ Cur \in Tokens \cup {"eof"}
  BY LooksAtToken
<1>1. Expansion(parseExpr(min), Cur)
  BY <1>0, NeutralCalls, NeutralWords, NeutralBuilds, NeutralLeads, NeutralOperand,
     Flat3 DEF parseExpr
<1>2. Expansion(operators(min, from), Cur)
  <2>1. CASE Cur = "="
    BY <1>0, <2>1, NeutralCalls, NeutralWords, NeutralBuilds, NeutralLeads, Flat3 DEF operators, Brackets
  <2>2. CASE Cur # "="
    BY <1>0, <2>2, NeutralCalls, NeutralWords, NeutralBuilds, NeutralLeads,
       NeutralOperand, Flat1 DEF operators, Brackets
  <2> QED BY <2>1, <2>2
<1>3. Expansion(infix(min, from), Cur)
  <2>1. CASE infixPrecedence(Cur) <= min
    BY <2>1, Flat0 DEF infix
  <2>2. CASE ~(infixPrecedence(Cur) <= min)
    <3>0. infixPrecedence(Cur) \in 0 .. 10
      BY DEF infixPrecedence
    <3>1. infixPrecedence(Cur) \in 1 .. 10
      BY <2>2, <3>0
    <3>2. Leads(Take, Cur)
      <4>1. infixPrecedence(Cur) # 0
        BY <3>1
      <4>2. Cur \notin Brackets \cup {"huge"}
        BY <4>1 DEF infixPrecedence, Brackets
      <4> QED BY <4>2, NeutralLeads
    <3>3. Expr(infixPrecedence(Cur)) \in Neutral
      BY <3>1, NeutralExpr
    <3> QED BY <1>0, <2>2, <3>2, <3>3, NeutralBuilds, NeutralOperand, Flat5 DEF infix
  <2> QED BY <2>1, <2>2
<1>4. Expansion(parsePrimaryExpr, Cur)
  <2>1. CASE Cur \in {"-", "!", "*", "&"}
    BY <1>0, <2>1, NeutralCalls, NeutralWords, NeutralBuilds, NeutralLeads, Flat3 DEF parsePrimaryExpr, Brackets, Ids
  <2>2. CASE Cur = "("
    BY <1>0, <2>2, NeutralCalls, NeutralWords, NeutralBuilds, NeutralLeads, PairList,
       Framed313 DEF parsePrimaryExpr, Brackets, Ids
  <2>3. CASE Cur = "huge"
    BY <1>0, <2>3, NeutralCalls, NeutralWords, NeutralBuilds, NeutralLeads, Flat1 DEF parsePrimaryExpr, Brackets, Ids
  <2>4. CASE Cur = "array"
    BY <1>0, <2>4, NeutralCalls, NeutralWords, NeutralBuilds, NeutralLeads, PairList,
       Framed524 DEF parsePrimaryExpr, Brackets, Ids
  <2>5. CASE Cur \in {"id", "main", "_", "int"}
    BY <1>0, <2>5, NeutralCalls, NeutralWords, NeutralBuilds, NeutralLeads, Flat1 DEF parsePrimaryExpr, Brackets, Ids
  <2>6. CASE Cur \notin {"-", "!", "*", "&", "(", "huge", "array", "id", "main", "_", "int"}
    BY <2>6, ErrorFirst DEF parsePrimaryExpr, Ids
  <2> QED BY <2>1, <2>2, <2>3, <2>4, <2>5, <2>6
<1>5. Expansion(elements, Cur)
  <2>1. CASE Cur = "]"
    BY <2>1, Flat0 DEF elements
  <2>2. CASE Cur # "]"
    BY <1>0, <2>2, NeutralCalls, NeutralWords, NeutralBuilds, NeutralLeads, Flat2 DEF elements, Brackets
  <2> QED BY <2>1, <2>2
<1>6. Expansion(parsePostfixExpr(from), Cur)
  <2>1. CASE Cur = "("
    BY <1>0, <2>1, NeutralCalls, NeutralWords, NeutralBuilds, NeutralLeads, PairList,
       NeutralOperand, Framed513 DEF parsePostfixExpr, Brackets
  <2>2. CASE Cur = "["
    BY <1>0, <2>2, NeutralCalls, NeutralWords, NeutralBuilds, NeutralLeads, PairList,
       NeutralOperand, Framed513 DEF parsePostfixExpr, Brackets
  <2>3. CASE Cur \in {".", "as"}
    BY <1>0, <2>3, NeutralCalls, NeutralWords, NeutralBuilds, NeutralLeads,
       NeutralOperand, Flat4 DEF parsePostfixExpr, Brackets
  <2>4. CASE Cur \notin {"(", "[", ".", "as"}
    BY <2>4, Flat0 DEF parsePostfixExpr
  <2> QED BY <2>1, <2>2, <2>3, <2>4
<1>7. Expansion(parseCallArgs, Cur)
  <2>1. CASE Cur = ")"
    BY <2>1, Flat0 DEF parseCallArgs
  <2>2. CASE Cur # ")"
    BY <1>0, <2>2, NeutralCalls, NeutralWords, NeutralBuilds, NeutralLeads, Flat2 DEF parseCallArgs, Brackets
  <2> QED BY <2>1, <2>2
<1> QED BY <1>1, <1>2, <1>3, <1>4, <1>5, <1>6, <1>7

\* Types.
LEMMA Types ==
  ASSUME Typed, Seen
  PROVE  /\ Expansion(parseType, Cur)
         /\ Expansion(arraySize, Cur)
         /\ Expansion(typeList, Cur)
         /\ Expansion(typePath, Cur)
<1>0. pos \in Spans /\ Cur \in Tokens \cup {"eof"}
  BY LooksAtToken
<1>1. Expansion(parseType, Cur)
  <2>1. CASE Cur = "*"
    BY <1>0, <2>1, NeutralCalls, NeutralWords, NeutralBuilds, NeutralLeads, Flat3 DEF parseType, Brackets
  <2>2. CASE Cur = "["
    BY <1>0, <2>2, NeutralCalls, NeutralWords, NeutralBuilds, NeutralLeads, PairList,
       Framed414 DEF parseType, Brackets
  <2>3. CASE Cur = "fn"
    BY <1>0, <2>3, NeutralCalls, NeutralWords, NeutralBuilds, NeutralLeads, PairList,
       Framed524 DEF parseType, Brackets
  <2>4. CASE Cur \notin {"*", "[", "fn"}
    BY <1>0, <2>4, NeutralCalls, NeutralWords, NeutralBuilds, NeutralLeads, Flat2 DEF parseType, Brackets
  <2> QED BY <2>1, <2>2, <2>3, <2>4
<1>2. Expansion(arraySize, Cur)
  <2>1. CASE Cur = ";"
    BY <1>0, <2>1, NeutralCalls, NeutralWords, NeutralBuilds, NeutralLeads, Flat2 DEF arraySize, Brackets
  <2>2. CASE Cur # ";"
    BY <2>2, Flat0 DEF arraySize
  <2> QED BY <2>1, <2>2
<1>3. Expansion(typeList, Cur)
  <2>1. CASE Cur = ")"
    BY <2>1, Flat0 DEF typeList
  <2>2. CASE Cur # ")"
    BY <1>0, <2>2, NeutralCalls, NeutralWords, NeutralBuilds, NeutralLeads, Flat2 DEF typeList, Brackets
  <2> QED BY <2>1, <2>2
<1>4. Expansion(typePath, Cur)
  <2>1. CASE Cur = "::"
    BY <1>0, <2>1, NeutralCalls, NeutralWords, NeutralBuilds, NeutralLeads, Flat3 DEF typePath, Brackets
  <2>2. CASE Cur # "::"
    BY <2>2, Flat0 DEF typePath
  <2> QED BY <2>1, <2>2
<1> QED BY <1>1, <1>2, <1>3, <1>4

\* Every call that the parser makes is one that Callee knows.
LEMMA CallExpands ==
  ASSUME Typed, Seen, NEW x \in Good, x.do = "call"
  PROVE  Expansion(Callee(x), Cur)
<1>0. x \in Items
  BY DEF Good
<1>1. x.min \in 0 .. 10 /\ 0 \in 0 .. 10
  BY <1>0, ItemFields
<1>2. 1 \in Spans
  BY DEF Typed, Spans
<1>3. \/ x.what \in Callable
      \/ x.what \in Operand /\ x.from \in Spans
      \/ x.what \in Optional /\ Loose
  BY DEF Good
<1>4. CASE x.what \in Operand /\ x.from \in Spans
  <2>1. CASE x.what = "operators"
    BY <1>1, <1>4, <2>1, Expressions DEF Callee
  <2>2. CASE x.what = "infix"
    BY <1>1, <1>4, <2>2, Expressions DEF Callee
  <2>3. CASE x.what = "parsePostfixExpr"
    BY <1>1, <1>4, <2>3, Expressions DEF Callee
  <2> QED BY <1>4, <2>1, <2>2, <2>3 DEF Operand
<1>5. CASE x.what \in Optional /\ Loose
  BY <1>5, Statements DEF Callee, Optional
<1>6. CASE x.what \in Callable
  <2>1. Expansion(parseExpr(x.min), Cur) /\ Expansion(parsePrimaryExpr, Cur)
        /\ Expansion(elements, Cur) /\ Expansion(parseCallArgs, Cur)
    BY <1>1, <1>2, Expressions
  <2> QED BY <1>6, <2>1, Declarations, Statements, Types
          DEF Callee, Callable, Callees, Operand, Optional
<1> QED BY <1>3, <1>4, <1>5, <1>6

-----------------------------------------------------------------------------
(***************************************************************************)
(* Brackets that are due.                                                  *)
(***************************************************************************)
LEMMA AddsType ==
  ASSUME NEW x, NEW p, NEW t
  PROVE  Adds(x, p, t) \in Int /\ Weight(t, p) \in Int
<1>1. \A u : Weight(u, p) \in Int
  BY DEF Weight
<1> QED BY <1>1 DEF Adds

LEMMA AddsTokenFree ==
  ASSUME NEW x, NEW p, NEW t, NEW u, x.do # "take"
  PROVE  Adds(x, p, t) = Adds(x, p, u)
BY DEF Adds

LEMMA DueBehind ==
  ASSUME NEW s \in Seq(Items), s # <<>>, NEW p, NEW t, NEW u, NEW n, Due(s, p, t, n),
         \A i \in 2 .. Len(s) : s[i].do # "take"
  PROVE  n - Adds(s[1], p, t) \in Nat /\ Due(Tail(s), p, u, n - Adds(s[1], p, t))
<1>0. PICK due : IsDue(due, s, p, t) /\ due[1] = n
  BY DEF Due
<1> DEFINE r == Tail(s)
           d == [i \in 1 .. Len(s) |-> due[i + 1]]
<1>1. /\ Len(s) \in Nat /\ Len(s) >= 1 /\ Len(r) = Len(s) - 1
      /\ \A i \in 1 .. Len(s) - 1 : r[i] = s[i + 1]
  OBVIOUS
<1>2. /\ due \in [1 .. Len(s) + 1 -> Nat] /\ due[Len(s) + 1] = 0
      /\ \A i \in 1 .. Len(s) : due[i] = due[i + 1] + Adds(s[i], p, t)
  BY <1>0 DEF IsDue
<1>3. /\ d \in [1 .. Len(s) -> Nat] /\ d[Len(s)] = 0
      /\ \A i \in 1 .. Len(s) : d[i] = due[i + 1]
  BY <1>1, <1>2
<1> HIDE DEF r, d
<1>4. ASSUME NEW i \in 1 .. Len(r)
      PROVE  d[i] = d[i + 1] + Adds(r[i], p, u)
  <2>1. i \in 1 .. Len(s) /\ i + 1 \in 1 .. Len(s) /\ i + 1 \in 2 .. Len(s)
    BY <1>1
  <2>2. r[i] = s[i + 1] /\ d[i] = due[i + 1] /\ d[i + 1] = due[i + 1 + 1]
    BY <1>1, <1>3, <2>1
  <2>3. due[i + 1] = due[i + 1 + 1] + Adds(s[i + 1], p, t)
    BY <1>2, <2>1
  <2>4. Adds(s[i + 1], p, t) = Adds(s[i + 1], p, u)
    BY <2>1, AddsTokenFree
  <2> QED BY <2>2, <2>3, <2>4
<1>5. IsDue(d, r, p, u)
  BY <1>1, <1>3, <1>4 DEF IsDue
<1>6. d[1] \in Nat /\ n = d[1] + Adds(s[1], p, t) /\ Adds(s[1], p, t) \in Int
  <2>1. 1 \in 1 .. Len(s) /\ 1 + 1 = 2
    BY <1>1
  <2>2. due[1] = due[2] + Adds(s[1], p, t) /\ d[1] = due[2] /\ d[1] \in Nat
    BY <1>2, <1>3, <2>1
  <2> QED BY <1>0, <2>2, AddsType
<1>7. Due(r, p, u, d[1])
  BY <1>5 DEF Due
<1>8. n - Adds(s[1], p, t) = d[1]
  BY <1>6
<1> QED BY <1>6, <1>7, <1>8 DEF r

LEMMA DueBefore ==
  ASSUME NEW s \in Seq(Items), NEW items \in Seq(Items), NEW p, NEW t, NEW n,
         Due(s, p, t, n), Nested(items, p, t)
  PROVE  Due(items \o s, p, t, n)
<1>0. PICK due : IsDue(due, s, p, t) /\ due[1] = n
  BY DEF Due
<1> DEFINE r == items \o s
           m == Len(items)
<1>1. /\ Len(s) \in Nat /\ m \in Nat /\ Len(r) = m + Len(s)
      /\ \A i \in 1 .. m : r[i] = items[i]
      /\ \A i \in m + 1 .. m + Len(s) : r[i] = s[i - m]
  OBVIOUS
<1>2. /\ due \in [1 .. Len(s) + 1 -> Nat] /\ due[Len(s) + 1] = 0
      /\ \A i \in 1 .. Len(s) : due[i] = due[i + 1] + Adds(s[i], p, t)
  BY <1>0 DEF IsDue
<1> HIDE DEF r, m
<1>3. ASSUME NEW a \in Nat, NEW b \in Nat, a <= b, b <= m,
             \A i \in 1 .. m : Adds(items[i], p, t)
               = (IF a = b THEN 0 ELSE IF i = a THEN -1 ELSE IF i = b THEN 1 ELSE 0),
             a >= 1 \/ a = b
      PROVE  \E d : IsDue(d, r, p, t) /\ d[1] = due[1]
  <2> DEFINE in(i) == a < i /\ i <= b
             d == [i \in 1 .. m + Len(s) + 1 |->
                     IF i > m THEN due[i - m] ELSE IF in(i) THEN due[1] + 1 ELSE due[1]]
  <2>1. due[1] \in Nat
    BY <1>1, <1>2
  <2>2. \A i \in m + 1 .. m + Len(s) + 1 : d[i] = due[i - m] /\ due[i - m] \in Nat
    <3>1. ASSUME NEW i \in m + 1 .. m + Len(s) + 1
          PROVE  d[i] = due[i - m] /\ due[i - m] \in Nat
      <4>1. i \in 1 .. m + Len(s) + 1 /\ i > m /\ i - m \in 1 .. Len(s) + 1
        BY <1>1
      <4> QED BY <1>2, <4>1
    <3> QED BY <3>1
  <2>3. \A i \in 1 .. m + 1 : d[i] = IF in(i) THEN due[1] + 1 ELSE due[1]
    BY <1>1, <1>3
  <2>4. d \in [1 .. m + Len(s) + 1 -> Nat]
    BY <1>1, <1>2, <2>1
  <2>5. d[m + Len(s) + 1] = 0 /\ d[1] = due[1]
    BY <1>1, <1>2, <1>3, <2>2, <2>3
  <2> HIDE DEF d
  <2>6. ASSUME NEW i \in 1 .. m + Len(s)
        PROVE  d[i] = d[i + 1] + Adds(r[i], p, t)
    <3>1. CASE i <= m
      <4>1. r[i] = items[i] /\ i \in 1 .. m /\ i + 1 \in 1 .. m + 1 /\ i \in 1 .. m + 1
        BY <1>1, <3>1
      <4>2. Adds(r[i], p, t)
              = (IF a = b THEN 0 ELSE IF i = a THEN -1 ELSE IF i = b THEN 1 ELSE 0)
        BY <1>3, <4>1
      <4>3. /\ d[i] = IF in(i) THEN due[1] + 1 ELSE due[1]
            /\ d[i + 1] = IF in(i + 1) THEN due[1] + 1 ELSE due[1]
        BY <2>3, <4>1
      <4> QED BY <1>1, <1>3, <2>1, <4>1, <4>2, <4>3
    <3>2. CASE i > m
      <4>1. /\ r[i] = s[i - m] /\ i - m \in 1 .. Len(s) /\ i + 1 - m = (i - m) + 1
            /\ d[i] = due[i - m] /\ d[i + 1] = due[i + 1 - m]
        BY <1>1, <2>2, <3>2
      <4> QED BY <1>2, <4>1
    <3> QED BY <1>1, <3>1, <3>2
  <2>7. IsDue(d, r, p, t)
    BY <1>1, <2>4, <2>5, <2>6 DEF IsDue
  <2> QED BY <2>5, <2>7
<1>4. ASSUME \A i \in 1 .. Len(items) : Adds(items[i], p, t) = 0
      PROVE  \E d : IsDue(d, r, p, t) /\ d[1] = due[1]
  <2> DEFINE a == 0
  <2>1. \A i \in 1 .. m : Adds(items[i], p, t) = 0
    BY <1>4 DEF m
  <2>2. a \in Nat /\ a <= a /\ a <= m
    BY <1>1
  <2> HIDE DEF a
  <2>3. \A i \in 1 .. m : Adds(items[i], p, t)
          = (IF a = a THEN 0 ELSE IF i = a THEN -1 ELSE IF i = a THEN 1 ELSE 0)
    BY <2>1
  <2> QED BY <1>3, <2>2, <2>3
<1>5. ASSUME \E a, b \in 1 .. Len(items) :
               /\ a < b /\ Adds(items[a], p, t) = -1 /\ Adds(items[b], p, t) = 1
               /\ \A i \in 1 .. Len(items) \ {a, b} : Adds(items[i], p, t) = 0
      PROVE  \E d : IsDue(d, r, p, t) /\ d[1] = due[1]
  <2>1. PICK a, b \in 1 .. m :
          /\ a < b /\ Adds(items[a], p, t) = -1 /\ Adds(items[b], p, t) = 1
          /\ \A i \in 1 .. m \ {a, b} : Adds(items[i], p, t) = 0
    BY <1>5 DEF m
  <2>2. a \in Nat /\ b \in Nat /\ a <= b /\ b <= m /\ a >= 1 /\ a # b
    BY <1>1, <2>1
  <2>3. \A i \in 1 .. m : Adds(items[i], p, t)
          = (IF a = b THEN 0 ELSE IF i = a THEN -1 ELSE IF i = b THEN 1 ELSE 0)
    BY <2>1, <2>2
  <2> QED BY <1>3, <2>2, <2>3
<1>6. \E d : IsDue(d, r, p, t) /\ d[1] = due[1]
  BY <1>4, <1>5 DEF Nested
<1>7. Due(r, p, t, n)
  BY <1>0, <1>6 DEF Due
<1> QED BY <1>7 DEF r

LEMMA CountType ==
  ASSUME NEW s, NEW k, NEW n \in Nat
  PROVE  CountIn(s, k, n) \in Nat /\ IsFiniteSet({i \in 1 .. n : s[i] = k})
<1> DEFINE S == {i \in 1 .. n : s[i] = k}
<1>1. IsFiniteSet(1 .. n) /\ S \in SUBSET (1 .. n)
  BY FS_Interval
<1>2. IsFiniteSet(S)
  BY <1>1, FS_Subset
<1> QED BY <1>2, FS_CardinalityType DEF CountIn

LEMMA CountNext ==
  ASSUME NEW s, NEW k, NEW n \in Nat, n >= 1
  PROVE  CountIn(s, k, n) = CountIn(s, k, n - 1) + (IF s[n] = k THEN 1 ELSE 0)
<1> DEFINE S == {i \in 1 .. n - 1 : s[i] = k}
           T == {i \in 1 .. n : s[i] = k}
<1>1. n - 1 \in Nat
  OBVIOUS
<1>2. IsFiniteSet(S) /\ Cardinality(S) \in Nat
  BY <1>1, CountType DEF CountIn
<1>3. CASE s[n] = k
  <2>1. T = S \cup {n} /\ n \notin S
    BY <1>3
  <2>2. Cardinality(S \cup {n}) = Cardinality(S) + 1
    BY <1>2, <2>1, FS_AddElement
  <2> QED BY <1>3, <2>1, <2>2 DEF CountIn
<1>4. CASE s[n] # k
  <2>1. T = S
    BY <1>4
  <2> QED BY <1>2, <1>4, <2>1 DEF CountIn
<1> QED BY <1>3, <1>4

\* What is consumed is what the item at the head is there for.
Consumes(p) == \/ pos' = pos /\ Adds(todo[1], p, Cur) = 0
               \/ pos' = pos + 1 /\ Adds(todo[1], p, Cur) = Weight(Cur, p)

LEMMA BalancedStep ==
  ASSUME Typed, todo # <<>>, toks' = toks,
         NEW items \in Seq(Items), todo' = items \o Tail(todo),
         \A i \in 2 .. Len(todo) : todo[i].do # "take",
         NEW p \in AllPairs, Balanced(p), Nested(items, p, Cur'), Consumes(p)
  PROVE  Balanced(p)'
<1> DEFINE o == [n \in Nat |-> CountIn(toks, p[1], n)]
           c == [n \in Nat |-> CountIn(toks, p[2], n)]
           t == Cur
           u == Cur'
           x == Adds(todo[1], p, t)
           w == Weight(t, p)
<1>1. pos \in Nat /\ pos >= 1 /\ pos - 1 \in Nat
  BY DEF Typed
<1>2. todo \in Seq(Items) /\ Tail(todo) \in Seq(Items)
  <2>1. todo \in Seq(Good) /\ Good \subseteq Items
    BY DEF Typed, Good
  <2>2. todo \in Seq(Items)
    BY <2>1
  <2> QED BY <2>2
<1>3. x \in Int /\ w \in Int
  BY AddsType
<1>4. (pos' = pos /\ x = 0) \/ (pos' = pos + 1 /\ x = w)
  BY DEF Consumes
<1>5. /\ \A n \in Nat : o[n] = CountIn(toks, p[1], n) /\ c[n] = CountIn(toks, p[2], n)
      /\ o \in [Nat -> Nat] /\ c \in [Nat -> Nat]
  BY CountType
<1>7. /\ \A n \in 0 .. pos - 1 : c[n] <= o[n]
      /\ Due(todo, p, t, o[pos - 1] - c[pos - 1])
  BY <1>1, <1>5 DEF Balanced
<1>8. Nested(items, p, u)
  OBVIOUS
<1>9. /\ p[1] # p[2]
      /\ w = IF t = p[2] THEN 1 ELSE IF t = p[1] THEN -1 ELSE 0
  BY PairBrackets DEF Weight
<1>10. /\ CountIn(toks, p[1], pos) = CountIn(toks, p[1], pos - 1) + (IF t = p[1] THEN 1 ELSE 0)
       /\ CountIn(toks, p[2], pos) = CountIn(toks, p[2], pos - 1) + (IF t = p[2] THEN 1 ELSE 0)
  BY <1>1, CountNext DEF Cur
<1> HIDE DEF o, c, t, u, x, w
<1>11. o[pos] - c[pos] = o[pos - 1] - c[pos - 1] - w
  <2>1. /\ o[pos] = o[pos - 1] + (IF t = p[1] THEN 1 ELSE 0)
        /\ c[pos] = c[pos - 1] + (IF t = p[2] THEN 1 ELSE 0)
    BY <1>1, <1>5, <1>10
  <2>2. o[pos] \in Nat /\ c[pos] \in Nat /\ o[pos - 1] \in Nat /\ c[pos - 1] \in Nat
    <3>1. pos \in Nat /\ pos - 1 \in Nat /\ o \in [Nat -> Nat] /\ c \in [Nat -> Nat]
      BY <1>1, <1>5
    <3> QED BY <3>1
  <2> QED BY <1>9, <2>1, <2>2
<1> DEFINE n == o[pos - 1] - c[pos - 1]
           m == n - x
<1>12. Due(todo, p, t, n)
  BY <1>7
<1> HIDE DEF n
<1>13. m \in Nat /\ Due(Tail(todo), p, u, m)
  BY <1>2, <1>12, DueBehind DEF x
<1>14. m \in Nat /\ m = o[pos - 1] - c[pos - 1] - x
  BY <1>13 DEF n
<1> HIDE DEF m
<1>15. Due(todo', p, u, m)
  <2>1. Due(items \o Tail(todo), p, u, m)
    BY <1>2, <1>8, <1>13, DueBefore
  <2> QED BY <2>1
<1>16. o[pos' - 1] - c[pos' - 1] = m
  <2>1. o[pos - 1] \in Nat /\ c[pos - 1] \in Nat
    BY <1>1, <1>5
  <2>2. CASE pos' = pos /\ x = 0
    <3>1. m = o[pos - 1] - c[pos - 1]
      BY <1>14, <2>1, <2>2
    <3> QED BY <2>2, <3>1
  <2>3. CASE pos' = pos + 1 /\ x = w
    <3>1. pos' - 1 = pos
      BY <1>1, <2>3
    <3>2. m = o[pos - 1] - c[pos - 1] - w
      BY <1>14, <2>3
    <3> QED BY <1>11, <3>1, <3>2
  <2> QED BY <1>4, <2>2, <2>3
<1>17. ASSUME NEW k \in 0 .. pos' - 1 PROVE c[k] <= o[k]
  <2>1. CASE k \in 0 .. pos - 1
    BY <1>7, <2>1
  <2>2. CASE k \notin 0 .. pos - 1
    <3>1. k = pos' - 1 /\ k \in Nat
      BY <1>1, <1>4, <2>2
    <3>2. o[k] \in Nat /\ c[k] \in Nat /\ o[k] - c[k] \in Nat
      BY <1>5, <1>14, <1>16, <3>1
    <3> QED BY <3>2
  <2> QED BY <2>1, <2>2
<1>18. pos' - 1 \in Nat
  BY <1>1, <1>4
<1>19. ASSUME NEW k \in 0 .. pos' - 1
       PROVE  CountIn(toks', p[2], k) <= CountIn(toks', p[1], k)
  <2>1. k \in Nat /\ c[k] <= o[k]
    BY <1>17, <1>18
  <2>2. c[k] = CountIn(toks, p[2], k) /\ o[k] = CountIn(toks, p[1], k)
    BY <1>5, <2>1
  <2>3. CountIn(toks, p[2], k) <= CountIn(toks, p[1], k)
    BY <2>1, <2>2
  <2> QED BY <2>3
<1>20. Due(todo', p, Cur', CountIn(toks', p[1], pos' - 1) - CountIn(toks', p[2], pos' - 1))
  BY <1>5, <1>15, <1>16, <1>18 DEF u
<1> QED BY <1>19, <1>20 DEF Balanced

-----------------------------------------------------------------------------
(***************************************************************************)
(* A step that puts items in the place of the one at the head.             *)
(***************************************************************************)
Replaces(items) == todo # <<>> /\ Seen /\ toks' = toks /\ todo' = items \o Tail(todo)
Moves == pos' = pos \/ (pos' = pos + 1 /\ Cur # "huge")
Recorded ==
  /\ IsFiniteSet(tree)
  /\ \A n \in tree : n[2] \in Spans /\ n[3] \in 0 .. Len(toks)
  /\ failed \in BOOLEAN /\ moduleName \in Ids \cup {"anon"}
  /\ functions \in Seq(Function) /\ implicitMain \in Seq(Function)

LEMMA Tails ==
  ASSUME Typed, todo # <<>>
  PROVE  /\ todo \in Seq(Good) /\ todo[1] \in Good /\ Tail(todo) \in Seq(Good)
         /\ Len(todo) \in Nat /\ Len(todo) >= 1 /\ Len(Tail(todo)) = Len(todo) - 1
         /\ \A i \in 1 .. Len(todo) - 1 : Tail(todo)[i] = todo[i + 1]
<1>1. todo \in Seq(Good)
  BY DEF Typed
<1> QED BY <1>1

LEMMA Joined ==
  ASSUME NEW S, NEW s \in Seq(S), NEW r \in Seq(S)
  PROVE  /\ s \o r \in Seq(S) /\ Len(s \o r) = Len(s) + Len(r)
         /\ Len(s) \in Nat /\ Len(r) \in Nat
         /\ \A i \in 1 .. Len(s) : (s \o r)[i] = s[i]
         /\ \A i \in Len(s) + 1 .. Len(s) + Len(r) : (s \o r)[i] = r[i - Len(s)]
OBVIOUS

LEMMA TypedStep ==
  ASSUME Typed, NEW items, Replaces(items), items \in Seq(Plain),
         todo[1].do # "toplevel", pos' \in 1 .. Len(toks), Recorded'
  PROVE  Typed'
<1> DEFINE r == Tail(todo)
           s == todo'
<1>1. /\ todo \in Seq(Good) /\ r \in Seq(Good) /\ Len(todo) \in Nat /\ Len(todo) >= 1
      /\ Len(r) = Len(todo) - 1 /\ \A i \in 1 .. Len(todo) - 1 : r[i] = todo[i + 1]
      /\ s = items \o r /\ toks' = toks
  BY Tails DEF Replaces
<1>2. \A i \in 1 .. Len(todo) : todo[i].do = "toplevel" <=> i = Len(todo)
  <2>1. \A i \in DOMAIN todo : todo[i].do = "toplevel" <=> i = Len(todo)
    BY DEF Typed
  <2>2. DOMAIN todo = 1 .. Len(todo)
    BY <1>1
  <2> QED BY <2>1, <2>2, Zenon
<1>3. items \in Seq(Good) /\ \A i \in 1 .. Len(items) : items[i].do # "toplevel"
  <2>1. \A x \in Plain : x \in Good /\ x.do # "toplevel"
    BY DEF Plain
  <2> QED BY <2>1
<1> HIDE DEF r, s
<1>4. /\ s \in Seq(Good) /\ Len(s) = Len(items) + Len(r) /\ Len(items) \in Nat
      /\ \A i \in 1 .. Len(items) : s[i] = items[i]
      /\ \A i \in Len(items) + 1 .. Len(items) + Len(r) : s[i] = r[i - Len(items)]
  BY <1>1, <1>3, Joined
<1>5. 2 <= Len(todo)
  <2>1. 1 # Len(todo)
    BY <1>1, <1>2
  <2> QED BY <1>1, <2>1
<1>6. ASSUME NEW i \in 1 .. Len(s)
      PROVE  s[i].do = "toplevel" <=> i = Len(s)
  <2>1. CASE i \in 1 .. Len(items)
    <3>1. i # Len(s)
      BY <1>1, <1>4, <1>5, <2>1
    <3>2. s[i].do # "toplevel"
      BY <1>3, <1>4, <2>1
    <3> QED BY <3>1, <3>2
  <2>2. CASE i \notin 1 .. Len(items)
    <3> DEFINE j == i - Len(items)
    <3>1. j \in 1 .. Len(todo) - 1 /\ j + 1 \in 1 .. Len(todo)
      BY <1>1, <1>4, <2>2
    <3>2. s[i] = todo[j + 1]
      BY <1>1, <1>4, <2>2
    <3>3. j + 1 = Len(todo) <=> i = Len(s)
      BY <1>1, <1>4, <3>1
    <3> QED BY <1>2, <3>1, <3>2, <3>3
  <2> QED BY <2>1, <2>2
<1>7. s # <<>>
  <2>1. Len(s) # 0
    BY <1>1, <1>4, <1>5
  <2> QED BY <2>1
<1>8. DOMAIN s = 1 .. Len(s)
  BY <1>4
<1>9. Good' = Good
  BY <1>1 DEF Good, Spans
<1>10. /\ toks' \in Seq(Tokens \cup {"eof"}) /\ pos' \in 1 .. Len(toks') + 1
       /\ \A i \in 1 .. Len(toks') - 1 : toks'[i] # "eof"
       /\ pos' \in 1 .. Len(toks')
  <2>1. toks \in Seq(Tokens \cup {"eof"}) /\ Len(toks) \in Nat
        /\ \A i \in 1 .. Len(toks) - 1 : toks[i] # "eof"
    BY DEF Typed
  <2>2. pos' \in 1 .. Len(toks) + 1
    BY <2>1
  <2> QED BY <1>1, <2>1, <2>2
<1>11. todo' \in Seq(Good') /\ todo' # <<>>
       /\ \A i \in DOMAIN todo' : todo'[i].do = "toplevel" <=> i = Len(todo')
  BY <1>4, <1>6, <1>7, <1>8, <1>9 DEF s
<1> QED BY <1>10, <1>11 DEF Typed, Recorded

LEMMA CleanStep ==
  ASSUME Typed, Clean, NEW items \in Seq(Items), Replaces(items), Orderly(items, Cur'),
         pos' \in 1 .. Len(toks), Moves, \A p \in Pairs : Consumes(p)
  PROVE  Clean'
<1> DEFINE r == Tail(todo)
           s == todo'
           u == Cur'
<1>1. /\ todo \in Seq(Good) /\ r \in Seq(Good) /\ Len(todo) \in Nat /\ Len(todo) >= 1
      /\ Len(r) = Len(todo) - 1 /\ \A i \in 1 .. Len(todo) - 1 : r[i] = todo[i + 1]
      /\ s = items \o r /\ toks' = toks
  BY Tails DEF Replaces
<1>2. \A i \in 1 .. Len(todo) : todo[i].do \notin {"error", "sync"}
                                /\ (todo[i].do = "take" => i = 1)
  <2>1. \A i \in DOMAIN todo : todo[i].do \notin {"error", "sync"}
                              /\ (todo[i].do = "take" => i = 1)
    BY DEF Clean
  <2> QED BY <1>1, <2>1
<1>3. \A i \in 1 .. Len(items) : items[i].do \notin {"error", "sync"}
                                 /\ (items[i].do = "take" => i = 1 /\ u # "huge")
  BY DEF Orderly
<1>4. r \in Seq(Items)
  <2>1. Good \subseteq Items
    BY DEF Good
  <2> QED BY <1>1, <2>1
<1>5. \A p \in Pairs : Balanced(p)'
  <2>1. ASSUME NEW p \in Pairs PROVE Balanced(p)'
    <3>1. p \in AllPairs /\ Balanced(p) /\ Nested(items, p, Cur') /\ Consumes(p)
      BY DEF Pairs, Clean, Orderly
    <3>2. todo # <<>> /\ toks' = toks /\ todo' = items \o Tail(todo)
      BY DEF Replaces
    <3>3. \A i \in 2 .. Len(todo) : todo[i].do # "take"
      BY <1>1, <1>2
    <3> QED BY <3>1, <3>2, <3>3, BalancedStep
  <2> QED BY <2>1
<1> HIDE DEF r, s, u
<1>6. /\ s \in Seq(Items) /\ Len(s) = Len(items) + Len(r) /\ Len(items) \in Nat
      /\ \A i \in 1 .. Len(items) : s[i] = items[i]
      /\ \A i \in Len(items) + 1 .. Len(items) + Len(r) : s[i] = r[i - Len(items)]
  BY <1>1, <1>4, Joined
<1>7. ASSUME NEW i \in 1 .. Len(s)
      PROVE  s[i].do \notin {"error", "sync"} /\ (s[i].do = "take" => i = 1 /\ u # "huge")
  <2>1. CASE i \in 1 .. Len(items)
    BY <1>3, <1>6, <2>1
  <2>2. CASE i \notin 1 .. Len(items)
    <3> DEFINE j == i - Len(items)
    <3>1. j \in 1 .. Len(todo) - 1 /\ j + 1 \in 1 .. Len(todo) /\ j + 1 # 1
      BY <1>1, <1>6, <2>2
    <3>2. s[i] = todo[j + 1]
      BY <1>1, <1>6, <2>2
    <3> QED BY <1>2, <3>1, <3>2
  <2> QED BY <2>1, <2>2
<1>8. DOMAIN s = 1 .. Len(s) /\ (s # <<>> => 1 \in 1 .. Len(s))
  BY <1>6
<1>9. ASSUME NEW i \in 1 .. pos' - 1 PROVE toks'[i] # "huge"
  <2>1. pos \in Nat /\ \A k \in 1 .. pos - 1 : toks[k] # "huge"
    BY DEF Typed, Clean
  <2>2. CASE i \in 1 .. pos - 1
    BY <1>1, <2>1, <2>2
  <2>3. CASE i \notin 1 .. pos - 1
    <3>1. pos' = pos + 1 /\ toks[pos] # "huge"
      BY <2>3 DEF Moves, Cur
    <3>2. i = pos
      BY <2>1, <2>3, <3>1
    <3> QED BY <1>1, <3>1, <3>2
  <2> QED BY <2>2, <2>3
<1>10. /\ \A i \in DOMAIN s : s[i].do \notin {"error", "sync"} /\ (s[i].do = "take" => i = 1)
       /\ s # <<>> /\ s[1].do = "take" => pos' \in 1 .. Len(toks') /\ u # "huge"
  BY <1>1, <1>7, <1>8
<1> QED BY <1>5, <1>9, <1>10 DEF Clean, s, u

LEMMA StepKeeps ==
  ASSUME IInv, NEW items, Replaces(items), items \in Seq(Plain),
         todo[1].do # "toplevel", pos' \in 1 .. Len(toks), Recorded',
         Broken => failed',
         Clean => \/ items # <<>> /\ items[1].do = "error"
                  \/ failed'
                  \/ Orderly(items, Cur') /\ Moves /\ \A p \in Pairs : Consumes(p)
  PROVE  IInv'
<1>1. Typed'
  BY TypedStep DEF IInv
<1>2. CASE failed'
  BY <1>1, <1>2 DEF IInv, Broken
<1>3. CASE items # <<>> /\ items[1].do = "error"
  <2>1. Tail(todo) \in Seq(Good) /\ items \in Seq(Good)
    <3>1. Plain \subseteq Good
      BY DEF Plain
    <3> QED BY <3>1, Tails DEF IInv, Replaces
  <2>2. todo' = items \o Tail(todo) /\ 1 \in 1 .. Len(items)
    BY <1>3 DEF Replaces
  <2>3. todo'[1] = items[1] /\ Len(todo') = Len(items) + Len(Tail(todo))
    BY <2>1, <2>2, Joined
  <2>4. todo' # <<>>
    BY <2>1, <2>2, <2>3
  <2> QED BY <1>1, <1>3, <2>3, <2>4 DEF IInv, Broken
<1>4. CASE /\ Clean /\ Orderly(items, Cur') /\ Moves /\ \A p \in Pairs : Consumes(p)
  <2>1. items \in Seq(Items)
    <3>1. Plain \subseteq Items
      BY DEF Plain, Good
    <3> QED BY <3>1
  <2>2. Clean'
    BY <1>4, <2>1, CleanStep DEF IInv
  <2> QED BY <1>1, <2>2 DEF IInv
<1> QED BY <1>2, <1>3, <1>4 DEF IInv

-----------------------------------------------------------------------------
(***************************************************************************)
(* The steps, one by one.                                                  *)
(***************************************************************************)
LEMMA Heads ==
  ASSUME IInv, NEW do, At(do)
  PROVE  /\ Typed /\ todo # <<>> /\ Seen /\ toks' = toks /\ Head1 = todo[1]
         /\ Head1 \in Good /\ Head1.do = do
         /\ pos \in 1 .. Len(toks) /\ pos \in Spans /\ pos \in Nat
         /\ Cur \in Tokens \cup {"eof"}
         /\ Broken => failed \/ do = "error"
         /\ Clean => do \notin {"error", "sync"} /\ (do = "take" => Cur # "huge")
<1>1. Typed /\ todo # <<>> /\ Seen /\ toks' = toks /\ Head1 = todo[1] /\ Head1.do = do
  BY DEF IInv, At, Head1
<1>2. Head1 \in Good /\ Len(todo) \in Nat /\ Len(todo) >= 1 /\ todo \in Seq(Good)
  BY <1>1, Tails
<1>3. pos \in 1 .. Len(toks) /\ pos \in Spans /\ Cur \in Tokens \cup {"eof"}
  BY <1>1, LooksAtToken
<1>4. pos \in Nat
  BY <1>1 DEF Typed
<1>5. Broken => failed \/ do = "error"
  BY <1>1 DEF Broken
<1>6. 1 \in DOMAIN todo
  BY <1>2
<1>7. Clean => do \notin {"error", "sync"} /\ (do = "take" => Cur # "huge")
  BY <1>1, <1>6 DEF Clean
<1> QED BY <1>1, <1>2, <1>3, <1>4, <1>5, <1>7

LEMMA Advances ==
  ASSUME Typed, Seen, Advance
  PROVE  /\ pos' \in 1 .. Len(toks)
         /\ (pos' = pos /\ Cur = "eof") \/ (pos' = pos + 1 /\ Cur # "eof")
<1>1. pos \in 1 .. Len(toks) /\ Len(toks) \in Nat
  BY LooksAtToken DEF Typed
<1>2. CASE AtEnd
  BY <1>1, <1>2 DEF Advance, AtEnd
<1>3. CASE ~AtEnd
  <2>1. pos # Len(toks) \/ ~Ended
    BY <1>3 DEF AtEnd, Ended, Cur
  <2>2. pos < Len(toks)
    BY <1>1, <2>1 DEF Seen
  <2> QED BY <1>1, <1>3, <2>2 DEF Advance, AtEnd
<1> QED BY <1>2, <1>3

LEMMA RecordsKept ==
  ASSUME Typed, toks' = toks, tree' = tree, progVars' = progVars, failed' \in BOOLEAN
  PROVE  Recorded'
<1>1. Spans' = Spans
  BY DEF Spans
<1> QED BY <1>1 DEF Typed, Recorded, progVars

LEMMA NoItems ==
  ASSUME NEW t
  PROVE  <<>> \in Seq(Plain) /\ Orderly(<<>>, t)
<1> DEFINE s == <<>>
<1>1. Expansion(s, t)
  BY Flat0
<1> HIDE DEF s
<1>2. s \in Seq(Plain) /\ (s # <<>> \/ Orderly(s, t))
  BY <1>1 DEF Expansion
<1> QED BY <1>2 DEF s

\* A step that is done with its item.
LEMMA Leaves ==
  ASSUME IInv, NEW do, At(do), Go(<<>>), do # "toplevel", pos' \in 1 .. Len(toks),
         Recorded', Broken => failed',
         Clean => failed' \/ (Moves /\ \A p \in Pairs : Consumes(p))
  PROVE  IInv'
<1> DEFINE s == <<>>
<1>1. Replaces(s) /\ todo[1].do # "toplevel"
  BY Heads DEF Replaces, Go
<1>2. s \in Seq(Plain) /\ Orderly(s, Cur')
  BY NoItems
<1> HIDE DEF s
<1> QED BY <1>1, <1>2, StepKeeps

\* A step that puts items in its place and consumes nothing.
LEMMA Calls ==
  ASSUME IInv, NEW do, At(do), NEW items, Go(items), Expansion(items, Cur),
         do \notin {"toplevel", "error", "sync", "expect", "take"},
         pos' = pos, Recorded', failed' = failed
  PROVE  IInv'
<1>1. Replaces(items) /\ todo[1].do = do /\ pos' \in 1 .. Len(toks) /\ toks' = toks
  BY Heads DEF Replaces, Go
<1>2. Cur' = Cur
  BY <1>1 DEF Cur
<1>3. items \in Seq(Plain) /\ ((items # <<>> /\ items[1].do = "error") \/ Orderly(items, Cur'))
  BY <1>2 DEF Expansion
<1>4. Moves /\ \A p \in Pairs : Consumes(p)
  BY <1>1 DEF Moves, Consumes, Adds
<1>5. Broken => failed'
  BY Heads
<1> QED BY <1>1, <1>3, <1>4, <1>5, StepKeeps

LEMMA KeepsCall ==
  ASSUME IInv, DoCall
  PROVE  IInv'
<1> DEFINE do == "call"
           items == Callee(Head1)
<1>1. At(do) /\ Go(items) /\ pos' = pos /\ failed' = failed /\ tree' = tree
      /\ progVars' = progVars
  BY DEF DoCall, progVars
<1>2. do = "call" /\ do \notin {"toplevel", "error", "sync", "expect", "take"}
  OBVIOUS
<1> HIDE DEF do, items
<1>3. Typed /\ Seen /\ Head1 \in Good /\ Head1.do = do /\ toks' = toks
  BY <1>1, Heads
<1>4. Expansion(items, Cur)
  BY <1>2, <1>3, CallExpands DEF items
<1>5. Recorded'
  BY <1>1, <1>3, RecordsKept DEF Typed
<1> QED BY <1>1, <1>2, <1>4, <1>5, Calls

\* What is repeated is a function, and the repetition stays.
LEMMA Repeats ==
  ASSUME NEW x \in Good, x.do \in {"until", "more"}, NEW t
  PROVE  Expansion(<<Call(x.what), x>>, t)
<1>1. x.what \in Callable /\ x \in Neutral
  BY DEF Good, Neutral, Plain
<1>2. Call(x.what) \in Neutral
  BY <1>1, NeutralCall DEF Callable
<1>3. Leads(Call(x.what), t)
  BY <1>2, NeutralLeads
<1> QED BY <1>1, <1>3, Flat2

LEMMA KeepsUntil ==
  ASSUME IInv, DoUntil
  PROVE  IInv'
<1> DEFINE do == "until"
           items == IF Cur = "}" \/ AtEnd THEN <<>> ELSE <<Call(Head1.what), Head1>>
<1>1. At(do) /\ Go(items) /\ pos' = pos /\ failed' = failed /\ tree' = tree
      /\ progVars' = progVars
  BY DEF DoUntil, progVars
<1>2. do = "until" /\ do \notin {"toplevel", "error", "sync", "expect", "take"}
  OBVIOUS
<1>3. items = <<>> \/ items = <<Call(Head1.what), Head1>>
  OBVIOUS
<1> HIDE DEF do, items
<1>4. Typed /\ Head1 \in Good /\ Head1.do = do /\ toks' = toks
  BY <1>1, Heads
<1>5. Expansion(items, Cur)
  BY <1>2, <1>3, <1>4, Flat0, Repeats
<1>6. Recorded'
  BY <1>1, <1>4, RecordsKept DEF Typed
<1> QED BY <1>1, <1>2, <1>5, <1>6, Calls

LEMMA KeepsMore ==
  ASSUME IInv, DoMore
  PROVE  IInv'
<1> DEFINE do == "more"
<1>1. At(do) /\ failed' = failed /\ tree' = tree /\ progVars' = progVars
  BY DEF DoMore, progVars
<1>2. do = "more" /\ do \notin {"toplevel", "error", "sync", "expect", "take"}
  OBVIOUS
<1> HIDE DEF do
<1>3. /\ Typed /\ Head1 \in Good /\ Head1.do = do /\ toks' = toks /\ Seen /\ Head1 = todo[1]
      /\ Broken => failed
  BY <1>1, <1>2, Heads
<1>4. Recorded'
  BY <1>1, <1>3, RecordsKept DEF Typed
<1>5. CASE Cur = ","
  <2> DEFINE items == <<Call(Head1.what), Head1>>
  <2>1. Go(items) /\ Advance
    BY <1>5 DEF DoMore
  <2>2. Expansion(items, Cur') /\ items[1].do # "error"
    <3>1. Expansion(items, Cur')
      BY <1>2, <1>3, Repeats
    <3>2. Call(Head1.what).do = "call"
      BY DEF Call, Item
    <3> QED BY <3>1, <3>2
  <2> HIDE DEF items
  <2>3. items \in Seq(Plain) /\ Orderly(items, Cur')
    BY <2>2 DEF Expansion
  <2>4. pos' \in 1 .. Len(toks) /\ pos' = pos + 1
    BY <1>3, <1>5, <2>1, Advances
  <2>5. Moves
    BY <1>5, <2>4 DEF Moves
  <2>6. \A p \in Pairs : Consumes(p)
    <3>1. ASSUME NEW p \in Pairs PROVE Consumes(p)
      <4>1. Weight(Cur, p) = 0
        BY <1>5, PairBrackets DEF Weight, Pairs, Brackets
      <4>2. Adds(todo[1], p, Cur) = 0
        BY <1>2, <1>3 DEF Adds
      <4> QED BY <2>4, <4>1, <4>2 DEF Consumes
    <3> QED BY <3>1
  <2>7. Replaces(items) /\ todo[1].do # "toplevel"
    BY <1>1, <1>2, <1>3, <2>1 DEF Replaces, Go, At
  <2> QED BY <1>1, <1>3, <1>4, <2>3, <2>4, <2>5, <2>6, <2>7, StepKeeps
<1>6. CASE Cur # ","
  <2> DEFINE items == <<>>
  <2>1. Go(items) /\ pos' = pos
    BY <1>6 DEF DoMore
  <2>2. Expansion(items, Cur)
    BY Flat0
  <2> HIDE DEF items
  <2> QED BY <1>1, <1>2, <1>4, <2>1, <2>2, Calls
<1> QED BY <1>5, <1>6

\* A token that is the one expected adds what it would.
LEMMA IsWeight ==
  ASSUME NEW t, NEW k, Is(t, k)
  PROVE  /\ t \in {"huge", "eof"} => k = t
         /\ \A p \in AllPairs : Weight(t, p) = Weight(k, p)
<1>1. t = k \/ (k = "id" /\ t \in Ids)
  BY DEF Is
<1>2. ASSUME NEW p \in AllPairs PROVE Weight(t, p) = Weight(k, p)
  BY <1>1, <1>2, PairBrackets DEF Weight, Ids
<1> QED BY <1>1, <1>2 DEF Ids

LEMMA KeepsExpect ==
  ASSUME IInv, DoExpect
  PROVE  IInv'
<1> DEFINE do == "expect"
           none == <<>>
<1>1. /\ At(do) /\ Go(none) /\ tree' = tree /\ progVars' = progVars
      /\ IF Is(Cur, Head1.what) THEN Advance /\ failed' = failed
                                ELSE failed' = TRUE /\ pos' = pos
  BY DEF DoExpect, progVars
<1>2. do = "expect" /\ do # "toplevel" /\ do # "error"
  OBVIOUS
<1> HIDE DEF do
<1>3. /\ Typed /\ Head1 \in Good /\ Head1.do = do /\ toks' = toks /\ Seen /\ Head1 = todo[1]
      /\ pos \in 1 .. Len(toks) /\ (Broken => failed)
  BY <1>1, <1>2, Heads
<1>4. failed \in BOOLEAN
  BY <1>3 DEF Typed
<1>5. Recorded'
  BY <1>1, <1>3, <1>4, RecordsKept
<1>6. CASE Is(Cur, Head1.what)
  <2>1. Head1.what \in ExpectKinds
    BY <1>2, <1>3 DEF Good
  <2>2. Cur # "eof" /\ Cur # "huge"
    BY <1>6, <2>1, IsWeight DEF ExpectKinds
  <2>3. pos' \in 1 .. Len(toks) /\ pos' = pos + 1
    BY <1>1, <1>3, <1>6, <2>2, Advances
  <2>4. Moves
    BY <2>2, <2>3 DEF Moves
  <2>5. \A p \in Pairs : Consumes(p)
    <3>1. ASSUME NEW p \in Pairs PROVE Consumes(p)
      <4>1. Weight(Cur, p) = Weight(Head1.what, p)
        BY <1>6, IsWeight DEF Pairs
      <4>2. Adds(todo[1], p, Cur) = Weight(Head1.what, p)
        BY <1>2, <1>3 DEF Adds
      <4> QED BY <2>3, <4>1, <4>2 DEF Consumes
    <3> QED BY <3>1
  <2> QED BY <1>1, <1>2, <1>3, <1>5, <1>6, <2>3, <2>4, <2>5, Leaves
<1>7. CASE ~Is(Cur, Head1.what)
  BY <1>1, <1>2, <1>3, <1>5, <1>7, Leaves
<1> QED BY <1>6, <1>7

\* Of the brackets, only parentheses are matched, and those of if and match
\* alone.
LEMMA MatchWeight ==
  ASSUME NEW x \in Good, x.do = "match", NEW p \in Pairs
  PROVE  Weight(x.what, p) = 0
<1>1. x.what \in MatchKinds /\ (x.what \in Brackets => Loose)
  BY DEF Good
<1>2. p \in AllPairs /\ (Loose => p # <<"(", ")">>)
  BY DEF Pairs
<1>3. CASE p = <<"(", ")">> /\ p[1] = "(" /\ p[2] = ")"
  <2>1. x.what \notin Brackets
    BY <1>1, <1>2, <1>3
  <2> QED BY <1>3, <2>1 DEF Weight, Brackets
<1>4. CASE p[1] = "[" /\ p[2] = "]"
  BY <1>1, <1>4 DEF Weight, MatchKinds
<1>5. CASE p[1] = "{" /\ p[2] = "}"
  BY <1>1, <1>5 DEF Weight, MatchKinds
<1> QED BY <1>2, <1>3, <1>4, <1>5, PairKinds

LEMMA KeepsMatch ==
  ASSUME IInv, DoMatch
  PROVE  IInv'
<1> DEFINE do == "match"
           none == <<>>
<1>1. /\ At(do) /\ Go(none) /\ tree' = tree /\ progVars' = progVars /\ failed' = failed
      /\ IF Is(Cur, Head1.what) THEN Advance ELSE pos' = pos
  BY DEF DoMatch, progVars
<1>2. do = "match" /\ do # "toplevel" /\ do # "error"
  OBVIOUS
<1> HIDE DEF do
<1>3. /\ Typed /\ Head1 \in Good /\ Head1.do = do /\ toks' = toks /\ Seen /\ Head1 = todo[1]
      /\ pos \in 1 .. Len(toks) /\ (Broken => failed)
  BY <1>1, <1>2, Heads
<1>4. failed \in BOOLEAN
  BY <1>3 DEF Typed
<1>5. Recorded'
  BY <1>1, <1>3, <1>4, RecordsKept
<1>6. \A p \in Pairs : Adds(todo[1], p, Cur) = 0
  BY <1>2, <1>3 DEF Adds
<1>7. CASE Is(Cur, Head1.what)
  <2>1. Head1.what \in MatchKinds
    BY <1>2, <1>3 DEF Good
  <2>2. Cur # "eof" /\ Cur # "huge"
    BY <1>7, <2>1, IsWeight DEF MatchKinds
  <2>3. pos' \in 1 .. Len(toks) /\ pos' = pos + 1
    BY <1>1, <1>3, <1>7, <2>2, Advances
  <2>4. Moves
    BY <2>2, <2>3 DEF Moves
  <2>5. \A p \in Pairs : Consumes(p)
    <3>1. ASSUME NEW p \in Pairs PROVE Consumes(p)
      <4>1. Weight(Cur, p) = Weight(Head1.what, p)
        BY <1>7, IsWeight DEF Pairs
      <4>2. Weight(Head1.what, p) = 0
        BY <1>2, <1>3, MatchWeight
      <4> QED BY <1>6, <2>3, <4>1, <4>2 DEF Consumes
    <3> QED BY <3>1
  <2> QED BY <1>1, <1>2, <1>3, <1>5, <1>7, <2>3, <2>4, <2>5, Leaves
<1>8. CASE ~Is(Cur, Head1.what)
  <2>1. pos' = pos
    BY <1>1, <1>8
  <2>2. Moves /\ \A p \in Pairs : Consumes(p)
    BY <1>6, <2>1 DEF Moves, Consumes
  <2> QED BY <1>1, <1>2, <1>3, <1>5, <2>1, <2>2, Leaves
<1> QED BY <1>7, <1>8

LEMMA KeepsTake ==
  ASSUME IInv, DoTake
  PROVE  IInv'
<1> DEFINE do == "take"
           none == <<>>
<1>1. /\ At(do) /\ Go(none) /\ tree' = tree /\ progVars' = progVars /\ failed' = failed
      /\ Advance
  BY DEF DoTake, progVars
<1>2. do = "take" /\ do # "toplevel" /\ do # "error"
  OBVIOUS
<1> HIDE DEF do
<1>3. /\ Typed /\ Head1 \in Good /\ Head1.do = do /\ toks' = toks /\ Seen /\ Head1 = todo[1]
      /\ pos \in 1 .. Len(toks) /\ (Broken => failed) /\ (Clean => Cur # "huge")
  BY <1>1, <1>2, Heads
<1>4. failed \in BOOLEAN
  BY <1>3 DEF Typed
<1>5. Recorded'
  BY <1>1, <1>3, <1>4, RecordsKept
<1>6. /\ pos' \in 1 .. Len(toks)
      /\ (pos' = pos /\ Cur = "eof") \/ (pos' = pos + 1 /\ Cur # "eof")
  BY <1>1, <1>3, Advances
<1>7. Cur # "huge" => Moves
  BY <1>6 DEF Moves
<1>8. \A p \in Pairs : Consumes(p)
  <2>1. ASSUME NEW p \in Pairs PROVE Consumes(p)
    <3>1. Adds(todo[1], p, Cur) = Weight(Cur, p)
      BY <1>2, <1>3 DEF Adds
    <3>2. Cur = "eof" => Weight(Cur, p) = 0
      BY PairBrackets DEF Weight, Pairs
    <3> QED BY <1>6, <3>1, <3>2 DEF Consumes
  <2> QED BY <2>1
<1> QED BY <1>1, <1>2, <1>3, <1>5, <1>6, <1>7, <1>8, Leaves

LEMMA KeepsError ==
  ASSUME IInv, DoError
  PROVE  IInv'
<1> DEFINE do == "error"
           none == <<>>
<1>1. /\ At(do) /\ Go(none) /\ tree' = tree /\ progVars' = progVars /\ failed' = TRUE
      /\ pos' = pos
  BY DEF DoError, progVars
<1>2. do # "toplevel"
  OBVIOUS
<1> HIDE DEF do
<1>3. Typed /\ toks' = toks /\ pos \in 1 .. Len(toks)
  BY <1>1, Heads
<1>4. Recorded'
  BY <1>1, <1>3, RecordsKept
<1> QED BY <1>1, <1>2, <1>3, <1>4, Leaves

LEMMA KeepsBuild ==
  ASSUME IInv, DoBuild
  PROVE  IInv'
<1> DEFINE do == "build"
           none == <<>>
           node == <<Head1.what, Head1.from, pos - 1>>
<1>1. /\ At(do) /\ Go(none) /\ tree' = tree \cup {node} /\ progVars' = progVars
      /\ failed' = failed /\ pos' = pos
  BY DEF DoBuild, progVars
<1>2. do = "build" /\ do \notin {"toplevel", "error", "sync", "expect", "take"}
  OBVIOUS
<1>3. node[2] = Head1.from /\ node[3] = pos - 1
  OBVIOUS
<1> HIDE DEF do, node, none
<1>4. /\ Typed /\ Head1 \in Good /\ Head1.do = do /\ toks' = toks
      /\ pos \in 1 .. Len(toks) /\ Len(toks) \in Nat
  BY <1>1, Heads DEF Typed
<1>5. node[2] \in Spans /\ node[3] \in 0 .. Len(toks)
  <2>1. Head1.from \in Spans
    BY <1>2, <1>4 DEF Good
  <2>2. pos - 1 \in 0 .. Len(toks)
    BY <1>4
  <2> QED BY <1>3, <2>1, <2>2
<1>6. IsFiniteSet(tree') /\ Spans' = Spans
      /\ \A n \in tree' : n[2] \in Spans /\ n[3] \in 0 .. Len(toks)
  <2>1. IsFiniteSet(tree) /\ \A n \in tree : n[2] \in Spans /\ n[3] \in 0 .. Len(toks)
    BY <1>4 DEF Typed
  <2>2. IsFiniteSet(tree')
    BY <1>1, <2>1, FS_AddElement
  <2> QED BY <1>1, <1>4, <1>5, <2>1, <2>2 DEF Spans
<1>7. Recorded'
  BY <1>1, <1>4, <1>6 DEF Typed, Recorded, progVars
<1>8. Expansion(none, Cur)
  BY Flat0 DEF none
<1> QED BY <1>1, <1>2, <1>7, <1>8, Calls

LEMMA BottomItems ==
  /\ Header \in Plain /\ Header.do = "header"
  /\ Toplevel \in Good /\ Toplevel.do = "toplevel"
<1>1. Header \in Items /\ Header.do = "header"
  BY NoNumbers, Names DEF Header
<1>2. Toplevel \in Items /\ Toplevel.do = "toplevel"
  BY NoNumbers, Names DEF Toplevel
<1>3. \A x \in Items : /\ x.do = "header" => x \in Plain
                       /\ x.do = "toplevel" => x \in Good
  BY DEF Plain, Good
<1> QED BY <1>1, <1>2, <1>3

LEMMA KeepsThrow ==
  ASSUME IInv, DoThrow
  PROVE  IInv'
<1> DEFINE do == "throw"
           s == <<Error, Sync, Toplevel>>
<1>1. At(do) /\ todo' = s /\ pos' = pos /\ tree' = tree /\ failed' = failed
      /\ progVars' = progVars
  BY DEF DoThrow, progVars
<1>2. Error \in Good /\ Sync \in Good /\ Toplevel \in Good
  BY OtherItems, BottomItems DEF Plain
<1>3. /\ s \in Seq(Good) /\ s # <<>> /\ DOMAIN s = 1 .. 3 /\ Len(s) = 3
      /\ s[1] = Error /\ s[2] = Sync /\ s[3] = Toplevel
  BY <1>2
<1>4. /\ s[1].do = "error" /\ s[1].do # "toplevel" /\ s[2].do # "toplevel"
      /\ s[3].do = "toplevel"
  BY <1>3, OtherItems, BottomItems
<1> HIDE DEF do, s
<1>5. Typed /\ toks' = toks /\ pos \in 1 .. Len(toks)
  BY <1>1, Heads
<1>6. \A i \in DOMAIN s : s[i].do = "toplevel" <=> i = Len(s)
  <2>1. \A i \in DOMAIN s : i = 1 \/ i = 2 \/ i = 3
    BY <1>3
  <2> QED BY <1>3, <1>4, <2>1
<1>7. Good' = Good /\ Spans' = Spans /\ Cur' = Cur /\ Ended' = Ended
  BY <1>1, <1>5 DEF Good, Spans, Cur, Ended
<1>8. Typed'
  <2>1. /\ toks \in Seq(Tokens \cup {"eof"}) /\ pos \in 1 .. Len(toks) + 1
        /\ \A i \in 1 .. Len(toks) - 1 : toks[i] # "eof"
        /\ Ended => pos \in 1 .. Len(toks)
        /\ IsFiniteSet(tree)
        /\ \A n \in tree : n[2] \in Spans /\ n[3] \in 0 .. Len(toks)
        /\ failed \in BOOLEAN /\ moduleName \in Ids \cup {"anon"}
        /\ functions \in Seq(Function) /\ implicitMain \in Seq(Function)
    BY <1>5 DEF Typed
  <2> QED BY <1>1, <1>3, <1>5, <1>6, <1>7, <2>1 DEF Typed, progVars
<1>9. Broken'
  BY <1>1, <1>3, <1>4 DEF Broken
<1> QED BY <1>8, <1>9 DEF IInv

LEMMA KeepsSync ==
  ASSUME IInv, DoSync
  PROVE  IInv'
<1> DEFINE do == "sync"
<1>1. /\ At(do) /\ tree' = tree /\ progVars' = progVars /\ failed' = failed
  BY DEF DoSync, progVars
<1>2. do = "sync"
  OBVIOUS
<1> HIDE DEF do
<1>3. /\ Typed /\ Head1 \in Good /\ Head1.do = do /\ toks' = toks /\ Seen /\ Head1 = todo[1]
      /\ pos \in 1 .. Len(toks) /\ (Broken => failed) /\ ~Clean /\ todo # <<>>
  BY <1>1, <1>2, Heads
<1>4. failed \in BOOLEAN /\ failed
  BY <1>3 DEF Typed, IInv
<1>5. Recorded'
  BY <1>1, <1>3, <1>4, RecordsKept
<1>6. pos' \in 1 .. Len(toks)
  BY <1>3, Advances DEF DoSync
<1>7. \E items : Replaces(items) /\ items \in Seq(Plain)
  <2>1. CASE Go(<<>>)
    <3> DEFINE s == <<>>
    <3>1. s \in Seq(Plain)
      OBVIOUS
    <3>2. Replaces(s)
      BY <1>3, <2>1 DEF Replaces, Go
    <3> QED BY <3>1, <3>2
  <2>2. CASE todo' = todo
    <3> DEFINE s == <<Head1>>
    <3>1. Head1 \in Plain
      BY <1>2, <1>3 DEF Plain
    <3>2. s \in Seq(Plain)
      BY <3>1
    <3>3. todo = s \o Tail(todo)
      <4>1. todo \in Seq(Good)
        BY <1>3 DEF Typed
      <4> QED BY <1>3, <4>1
    <3>4. Replaces(s)
      BY <1>3, <2>2, <3>3 DEF Replaces
    <3> QED BY <3>2, <3>4
  <2> QED BY <2>1, <2>2 DEF DoSync
<1>8. PICK items : Replaces(items) /\ items \in Seq(Plain)
  BY <1>7
<1>9. todo[1].do # "toplevel" /\ failed'
  BY <1>1, <1>2, <1>3, <1>4
<1> QED BY <1>5, <1>6, <1>8, <1>9, StepKeeps

LEMMA KeepsHeader ==
  ASSUME IInv, DoHeader
  PROVE  IInv'
<1> DEFINE do == "header"
           items == IF Cur = "module" THEN <<Take, Expect("id"), Match(";")>> ELSE <<>>
<1>1. /\ At(do) /\ Go(items) /\ pos' = pos /\ tree' = tree /\ failed' = failed
      /\ functions' = functions /\ implicitMain' = implicitMain
      /\ moduleName' = moduleName \/ moduleName' \in Ids
  BY DEF DoHeader
<1>2. do \notin {"toplevel", "error", "sync", "expect", "take"}
  OBVIOUS
<1>3. Expansion(items, Cur)
  <2>1. CASE Cur = "module"
    <3>1. Leads(Take, Cur)
      <4>1. Cur \notin Brackets \cup {"huge"}
        BY <2>1 DEF Brackets
      <4> QED BY <4>1, NeutralLeads
    <3>2. Expansion(<<Take, Expect("id"), Match(";")>>, Cur)
      BY <3>1, NeutralWords, Flat3
    <3> QED BY <2>1, <3>2
  <2>2. CASE Cur # "module"
    BY <2>2, Flat0
  <2> QED BY <2>1, <2>2
<1> HIDE DEF do, items
<1>4. Typed /\ toks' = toks
  BY <1>1, Heads
<1>5. Recorded'
  <2>1. Spans' = Spans
    BY <1>4 DEF Spans
  <2> QED BY <1>1, <1>4, <2>1 DEF Typed, Recorded
<1> QED BY <1>1, <1>2, <1>3, <1>5, Calls

LEMMA KeepsDeclare ==
  ASSUME IInv, DoDeclare
  PROVE  IInv'
<1> DEFINE do == "declare"
           none == <<>>
           nodes == {n \in tree : n[1] = "Param" /\ n[2] > Head1.from}
           f == [name |-> Head1.what, params |-> Cardinality(nodes)]
<1>1. /\ At(do) /\ Go(none) /\ pos' = pos /\ tree' = tree /\ failed' = failed
      /\ moduleName' = moduleName /\ functions' = Append(functions, f)
      /\ implicitMain' = Append(implicitMain, f) \/ implicitMain' = implicitMain
  BY DEF DoDeclare
<1>2. do = "declare" /\ do \notin {"toplevel", "error", "sync", "expect", "take"}
  OBVIOUS
<1>3. Expansion(none, Cur)
  BY Flat0
<1>4. f.name = Head1.what /\ f.params = Cardinality(nodes) /\ nodes \subseteq tree
      /\ f = [name |-> f.name, params |-> f.params]
  OBVIOUS
<1> HIDE DEF do, none, nodes, f
<1>5. Typed /\ toks' = toks /\ Head1 \in Good /\ Head1.do = do
  BY <1>1, Heads
<1>6. f.params \in Nat
  BY <1>4, <1>5, FS_Subset, FS_CardinalityType DEF Typed
<1>7. f.name \in Tokens \cup {"eof"}
  BY <1>2, <1>4, <1>5 DEF Good
<1>8. f \in Function
  BY <1>4, <1>6, <1>7 DEF Function
<1>9. functions' \in Seq(Function) /\ implicitMain' \in Seq(Function)
  <2>1. functions \in Seq(Function) /\ implicitMain \in Seq(Function)
    BY <1>5 DEF Typed
  <2>2. Append(functions, f) \in Seq(Function) /\ Append(implicitMain, f) \in Seq(Function)
    BY <1>8, <2>1
  <2> QED BY <1>1, <2>1, <2>2
<1>10. Recorded'
  <2>1. Spans' = Spans
    BY <1>5 DEF Spans
  <2> QED BY <1>1, <1>5, <1>9, <2>1 DEF Typed, Recorded
<1> QED BY <1>1, <1>2, <1>3, <1>10, Calls

LEMMA KeepsFold ==
  ASSUME IInv, DoFold
  PROVE  IInv'
<1> DEFINE do == "fold"
           none == <<>>
<1>1. /\ At(do) /\ Go(none) /\ pos' = pos /\ tree' = tree /\ failed' = failed
      /\ moduleName' = moduleName /\ functions' = functions
      /\ implicitMain' = Append(implicitMain, Statement)
  BY DEF DoFold
<1>2. do \notin {"toplevel", "error", "sync", "expect", "take"}
  OBVIOUS
<1>3. Expansion(none, Cur)
  BY Flat0
<1> HIDE DEF do, none
<1>4. Typed /\ toks' = toks
  BY <1>1, Heads
<1>5. Statement \in Function
  BY DEF Statement, Function
<1>6. implicitMain' \in Seq(Function)
  <2>1. implicitMain \in Seq(Function)
    BY <1>4 DEF Typed
  <2> QED BY <1>1, <1>5, <2>1
<1>7. Recorded'
  <2>1. Spans' = Spans
    BY <1>4 DEF Spans
  <2> QED BY <1>1, <1>4, <1>6, <2>1 DEF Typed, Recorded
<1> QED BY <1>1, <1>2, <1>3, <1>7, Calls

\* parse() is the last item.
LEMMA LastItem ==
  ASSUME Typed, todo # <<>>, todo[1].do = "toplevel"
  PROVE  Tail(todo) = <<>>
<1> DEFINE r == Tail(todo)
<1>1. /\ r \in Seq(Good) /\ Len(todo) \in Nat /\ Len(todo) >= 1 /\ Len(r) = Len(todo) - 1
      /\ todo \in Seq(Good)
  BY Tails
<1>2. 1 \in DOMAIN todo
  BY <1>1
<1>3. Len(todo) = 1
  BY <1>2 DEF Typed
<1> HIDE DEF r
<1>4. Len(r) = 0
  BY <1>1, <1>3
<1>5. r = <<>>
  BY <1>1, <1>4
<1> QED BY <1>5 DEF r

\* parse() goes on below what it calls.
LEMMA KeepsToplevel ==
  ASSUME IInv, DoToplevel
  PROVE  IInv'
<1> DEFINE do == "toplevel"
           x == Head1
<1>1. /\ At(do) /\ tree' = tree /\ progVars' = progVars /\ failed' = failed /\ pos' = pos
  BY DEF DoToplevel, progVars
<1>2. do = "toplevel" /\ do # "error"
  OBVIOUS
<1>3. PICK a, b \in Neutral : Go(<<a, b, x>>)
  <2>1. /\ Match("pub") \in Neutral /\ Call("parseTopLevelDecl") \in Neutral
        /\ Call("parseStmt") \in Neutral /\ Fold \in Neutral
    BY NeutralWords, NeutralCalls
  <2>2. \/ Go(<<Match("pub"), Call("parseTopLevelDecl"), x>>)
        \/ Go(<<Call("parseStmt"), Fold, x>>)
    BY DEF DoToplevel
  <2> QED BY <2>1, <2>2
<1> HIDE DEF do, x
<1>4. /\ Typed /\ x \in Good /\ x.do = do /\ toks' = toks /\ Seen /\ x = todo[1]
      /\ pos \in 1 .. Len(toks) /\ (Broken => failed) /\ todo # <<>>
  BY <1>1, <1>2, Heads DEF x
<1>5. a \in Plain /\ b \in Plain /\ a \in Good /\ b \in Good
  BY Kinds DEF Plain
<1>6. Tail(todo) = <<>>
  BY <1>2, <1>4, LastItem
<1> DEFINE s == <<a, b, x>>
<1>7. /\ s \in Seq(Good) /\ Len(s) = 3 /\ s[1] = a /\ s[2] = b /\ s[3] = x
      /\ s # <<>> /\ DOMAIN s = 1 .. 3
  BY <1>4, <1>5
<1>8. todo' = s \o Tail(todo)
  BY <1>3 DEF Go
<1>15. s \o Tail(todo) = s
  <2>1. s \o <<>> = s
    OBVIOUS
  <2> QED BY <1>6, <2>1
<1> HIDE DEF s
<1>9. Replaces(s) /\ todo' = s
  BY <1>4, <1>8, <1>15 DEF Replaces
<1>10. Good' = Good /\ Spans' = Spans /\ Cur' = Cur /\ Ended' = Ended
  BY <1>1, <1>4 DEF Good, Spans, Cur, Ended
<1>11. \A i \in DOMAIN s : i = 1 \/ i = 2 \/ i = 3
  BY <1>7
<1>12. Typed'
  <2>1. s[1].do # "toplevel" /\ s[2].do # "toplevel" /\ s[3].do = "toplevel"
    BY <1>2, <1>4, <1>5, <1>7 DEF Plain
  <2>2. \A i \in DOMAIN s : s[i].do = "toplevel" <=> i = Len(s)
    BY <1>7, <1>11, <2>1
  <2>3. /\ toks \in Seq(Tokens \cup {"eof"}) /\ pos \in 1 .. Len(toks) + 1
        /\ \A i \in 1 .. Len(toks) - 1 : toks[i] # "eof"
        /\ Ended => pos \in 1 .. Len(toks)
        /\ IsFiniteSet(tree)
        /\ \A n \in tree : n[2] \in Spans /\ n[3] \in 0 .. Len(toks)
        /\ failed \in BOOLEAN /\ moduleName \in Ids \cup {"anon"}
        /\ functions \in Seq(Function) /\ implicitMain \in Seq(Function)
    BY <1>4 DEF Typed
  <2> QED BY <1>1, <1>4, <1>7, <1>9, <1>10, <2>2, <2>3 DEF Typed, progVars
<1>13. CASE failed
  BY <1>1, <1>12, <1>13 DEF IInv, Broken
<1>14. CASE Clean
  <2>1. \A p \in AllPairs, i \in DOMAIN s : Adds(s[i], p, Cur) = 0
    <3>1. ASSUME NEW p \in AllPairs
          PROVE  Adds(a, p, Cur) = 0 /\ Adds(b, p, Cur) = 0 /\ Adds(x, p, Cur) = 0
      <4>1. Fits(a, 1, Cur) /\ Fits(b, 1, Cur)
        BY Kinds
      <4>2. Adds(x, p, Cur) = 0
        BY <1>2, <1>4 DEF Adds
      <4> QED BY <4>1, <4>2, FittingAdds
    <3> QED BY <1>7, <1>11, <3>1
  <2>2. \A i \in DOMAIN s : s[i].do \notin {"error", "sync", "take"}
    <3>1. a.do \notin {"error", "sync", "take"} /\ b.do \notin {"error", "sync", "take"}
      BY DEF Neutral
    <3> QED BY <1>2, <1>4, <1>7, <1>11, <3>1
  <2>3. DOMAIN s = 1 .. Len(s)
    BY <1>7
  <2>4. Orderly(s, Cur')
    <3>1. \A p \in Pairs : Nested(s, p, Cur)
      BY <2>1, <2>3 DEF Nested, Pairs
    <3> QED BY <1>10, <2>2, <2>3, <3>1 DEF Orderly
  <2>5. s \in Seq(Items)
    <3>1. Good \subseteq Items
      BY DEF Good
    <3> QED BY <1>7, <3>1
  <2>6. pos' \in 1 .. Len(toks) /\ Moves
    BY <1>1, <1>4 DEF Moves
  <2>7. \A p \in Pairs : Consumes(p)
    BY <1>1, <1>2, <1>4 DEF Consumes, Adds
  <2>8. Clean'
    BY <1>4, <1>9, <1>14, <2>4, <2>5, <2>6, <2>7, CleanStep
  <2> QED BY <1>12, <2>8 DEF IInv
<1> QED BY <1>4, <1>13, <1>14 DEF IInv

LEMMA KeepsFinish ==
  ASSUME IInv, Finish
  PROVE  IInv'
<1> DEFINE do == "toplevel"
           s == <<>>
           main == [name |-> "main", params |-> 0]
<1>1. /\ At(do) /\ tree' = tree /\ moduleName' = moduleName /\ failed' = failed
      /\ implicitMain' = implicitMain /\ pos' = pos /\ Go(s) /\ Cur = "eof"
      /\ functions' = functions \/ functions' = Append(functions, main)
  BY DEF Finish, AtEnd
<1>2. do = "toplevel" /\ do # "error" /\ main \in Function
  BY DEF Function
<1>3. s \in Seq(Items) /\ Orderly(s, Cur') /\ s \in Seq(Good) /\ DOMAIN s = {}
  BY NoItems
<1> HIDE DEF do, s, main
<1>4. /\ Typed /\ toks' = toks /\ Seen /\ pos \in 1 .. Len(toks) /\ (Broken => failed)
      /\ todo # <<>> /\ Head1 = todo[1] /\ Head1 \in Good /\ Head1.do = do
  BY <1>1, <1>2, Heads
<1>5. Replaces(s)
  BY <1>1, <1>4 DEF Replaces, Go
<1>6. todo' = s
  <2>1. Tail(todo) = s
    BY <1>2, <1>4, LastItem DEF s
  <2> QED BY <1>5, <2>1 DEF Replaces, s
<1>7. Good' = Good /\ Spans' = Spans /\ Cur' = Cur /\ Ended' = Ended
  BY <1>1, <1>4 DEF Good, Spans, Cur, Ended
<1>8. Typed'
  <2>1. /\ toks \in Seq(Tokens \cup {"eof"}) /\ pos \in 1 .. Len(toks) + 1
        /\ \A i \in 1 .. Len(toks) - 1 : toks[i] # "eof"
        /\ Ended => pos \in 1 .. Len(toks)
        /\ IsFiniteSet(tree)
        /\ \A n \in tree : n[2] \in Spans /\ n[3] \in 0 .. Len(toks)
        /\ failed \in BOOLEAN /\ moduleName \in Ids \cup {"anon"}
        /\ functions \in Seq(Function) /\ implicitMain \in Seq(Function)
    BY <1>4 DEF Typed
  <2>2. functions' \in Seq(Function)
    <3>1. Append(functions, main) \in Seq(Function)
      BY <1>2, <2>1
    <3> QED BY <1>1, <2>1, <3>1
  <2>3. \A i \in DOMAIN s : s[i].do = "toplevel" <=> i = Len(s)
    BY <1>3
  <2> QED BY <1>1, <1>3, <1>4, <1>6, <1>7, <2>1, <2>2, <2>3 DEF Typed
<1>9. CASE failed
  BY <1>1, <1>8, <1>9 DEF IInv, Broken
<1>10. CASE Clean
  <2>1. pos' \in 1 .. Len(toks) /\ Moves
    BY <1>1, <1>4 DEF Moves
  <2>2. \A p \in Pairs : Consumes(p)
    BY <1>1, <1>2, <1>4 DEF Consumes, Adds
  <2>3. Clean'
    BY <1>3, <1>4, <1>5, <1>10, <2>1, <2>2, CleanStep
  <2> QED BY <1>8, <2>3 DEF IInv
<1> QED BY <1>4, <1>9, <1>10 DEF IInv

\* The lexer's next token is not one that was looked at.
LEMMA KeepsScan ==
  ASSUME IInv, NEW t \in Tokens \cup {"eof"}, Scan(t)
  PROVE  IInv'
<1> DEFINE s == Append(toks, t)
           n == Len(toks)
<1>1. /\ toks' = s /\ pos' = pos /\ todo' = todo /\ tree' = tree /\ failed' = failed
      /\ moduleName' = moduleName /\ functions' = functions /\ implicitMain' = implicitMain
      /\ todo # <<>>
  BY DEF Scan
<1>2. ~Ended /\ ~(n > pos)
  BY DEF Scan, Seen
<1>3. /\ toks \in Seq(Tokens \cup {"eof"}) /\ n \in Nat /\ pos \in Nat /\ pos >= 1 /\ pos <= n + 1
      /\ \A i \in 1 .. n - 1 : toks[i] # "eof"
  BY DEF IInv, Typed
<1>4. /\ s \in Seq(Tokens \cup {"eof"}) /\ Len(s) = n + 1 /\ s[n + 1] = t
      /\ \A i \in 1 .. n : s[i] = toks[i]
  BY <1>3
<1>5. \A i \in 1 .. n : toks[i] # "eof"
  <2>1. n >= 1 => toks[n] # "eof"
    BY <1>2, <1>3 DEF Ended
  <2> QED BY <1>3, <2>1
<1> HIDE DEF s, n
<1>6. Spans \subseteq Spans' /\ 0 .. Len(toks) \subseteq 0 .. Len(toks')
  BY <1>1, <1>3, <1>4 DEF Spans, n
<1>7. Good \subseteq Good'
  BY <1>6 DEF Good
<1>8. Typed'
  <2>1. todo \in Seq(Good') /\ \A i \in DOMAIN todo : todo[i].do = "toplevel" <=> i = Len(todo)
    <3>1. todo \in Seq(Good) /\ \A i \in DOMAIN todo : todo[i].do = "toplevel" <=> i = Len(todo)
      BY DEF IInv, Typed
    <3>2. todo \in Seq(Good')
      BY <1>7, <3>1
    <3> QED BY <3>1, <3>2
  <2>2. /\ toks' \in Seq(Tokens \cup {"eof"}) /\ pos' \in 1 .. Len(toks') + 1
        /\ \A i \in 1 .. Len(toks') - 1 : toks'[i] # "eof"
        /\ pos' \in 1 .. Len(toks')
    <3>1. pos \in 1 .. n + 1 + 1 /\ pos \in 1 .. n + 1
      BY <1>3
    <3>2. ASSUME NEW i \in 1 .. Len(toks') - 1 PROVE toks'[i] # "eof"
      <4>1. i \in 1 .. n
        BY <1>1, <1>3, <1>4
      <4> QED BY <1>1, <1>4, <1>5, <4>1
    <3> QED BY <1>1, <1>4, <3>1, <3>2
  <2>3. /\ IsFiniteSet(tree)
        /\ \A x \in tree : x[2] \in Spans' /\ x[3] \in 0 .. Len(toks')
        /\ failed \in BOOLEAN /\ moduleName \in Ids \cup {"anon"}
        /\ functions \in Seq(Function) /\ implicitMain \in Seq(Function)
    BY <1>6 DEF IInv, Typed
  <2> QED BY <1>1, <2>1, <2>2, <2>3 DEF Typed
<1>9. CASE Broken
  BY <1>1, <1>8, <1>9 DEF IInv, Broken
<1>10. CASE Clean
  <2>1. pos \in 1 .. n => Cur' = Cur
    BY <1>1, <1>4 DEF Cur
  <2>2. todo[1].do = "take" => pos \in 1 .. n /\ Cur # "huge" /\ Cur' = Cur
    BY <1>1, <1>10, <2>1 DEF Clean, n
  <2>3. \A i \in 1 .. pos - 1 : i \in 1 .. n
    BY <1>3
  <2>4. \A i \in 1 .. pos' - 1 : toks'[i] # "huge"
    BY <1>1, <1>4, <1>10, <2>3 DEF Clean
  <2>5. ASSUME NEW k, NEW m \in 0 .. pos - 1
        PROVE  CountIn(toks', k, m) = CountIn(toks, k, m)
    <3>1. \A i \in 1 .. m : toks'[i] = toks[i]
      BY <1>1, <1>3, <1>4
    <3>2. {i \in 1 .. m : toks'[i] = k} = {i \in 1 .. m : toks[i] = k}
      BY <3>1
    <3> QED BY <3>2 DEF CountIn
  <2>6. ASSUME NEW p \in Pairs PROVE Balanced(p)'
    <3> DEFINE d == CountIn(toks, p[1], pos - 1) - CountIn(toks, p[2], pos - 1)
    <3>1. /\ \A m \in 0 .. pos - 1 : CountIn(toks, p[2], m) <= CountIn(toks, p[1], m)
          /\ Due(todo, p, Cur, d)
      BY <1>10 DEF Clean, Balanced
    <3>2. pos - 1 \in 0 .. pos - 1
      BY <1>3
    <3>3. d = CountIn(toks', p[1], pos' - 1) - CountIn(toks', p[2], pos' - 1)
      BY <1>1, <2>5, <3>2
    <3>4. ASSUME NEW m \in 0 .. pos' - 1
          PROVE  CountIn(toks', p[2], m) <= CountIn(toks', p[1], m)
      BY <1>1, <2>5, <3>1
    <3> HIDE DEF d
    <3>5. Due(todo, p, Cur', d)
      <4>1. CASE todo[1].do = "take"
        BY <2>2, <3>1, <4>1
      <4>2. CASE todo[1].do # "take"
        <5>1. \A i \in 1 .. Len(todo) : todo[i].do # "take"
          <6>1. todo \in Seq(Good)
            BY DEF IInv, Typed
          <6>2. \A i \in 1 .. Len(todo) : i \in DOMAIN todo
            BY <6>1
          <6> QED BY <1>10, <4>2, <6>2 DEF Clean
        <5>2. \A i \in 1 .. Len(todo) : Adds(todo[i], p, Cur) = Adds(todo[i], p, Cur')
          BY <5>1, AddsTokenFree
        <5>3. PICK due : IsDue(due, todo, p, Cur) /\ due[1] = d
          BY <3>1 DEF Due
        <5>4. IsDue(due, todo, p, Cur')
          BY <5>2, <5>3 DEF IsDue
        <5> QED BY <5>3, <5>4 DEF Due
      <4> QED BY <4>1, <4>2
    <3> QED BY <1>1, <3>3, <3>4, <3>5 DEF Balanced
  <2>7. todo' # <<>> /\ todo'[1].do = "take" => pos' \in 1 .. Len(toks') /\ Cur' # "huge"
    BY <1>1, <1>3, <1>4, <2>2
  <2>8. Clean'
    BY <1>1, <1>10, <2>4, <2>6, <2>7 DEF Clean
  <2> QED BY <1>8, <2>8 DEF IInv
<1> QED BY <1>9, <1>10 DEF IInv

LEMMA KeepsStill ==
  ASSUME IInv, UNCHANGED vars
  PROVE  IInv'
<1>1. /\ toks' = toks /\ pos' = pos /\ todo' = todo /\ tree' = tree /\ failed' = failed
      /\ moduleName' = moduleName /\ functions' = functions /\ implicitMain' = implicitMain
  BY DEF vars
<1>2. Good' = Good /\ Spans' = Spans /\ Cur' = Cur /\ Ended' = Ended
  BY <1>1 DEF Good, Spans, Cur, Ended
<1>3. Typed'
  BY <1>1, <1>2 DEF IInv, Typed
<1>4. CASE Broken
  BY <1>1, <1>3, <1>4 DEF IInv, Broken
<1>5. CASE Clean
  <2>1. \A p \in Pairs : Balanced(p)'
    BY <1>1, <1>2, <1>5 DEF Clean, Balanced
  <2>2. Clean'
    BY <1>1, <1>2, <1>5, <2>1 DEF Clean
  <2> QED BY <1>3, <2>2 DEF IInv
<1> QED BY <1>4, <1>5 DEF IInv

LEMMA Begins ==
  ASSUME Init
  PROVE  IInv
<1> DEFINE s == <<Header, Toplevel>>
           none == <<>>
<1>1. /\ toks = none /\ pos = 1 /\ todo = s /\ tree = {} /\ failed = FALSE
      /\ moduleName = "anon" /\ functions = none /\ implicitMain = none
  BY DEF Init
<1>2. Header \in Good /\ Header.do = "header" /\ Toplevel \in Good /\ Toplevel.do = "toplevel"
  BY BottomItems DEF Plain
<1>3. /\ s \in Seq(Good) /\ Len(s) = 2 /\ s[1] = Header /\ s[2] = Toplevel /\ s # <<>>
      /\ DOMAIN s = 1 .. 2
  BY <1>2
<1>4. Len(none) = 0 /\ none \in Seq(Tokens \cup {"eof"}) /\ none \in Seq(Function) /\ ~(none # <<>>)
  OBVIOUS
<1> HIDE DEF s, none
<1>5. \A i \in DOMAIN s : i = 1 \/ i = 2
  BY <1>3
<1>6. \A i \in DOMAIN s : s[i].do = "toplevel" <=> i = Len(s)
  BY <1>2, <1>3, <1>5
<1>7. Typed
  <2>1. 1 .. Len(toks) - 1 = {} /\ pos \in 1 .. Len(toks) + 1
    BY <1>1, <1>4
  <2>2. ~Ended
    BY <1>1, <1>4 DEF Ended
  <2>3. IsFiniteSet(tree)
    BY <1>1, FS_EmptySet
  <2> QED BY <1>1, <1>3, <1>4, <1>6, <2>1, <2>2, <2>3 DEF Typed
<1>8. \A i \in DOMAIN s : s[i].do \notin {"error", "sync", "take", "expect"}
  BY <1>2, <1>3, <1>5
<1>9. ASSUME NEW p \in Pairs PROVE Balanced(p)
  <2>1. pos - 1 = 0
    BY <1>1
  <2>2. \A k : CountIn(toks, k, 0) = 0
    <3>1. ASSUME NEW k PROVE CountIn(toks, k, 0) = 0
      <4>1. {i \in 1 .. 0 : toks[i] = k} = {}
        OBVIOUS
      <4> QED BY <4>1, FS_EmptySet DEF CountIn
    <3> QED BY <3>1
  <2>3. \A n \in 0 .. pos - 1 : CountIn(toks, p[2], n) <= CountIn(toks, p[1], n)
    <3>1. \A n \in 0 .. pos - 1 : n = 0
      BY <2>1
    <3> QED BY <2>2, <3>1
  <2>4. CountIn(toks, p[1], pos - 1) - CountIn(toks, p[2], pos - 1) = 0
    BY <2>1, <2>2
  <2>5. Due(todo, p, Cur, 0)
    <3> DEFINE due == [i \in 1 .. Len(todo) + 1 |-> 0]
    <3>1. \A i \in 1 .. Len(todo) : Adds(todo[i], p, Cur) = 0
      BY <1>1, <1>3, <1>8 DEF Adds
    <3>2. /\ due \in [1 .. Len(todo) + 1 -> Nat] /\ due[Len(todo) + 1] = 0 /\ due[1] = 0
          /\ \A i \in 1 .. Len(todo) : due[i] = 0 /\ due[i + 1] = 0
      BY <1>1, <1>3
    <3> HIDE DEF due
    <3>3. IsDue(due, todo, p, Cur)
      BY <3>1, <3>2 DEF IsDue
    <3> QED BY <3>2, <3>3 DEF Due
  <2> QED BY <2>3, <2>4, <2>5 DEF Balanced
<1>10. Clean
  <2>1. \A i \in 1 .. pos - 1 : toks[i] # "huge"
    BY <1>1
  <2>2. todo # <<>> => 1 \in DOMAIN todo
    BY <1>1, <1>3
  <2> QED BY <1>1, <1>8, <1>9, <2>1, <2>2 DEF Clean
<1> QED BY <1>7, <1>10 DEF IInv

(***************************************************************************)
(* What the runs check.                                                    *)
(***************************************************************************)
LEMMA Keeps == IInv /\ [Next]_vars => IInv'
<1> SUFFICES ASSUME IInv, [Next]_vars PROVE IInv'
  OBVIOUS
<1>1. CASE \E t \in Tokens \cup {"eof"} : Scan(t)
  BY <1>1, KeepsScan
<1>2. CASE Step
  BY <1>2, KeepsCall, KeepsUntil, KeepsMore, KeepsExpect, KeepsMatch, KeepsTake,
     KeepsError, KeepsBuild, KeepsThrow, KeepsSync, KeepsHeader, KeepsDeclare,
     KeepsFold, KeepsToplevel, KeepsFinish DEF Step
<1>3. CASE Parsed
  BY <1>3, KeepsStill DEF Parsed
<1>4. CASE UNCHANGED vars
  BY <1>4, KeepsStill
<1> QED BY <1>1, <1>2, <1>3, <1>4 DEF Next

LEMMA Kept == Spec => []IInv
<1>1. Init => IInv
  BY Begins
<1> QED BY <1>1, Keeps, PTL DEF Spec

LEMMA AtTheEnd ==
  ASSUME IInv, Done, ~failed
  PROVE  Clean /\ pos = Len(toks) /\ pos - 1 \in Nat /\ toks[Len(toks)] = "eof"
<1>1. Clean /\ Typed
  BY DEF IInv, Broken, Done
<1>2. /\ pos \in 1 .. Len(toks) /\ Len(toks) \in Nat /\ toks[pos] = "eof"
      /\ \A i \in 1 .. Len(toks) - 1 : toks[i] # "eof"
  BY <1>1 DEF Typed, Done, Cur
<1>3. pos = Len(toks)
  BY <1>2
<1> QED BY <1>1, <1>2, <1>3

LEMMA NothingDue ==
  ASSUME IInv, Done, ~failed, NEW p \in Pairs
  PROVE  Matched(p[1], p[2])
<1>1. Balanced(p) /\ pos = Len(toks) /\ pos - 1 \in Nat /\ toks[Len(toks)] = "eof"
  BY AtTheEnd DEF Clean
<1> DEFINE n == Len(toks)
           o == CountIn(toks, p[1], n - 1)
           c == CountIn(toks, p[2], n - 1)
<1>2. /\ \A m \in 0 .. n - 1 : CountIn(toks, p[2], m) <= CountIn(toks, p[1], m)
      /\ Due(todo, p, Cur, o - c)
  BY <1>1 DEF Balanced
<1>3. n - 1 \in Nat /\ n \in Nat /\ n >= 1
  <2>1. n \in Nat
    BY DEF IInv, Typed
  <2> QED BY <1>1, <2>1
<1>4. o \in Nat /\ c \in Nat
  BY <1>3, CountType
<1>5. p[1] # toks[n] /\ p[2] # toks[n]
  BY <1>1, PairBrackets DEF Pairs
<1>6. CountIn(toks, p[1], n) = o + 0 /\ CountIn(toks, p[2], n) = c + 0
  BY <1>3, <1>5, CountNext
<1> HIDE DEF o, c
<1>7. o - c = 0
  <2>1. PICK due : IsDue(due, todo, p, Cur) /\ due[1] = o - c
    BY <1>2 DEF Due
  <2>2. Len(todo) + 1 = 1
    BY DEF Done
  <2>3. due[Len(todo) + 1] = 0
    BY <2>1 DEF IsDue
  <2> QED BY <2>1, <2>2, <2>3
<1>8. CountIn(toks, p[1], n) = CountIn(toks, p[2], n)
  BY <1>4, <1>6, <1>7
<1>9. \A m \in DOMAIN toks : CountIn(toks, p[2], m) <= CountIn(toks, p[1], m)
  <2>1. DOMAIN toks = 1 .. n
    BY DEF IInv, Typed
  <2>2. CountIn(toks, p[2], n) <= CountIn(toks, p[1], n)
    BY <1>4, <1>6, <1>7
  <2>3. \A m \in 1 .. n : m = n \/ m \in 0 .. n - 1
    BY <1>3
  <2> QED BY <1>2, <2>1, <2>2, <2>3
<1> QED BY <1>8, <1>9 DEF Matched, Count, CountIn

\* The parser never leaves its tokens, and parse() is under every call.
THEOREM ParserTypes == Spec => []TypeOK
<1>1. IInv => TypeOK
  <2> SUFFICES ASSUME IInv PROVE TypeOK
    OBVIOUS
  <2>1. todo \in Seq(Items)
    <3>1. todo \in Seq(Good) /\ Good \subseteq Items
      BY DEF IInv, Typed, Good
    <3> QED BY <3>1
  <2> QED BY <2>1 DEF IInv, Typed, TypeOK, Spans
<1> QED BY <1>1, Kept, PTL

\* An exception thrown for a literal out of range leaves every function but
\* parse(), which reports it: no source with such a literal is accepted.
THEOREM OutOfRangeReported == Spec => []RecoveryReported
<1>1. IInv => RecoveryReported
  <2> SUFFICES ASSUME IInv, NEW i \in DOMAIN toks, Done, toks[i] = "huge", ~failed
               PROVE  FALSE
    BY DEF RecoveryReported
  <2>1. Clean /\ pos = Len(toks) /\ toks[Len(toks)] = "eof"
    BY AtTheEnd
  <2>2. toks \in Seq(Tokens \cup {"eof"}) /\ Len(toks) \in Nat
    BY DEF IInv, Typed
  <2>3. i \in 1 .. Len(toks)
    BY <2>2
  <2>4. i # Len(toks)
    BY <2>1
  <2>5. i \in 1 .. pos - 1
    BY <2>1, <2>2, <2>3, <2>4
  <2> QED BY <2>1, <2>5 DEF Clean
<1> QED BY <1>1, Kept, PTL

\* What parsePrimaryExpr, parseBlock and the others open they close: brackets
\* and braces always; parentheses too, unless the source has an if or a
\* match, whose parentheses are optional one by one.
THEOREM BracesInPairs ==
  Spec => [](Done /\ ~failed => Matched("[", "]") /\ Matched("{", "}"))
<1>1. IInv => (Done /\ ~failed => Matched("[", "]") /\ Matched("{", "}"))
  <2> SUFFICES ASSUME IInv, Done, ~failed
               PROVE  Matched("[", "]") /\ Matched("{", "}")
    OBVIOUS
  <2> DEFINE p == <<"[", "]">>
             q == <<"{", "}">>
  <2>1. p \in Pairs /\ q \in Pairs
    BY DEF Pairs, AllPairs
  <2>2. p[1] = "[" /\ p[2] = "]" /\ q[1] = "{" /\ q[2] = "}"
    OBVIOUS
  <2> HIDE DEF p, q
  <2>3. Matched(p[1], p[2]) /\ Matched(q[1], q[2])
    BY <2>1, NothingDue
  <2> QED BY <2>2, <2>3
<1> QED BY <1>1, Kept, PTL

\* Every source that the parser accepts has its parentheses, brackets and
\* braces in pairs, if it has no if, no else-if and no match.
THEOREM AllInPairs ==
  Tokens \cap {"if", "ef", "match"} = {} => (Spec => []AcceptedBalanced)
<1> SUFFICES ASSUME Tokens \cap {"if", "ef", "match"} = {} PROVE Spec => []AcceptedBalanced
  OBVIOUS
<1>1. IInv => AcceptedBalanced
  <2> SUFFICES ASSUME IInv, Done, ~failed
               PROVE  Matched("(", ")") /\ Matched("[", "]") /\ Matched("{", "}")
    BY DEF AcceptedBalanced
  <2> DEFINE r == <<"(", ")">>
             p == <<"[", "]">>
             q == <<"{", "}">>
  <2>1. r \in Pairs /\ p \in Pairs /\ q \in Pairs
    BY DEF Pairs, AllPairs, Loose
  <2>2. r[1] = "(" /\ r[2] = ")" /\ p[1] = "[" /\ p[2] = "]" /\ q[1] = "{" /\ q[2] = "}"
    OBVIOUS
  <2> HIDE DEF p, q, r
  <2>3. Matched(r[1], r[2]) /\ Matched(p[1], p[2]) /\ Matched(q[1], q[2])
    BY <2>1, NothingDue
  <2> QED BY <2>2, <2>3
<1> QED BY <1>1, Kept, PTL
=============================================================================
