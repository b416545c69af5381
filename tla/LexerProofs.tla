---------------------------- MODULE LexerProofs ----------------------------
(***************************************************************************)
(* Proofs about the lexer, for every set of characters and every length    *)
(* of a source.                                                            *)
(***************************************************************************)
EXTENDS Rendering, FiniteSetTheorems, SequenceTheorems, WellFoundedInduction, TLAPS

(***************************************************************************)
(* Sets of numbers have a least element, and a greatest below a bound.     *)
(* The induction theorems of the library cannot be instantiated, so this   *)
(* is what induction is done with.                                         *)
(***************************************************************************)
LEMMA LeastExists ==
  ASSUME NEW T, T \subseteq Nat, T # {}
  PROVE  \E m \in T : \A k \in T : m <= k
<1> DEFINE R == OpToRel(<, Nat)
<1>1. IsWellFoundedOn(R, Nat)
  BY NatLessThanWellFounded
<1>2. \A x, y \in Nat : x < y => <<x, y>> \in R
  BY DEF OpToRel
<1> HIDE DEF R
<1>3. PICK m \in T : \A y \in T : ~ (<<y, m>> \in R)
  BY <1>1, WFMin
<1>4. \A k \in T : k \in Nat /\ m \in Nat /\ ~(k < m)
  BY <1>2, <1>3
<1>5. \A k \in T : m <= k
  BY <1>4
<1> QED BY <1>5

LEMMA GreatestExists ==
  ASSUME NEW n \in Nat, NEW T, T \subseteq 0 .. n, T # {}
  PROVE  \E m \in T : \A k \in T : k <= m
<1> DEFINE U == {n - k : k \in T}
<1>1. U \subseteq Nat /\ U # {}
  <2>1. \A k \in T : n - k \in Nat
    OBVIOUS
  <2> QED BY <2>1
<1>2. PICK u \in U : \A k \in U : u <= k
  BY <1>1, LeastExists
<1>3. PICK m \in T : u = n - m
  OBVIOUS
<1>4. \A k \in T : n - k \in U
  OBVIOUS
<1> HIDE DEF U
<1>5. \A k \in T : n - m <= n - k /\ k \in Int /\ m \in Int
  BY <1>2, <1>3, <1>4
<1>6. \A k \in T : k <= m
  BY <1>5
<1> QED BY <1>6

(***************************************************************************)
(* Sources, and the positions in them.                                     *)
(***************************************************************************)
SourceOK == src \in Seq(Chars)

LEMMA Characters ==
  ASSUME SourceOK
  PROVE  /\ Size \in Nat /\ DOMAIN src = 1 .. Size
         /\ "end" \notin Chars
         /\ \A p \in 1 .. Size : peek(p) = src[p] /\ src[p] \in Chars /\ src[p] # "end"
         /\ \A p \in Nat : p > Size => peek(p) = "end"
         /\ \A p \in Nat \ {0} : peek(p) # "end" => p \in 1 .. Size
<1>1. "end" \notin Chars
  BY LexerBounds DEF Chars
<1>2. Size \in Nat /\ DOMAIN src = 1 .. Size /\ \A p \in 1 .. Size : src[p] \in Chars
  BY DEF SourceOK, Size
<1>3. \A p \in Nat : p > Size => ~(p <= Size)
  BY <1>2
<1>4. \A p \in 1 .. Size : p <= Size
  BY <1>2
<1>5. \A p \in Nat \ {0} : p <= Size => p \in 1 .. Size
  BY <1>2
<1> QED BY <1>1, <1>2, <1>3, <1>4, <1>5 DEF peek

\* Past(p, S) is where the characters of S that begin at p end.
LEMMA PastOK ==
  ASSUME SourceOK, NEW S, "end" \notin S, NEW p \in 1 .. Size + 1
  PROVE  /\ Past(p, S) \in p .. Size + 1 /\ Past(p, S) \in 1 .. Size + 1
         /\ peek(Past(p, S)) \notin S
         /\ \A r \in p .. Past(p, S) - 1 : src[r] \in S /\ r \in 1 .. Size
<1> DEFINE T == {q \in p .. Size + 1 : peek(q) \notin S}
<1>1. Size \in Nat /\ p \in Nat
  BY Characters
<1>2. Size + 1 \in T
  <2>1. peek(Size + 1) = "end"
    BY <1>1, Characters
  <2>2. Size + 1 \in p .. Size + 1
    BY <1>1
  <2> QED BY <2>1, <2>2
<1>3. T \subseteq Nat
  BY <1>1
<1>4. PICK m \in T : \A k \in T : m <= k
  BY <1>2, <1>3, LeastExists
<1>5. m \in p .. Size + 1 /\ peek(m) \notin S
  BY <1>4
<1>6. ASSUME NEW r \in p .. m - 1 PROVE src[r] \in S
  <2>1. r \in p .. Size + 1 /\ ~(m <= r) /\ r \in 1 .. Size
    BY <1>1, <1>5
  <2>2. r \notin T
    BY <1>4, <2>1
  <2>3. peek(r) \in S
    BY <2>1, <2>2
  <2> QED BY <2>1, <2>3, Characters
<1> HIDE DEF T
<1>7. /\ Past(p, S) \in p .. Size + 1 /\ peek(Past(p, S)) \notin S
      /\ \A r \in p .. Past(p, S) - 1 : src[r] \in S
  BY <1>5, <1>6 DEF Past
<1> HIDE DEF Past
<1>8. Past(p, S) \in 1 .. Size + 1 /\ \A r \in p .. Past(p, S) - 1 : r \in 1 .. Size
  BY <1>1, <1>7
<1> QED BY <1>7, <1>8

(***************************************************************************)
(* The type invariant.  A column is at most the position, so that it fits  *)
(* its Word.                                                               *)
(***************************************************************************)
TokenRecord == [kind : Kinds, first : Nat, last : Nat, line : Nat, column : Nat]
Diagnostic  == [level : Levels, location : [line : Nat, column : Nat]]

EngineTyped(engine) ==
  /\ engine.diagnostics \in Seq(Diagnostic)
  /\ engine.errorCount \in Nat /\ engine.warningCount \in Nat
  /\ engine.errorCount + engine.warningCount <= Len(engine.diagnostics)
  /\ engine.hasFatal = FALSE

TokenIn(t, n) ==
  /\ t.kind \in Kinds /\ t.first \in 1 .. n + 1 /\ t.line \in Nat \ {0}
  /\ t.column \in 0 .. Word - 1
  /\ t.last \in (IF t.kind = "eof" THEN {n} ELSE t.first .. n)

Placed == pos \in 1 .. Size + 1 /\ line \in Nat \ {0} /\ column \in 1 .. pos

Typed ==
  /\ SourceOK /\ Size <= MaxLen /\ Placed
  /\ EngineTyped(diag)
  /\ state \in {"scan", "done", "abort"}
  /\ tokens \in Seq(TokenRecord) /\ \A i \in DOMAIN tokens : TokenIn(tokens[i], Size)

LEMMA TypedOK == Typed => TypeOK
<1> SUFFICES ASSUME Typed PROVE TypeOK
  OBVIOUS
<1>1. pos \in Nat /\ column \in Nat \ {0}
  BY Characters DEF Typed, Placed
<1>2. EngineOK(diag)
  <2>1. diag.diagnostics \in Seq(Diagnostic) /\ EngineTyped(diag)
    BY DEF Typed, EngineTyped
  <2>2. \A i \in DOMAIN diag.diagnostics : diag.diagnostics[i].level \in Levels
    <3>1. \A i \in DOMAIN diag.diagnostics : diag.diagnostics[i] \in Diagnostic
      BY <2>1
    <3>2. \A d \in Diagnostic : d.level \in Levels
      BY DEF Diagnostic
    <3> QED BY <3>1, <3>2
  <2>3. diag.hasFatal => diag.errorCount > 0
    BY <2>1 DEF EngineTyped
  <2> QED BY <2>1, <2>2, <2>3 DEF EngineTyped, EngineOK
<1>3. \A i \in DOMAIN tokens : TokenOK(tokens[i])
  BY DEF Typed, TokenIn, TokenOK
<1> QED BY <1>1, <1>2, <1>3 DEF Typed, Placed, SourceOK, TypeOK

LEMMA InitTyped == Init => Typed
<1> SUFFICES ASSUME Init PROVE Typed
  OBVIOUS
<1>1. PICK A \in Alphabets : src \in UNION {[1 .. n -> A] : n \in 0 .. MaxLen}
  BY DEF Init
<1>2. PICK n \in 0 .. MaxLen : src \in [1 .. n -> A]
  BY <1>1
<1>3. n \in Nat /\ n <= MaxLen
  BY LexerBounds
<1>4. A \subseteq Chars
  BY DEF Chars
<1>5. src \in Seq(Chars) /\ Len(src) = n
  BY <1>2, <1>3, <1>4
<1>6. pos = 1 /\ line = 1 /\ column = 1 /\ tokens = <<>> /\ diag = NoDiagnostics /\ state = "scan"
  BY DEF Init
<1>7. EngineTyped(diag)
  BY <1>6 DEF NoDiagnostics, EngineTyped
<1> QED BY <1>3, <1>5, <1>6, <1>7 DEF Typed, SourceOK, Size, Placed

\* What advance() does to the line and the column.
LEMMA Moved ==
  ASSUME SourceOK, Placed, NEW q \in pos .. Size + 1, MoveTo(q)
  PROVE  Placed' /\ SourceOK' /\ Size' = Size /\ src' = src /\ pos' = q
<1>1. Size \in Nat /\ pos \in Nat /\ q \in 1 .. Size + 1 /\ line \in Nat \ {0}
      /\ column \in 1 .. pos /\ pos <= q
  BY Characters DEF Placed
<1>2. src' = src /\ pos' = q /\ Size' = Size
  BY DEF MoveTo, Size
<1> DEFINE nls == NewlinesIn(pos, q)
<1>3. nls \subseteq pos .. q - 1 /\ nls \subseteq 0 .. q
  BY <1>1 DEF NewlinesIn
<1>4. line' = line + Cardinality(nls)
  BY DEF MoveTo
<1>5. column' = IF nls = {} THEN column + (q - pos)
                ELSE q - (CHOOSE r \in nls : \A s \in nls : s <= r)
  BY DEF MoveTo
<1> HIDE DEF nls
<1>6. line' \in Nat \ {0}
  <2>1. IsFiniteSet(pos .. q - 1)
    BY <1>1, FS_Interval
  <2>2. IsFiniteSet(nls)
    BY <1>3, <2>1, FS_Subset
  <2>3. Cardinality(nls) \in Nat
    BY <2>2, FS_CardinalityType
  <2> QED BY <1>1, <1>4, <2>3
<1>7. column' \in 1 .. q
  <2>1. CASE nls = {}
    BY <1>1, <1>5, <2>1
  <2>2. CASE nls # {}
    <3>1. \E r \in nls : \A s \in nls : s <= r
      <4>1. q \in Nat
        BY <1>1
      <4> QED BY <1>3, <2>2, <4>1, GreatestExists
    <3>2. PICK r \in nls : column' = q - r
      BY <1>5, <2>2, <3>1
    <3>3. r \in pos .. q - 1
      BY <1>3
    <3> QED BY <1>1, <3>2, <3>3
  <2> QED BY <2>1, <2>2
<1> QED BY <1>1, <1>2, <1>6, <1>7 DEF Placed, SourceOK

LEMMA Emitted ==
  ASSUME NEW engine, EngineTyped(engine), NEW loc \in [line : Nat, column : Nat]
  PROVE  EngineTyped(emit(engine, "error", loc))
<1> DEFINE d == [level |-> "error", location |-> loc]
<1>1. d \in Diagnostic
  BY DEF Diagnostic, Levels
<1>2. /\ engine.diagnostics \in Seq(Diagnostic)
      /\ engine.errorCount \in Nat /\ engine.warningCount \in Nat
      /\ engine.errorCount + engine.warningCount <= Len(engine.diagnostics)
      /\ engine.hasFatal = FALSE
  BY DEF EngineTyped
<1>3. /\ emit(engine, "error", loc).diagnostics = Append(engine.diagnostics, d)
      /\ emit(engine, "error", loc).errorCount = engine.errorCount + 1
      /\ emit(engine, "error", loc).warningCount = engine.warningCount + 0
      /\ emit(engine, "error", loc).hasFatal = (engine.hasFatal \/ "error" = "fatal")
  BY DEF emit
<1> HIDE DEF d
<1>4. /\ Append(engine.diagnostics, d) \in Seq(Diagnostic)
      /\ Len(Append(engine.diagnostics, d)) = Len(engine.diagnostics) + 1
      /\ Len(engine.diagnostics) \in Nat
  BY <1>1, <1>2
<1>5. emit(engine, "error", loc).hasFatal = FALSE
  BY <1>2, <1>3
<1> DEFINE e == emit(engine, "error", loc)
<1>6. e.diagnostics \in Seq(Diagnostic) /\ Len(e.diagnostics) = Len(engine.diagnostics) + 1
  BY <1>3, <1>4
<1>7. e.errorCount = engine.errorCount + 1 /\ e.warningCount = engine.warningCount + 0
      /\ e.hasFatal = FALSE
  BY <1>3, <1>5
<1> HIDE DEF e
<1>8. EngineTyped(e)
  <2>1. /\ e.errorCount \in Nat /\ e.warningCount \in Nat
        /\ e.errorCount + e.warningCount <= Len(e.diagnostics)
    BY <1>2, <1>4, <1>6, <1>7
  <2> QED BY <1>6, <1>7, <2>1 DEF EngineTyped
<1> QED BY <1>8 DEF e

\* A token that is made where the lexer has moved to is one of the source's.
LEMMA TokenAdded ==
  ASSUME Typed, Placed', src' = src, pos' \in pos .. Size + 1, EngineTyped(diag'),
         state' \in {"scan", "done", "abort"},
         NEW t, tokens' = Append(tokens, t),
         NEW kind \in Kinds, NEW last \in Nat, NEW column_ \in 0 .. Word - 1,
         t = [kind |-> kind, first |-> pos, last |-> last, line |-> line', column |-> column_],
         last \in (IF kind = "eof" THEN {Size} ELSE pos .. Size)
  PROVE  Typed'
<1>1. /\ Size \in Nat /\ pos \in 1 .. Size + 1 /\ line' \in Nat \ {0} /\ Word \in Nat
      /\ tokens \in Seq(TokenRecord) /\ SourceOK
  BY Characters, LexerBounds DEF Typed, Placed
<1>2. t \in TokenRecord
  BY <1>1 DEF TokenRecord
<1>3. /\ tokens' \in Seq(TokenRecord) /\ DOMAIN tokens' = 1 .. Len(tokens) + 1
      /\ DOMAIN tokens = 1 .. Len(tokens) /\ Len(tokens) \in Nat
      /\ \A i \in 1 .. Len(tokens) : tokens'[i] = tokens[i]
      /\ tokens'[Len(tokens) + 1] = t
  BY <1>1, <1>2
<1>4. Size' = Size /\ SourceOK'
  BY <1>1 DEF Size, SourceOK
<1>5. TokenIn(t, Size)
  BY <1>1 DEF TokenIn
<1>6. ASSUME NEW i \in DOMAIN tokens' PROVE TokenIn(tokens'[i], Size')
  <2>1. i \in 1 .. Len(tokens) \/ i = Len(tokens) + 1
    BY <1>3
  <2>2. CASE i \in 1 .. Len(tokens)
    <3>1. TokenIn(tokens[i], Size)
      BY <1>3, <2>2 DEF Typed
    <3> QED BY <1>3, <1>4, <2>2, <3>1
  <2>3. CASE i = Len(tokens) + 1
    BY <1>3, <1>4, <1>5, <2>3
  <2> QED BY <2>1, <2>2, <2>3
<1>7. Size' <= MaxLen
  BY <1>4 DEF Typed
<1> QED BY <1>3, <1>4, <1>6, <1>7 DEF Typed

LEMMA TokenTyped ==
  ASSUME Typed, NEW kind \in Kinds \ {"eof"}, NEW q \in pos + 1 .. Size + 1, Token(kind, q)
  PROVE  Typed'
<1> DEFINE c == (column' - (q - pos)) % Word
           t == [kind |-> kind, first |-> pos, last |-> q - 1, line |-> line', column |-> c]
<1>1. /\ Size \in Nat /\ pos \in Nat \ {0} /\ SourceOK /\ Placed /\ q \in pos .. Size + 1
      /\ line \in Nat /\ column \in Nat
  BY Characters DEF Typed, Placed
<1>2. MoveTo(q) /\ tokens' = Append(tokens, t) /\ state' = state
  BY DEF Token, makeToken
<1>3. Placed' /\ src' = src /\ pos' = q
  BY <1>1, <1>2, Moved
<1>4. c \in 0 .. Word - 1
  <2>1. column' \in Int
    BY <1>1, <1>3, Characters DEF Placed
  <2>2. Word \in Nat /\ Word > 0
    BY LexerBounds
  <2>3. \A x, y \in Int : y > 0 => x % y \in 0 .. y - 1
    OBVIOUS
  <2>4. column' - (q - pos) \in Int
    BY <1>1, <2>1
  <2> QED BY <2>2, <2>3, <2>4
<1>5. EngineTyped(diag')
  <2>1. openLoc \in [line : Nat, column : Nat]
    BY <1>1 DEF openLoc
  <2>2. diag' = emit(diag, "error", openLoc) \/ diag' = diag
    BY DEF Token
  <2> QED BY <2>1, <2>2, Emitted DEF Typed
<1>6. q - 1 \in Nat /\ q - 1 \in pos .. Size /\ pos' \in pos .. Size + 1
  BY <1>1, <1>3
<1>7. state' \in {"scan", "done", "abort"}
  BY <1>2 DEF Typed
<1> HIDE DEF c
<1>8. t = [kind |-> kind, first |-> pos, last |-> q - 1, line |-> line', column |-> c]
      /\ kind \in Kinds /\ q - 1 \in (IF kind = "eof" THEN {Size} ELSE pos .. Size)
  BY <1>6
<1> HIDE DEF t
<1> QED BY <1>2, <1>3, <1>4, <1>5, <1>6, <1>7, <1>8, TokenAdded

(***************************************************************************)
(* Where the tokens without quotes end, and what they are made of: no      *)
(* blank, no quote, and a slash at most at the front.                      *)
(***************************************************************************)
Inert == Letters \cup Digits \cup (Starts \ {"/"})
Plainly(q) ==
  /\ q \in pos + 1 .. Size + 1 /\ src[pos] \in Inert \cup {"/"}
  /\ \A r \in pos + 1 .. q - 1 : src[r] \in Inert

LEMMA AtCharacter ==
  ASSUME Typed, NEW S, At(S), "end" \notin S
  PROVE  /\ pos \in 1 .. Size /\ peek(pos) = src[pos] /\ src[pos] \in S /\ Size \in Nat
         /\ pos + 1 \in 1 .. Size + 1 /\ state = "scan" /\ ~Skipping
<1>1. peek(pos) \in S /\ peek(pos) # "end" /\ SourceOK /\ pos \in 1 .. Size + 1
  BY DEF At, Typed, Placed
<1>2. Size \in Nat /\ pos \in Nat \ {0}
  BY <1>1, Characters
<1>3. pos \in 1 .. Size
  BY <1>1, <1>2, Characters
<1>4. peek(pos) = src[pos]
  BY <1>1, <1>3, Characters
<1>5. pos + 1 \in 1 .. Size + 1
  BY <1>2, <1>3
<1> QED BY <1>1, <1>2, <1>3, <1>4, <1>5 DEF At

LEMMA NoEnd ==
  /\ "end" \notin Letters /\ "end" \notin Digits /\ "end" \notin HexDigits /\ "end" \notin Starts
  /\ "end" \notin Blanks
  /\ Letters \subseteq Inert /\ Digits \subseteq Inert /\ HexDigits \subseteq Inert
  BY DEF Letters, Digits, HexDigits, Starts, Blanks, Inert

LEMMA IdentifierEnds ==
  ASSUME Typed, lexIdentifierOrKeyword
  PROVE  \E q : Plainly(q) /\ Token("ident", q)
<1> DEFINE q == Past(pos, Letters \cup Digits)
<1>1. pos \in 1 .. Size /\ src[pos] \in Letters /\ Size \in Nat /\ peek(pos) = src[pos]
  BY AtCharacter, NoEnd DEF lexIdentifierOrKeyword
<1>2. /\ q \in pos .. Size + 1 /\ peek(q) \notin Letters \cup Digits
      /\ \A r \in pos .. q - 1 : src[r] \in Letters \cup Digits
  <2>1. pos \in 1 .. Size + 1 /\ SourceOK /\ "end" \notin Letters \cup Digits
    BY <1>1, NoEnd DEF Typed
  <2> QED BY <2>1, PastOK
<1>3. Token("ident", q)
  BY DEF lexIdentifierOrKeyword
<1> HIDE DEF q
<1>4. q # pos
  BY <1>1, <1>2
<1>5. q \in pos + 1 .. Size + 1 /\ \A r \in pos + 1 .. q - 1 : r \in pos .. q - 1
  BY <1>1, <1>2, <1>4
<1>6. Plainly(q)
  BY <1>1, <1>2, <1>5, NoEnd DEF Plainly
<1> QED BY <1>3, <1>6

LEMMA OperatorEnds ==
  ASSUME Typed, Operator
  PROVE  \E q : Plainly(q) /\ Token("op", q)
<1> DEFINE q == OperatorEnd
<1>1. pos \in 1 .. Size /\ src[pos] \in Starts /\ Size \in Nat /\ SourceOK
  BY AtCharacter, NoEnd DEF Operator, Typed
<1>2. Token("op", q)
  BY DEF Operator
<1>3. src[pos] \in Inert \cup {"/"}
  BY <1>1 DEF Inert
<1>4. CASE <<src[pos], peek(pos + 1)>> \notin Pairs
  <2>1. q = pos + 1
    BY <1>4 DEF OperatorEnd
  <2>2. q \in pos + 1 .. Size + 1 /\ pos + 1 .. q - 1 = {}
    BY <1>1, <2>1
  <2>3. Plainly(q)
    BY <1>3, <2>2 DEF Plainly
  <2> QED BY <1>2, <2>3
<1>5. CASE <<src[pos], peek(pos + 1)>> \in Pairs
  <2>1. peek(pos + 1) \in Inert /\ peek(pos + 1) # "end"
    <3>1. \A x, y : <<x, y>> \in Pairs => y \in {"=", ">", "&", "|", "<", ":", "."}
      BY DEF Pairs
    <3>2. peek(pos + 1) \in {"=", ">", "&", "|", "<", ":", "."}
      BY <1>5, <3>1
    <3> QED BY <3>2 DEF Inert, Starts
  <2>2. pos + 1 \in 1 .. Size /\ peek(pos + 1) = src[pos + 1]
    BY <1>1, <2>1, Characters
  <2>3. CASE src[pos] = "." /\ peek(pos + 2) = "."
    <3>1. pos + 2 \in 1 .. Size /\ src[pos + 2] = "."
      BY <1>1, <2>3, Characters
    <3>2. q = pos + 3
      BY <1>5, <2>3 DEF OperatorEnd
    <3>3. q \in pos + 1 .. Size + 1 /\ \A r \in pos + 1 .. q - 1 : r = pos + 1 \/ r = pos + 2
      BY <1>1, <3>1, <3>2
    <3>4. "." \in Inert
      BY DEF Inert, Starts
    <3>5. Plainly(q)
      BY <1>3, <2>1, <2>2, <3>1, <3>3, <3>4 DEF Plainly
    <3> QED BY <1>2, <3>5
  <2>4. CASE ~(src[pos] = "." /\ peek(pos + 2) = ".")
    <3>1. q = pos + 2
      BY <1>5, <2>4 DEF OperatorEnd
    <3>2. q \in pos + 1 .. Size + 1 /\ \A r \in pos + 1 .. q - 1 : r = pos + 1
      BY <1>1, <2>2, <3>1
    <3>3. Plainly(q)
      BY <1>3, <2>1, <2>2, <3>2 DEF Plainly
    <3> QED BY <1>2, <3>3
  <2> QED BY <2>3, <2>4
<1> QED BY <1>4, <1>5

LEMMA NumberEndOK ==
  ASSUME SourceOK, pos \in 1 .. Size, src[pos] \in Digits
  PROVE  Plainly(NumberEnd.all)
<1> DEFINE digits   == Past(pos, Digits)
           fraction == IF peek(digits) = "." /\ peek(digits + 1) \in Digits
                       THEN Past(digits + 1, Digits) ELSE digits
           sign     == IF peek(fraction + 1) \in {"+", "-"} THEN 2 ELSE 1
           exponent == IF peek(fraction) = "e" THEN Past(fraction + sign, Digits) ELSE fraction
<1>1. NumberEnd.all = exponent
  BY DEF NumberEnd
<1>2. Size \in Nat /\ "end" \notin Digits /\ Digits \subseteq Inert /\ pos \in 1 .. Size + 1
  BY Characters, NoEnd
<1>3. "." \in Inert /\ "e" \in Inert /\ "+" \in Inert /\ "-" \in Inert
  BY DEF Inert, Starts, Letters
<1>4. /\ digits \in pos + 1 .. Size + 1
      /\ \A r \in pos .. digits - 1 : src[r] \in Digits
  <2>1. /\ digits \in pos .. Size + 1 /\ peek(digits) \notin Digits
        /\ \A r \in pos .. digits - 1 : src[r] \in Digits
    BY <1>2, PastOK
  <2>2. peek(pos) \in Digits
    BY Characters
  <2> HIDE DEF digits
  <2>3. digits # pos
    BY <2>1, <2>2
  <2> QED BY <1>2, <2>1, <2>3
<1> HIDE DEF digits
<1>5. /\ fraction \in digits .. Size + 1
      /\ \A r \in digits .. fraction - 1 : src[r] \in Inert
  <2>1. CASE peek(digits) = "." /\ peek(digits + 1) \in Digits
    <3>1. digits + 1 \in 1 .. Size /\ digits + 1 \in 1 .. Size + 1 /\ digits \in 1 .. Size
      BY <1>2, <1>4, <2>1, Characters
    <3>2. fraction = Past(digits + 1, Digits)
      BY <2>1
    <3> HIDE DEF fraction
    <3>3. /\ fraction \in digits + 1 .. Size + 1
          /\ \A r \in digits + 1 .. fraction - 1 : src[r] \in Digits
      BY <1>2, <3>1, <3>2, PastOK
    <3>4. src[digits] = "."
      BY <2>1, <3>1, Characters
    <3>5. \A r \in digits .. fraction - 1 : r = digits \/ r \in digits + 1 .. fraction - 1
      BY <1>2, <3>1, <3>3
    <3>6. \A r \in digits .. fraction - 1 : src[r] \in Inert
      BY <1>2, <1>3, <3>3, <3>4, <3>5
    <3> QED BY <1>2, <3>1, <3>3, <3>6
  <2>2. CASE ~(peek(digits) = "." /\ peek(digits + 1) \in Digits)
    <3>1. fraction = digits
      BY <2>2
    <3> HIDE DEF fraction
    <3> QED BY <1>2, <1>4, <3>1
  <2> QED BY <2>1, <2>2
<1> HIDE DEF fraction
<1>6. /\ exponent \in fraction .. Size + 1
      /\ \A r \in fraction .. exponent - 1 : src[r] \in Inert
  <2>1. CASE peek(fraction) = "e"
    <3>1. fraction \in 1 .. Size /\ src[fraction] = "e" /\ fraction \in Nat
      BY <1>2, <1>4, <1>5, <2>1, Characters
    <3>2. /\ sign \in 1 .. 2 /\ fraction + sign \in 1 .. Size + 1
          /\ \A r \in fraction .. fraction + sign - 1 : src[r] \in Inert
      <4>1. CASE peek(fraction + 1) \in {"+", "-"}
        <5>1. fraction + 1 \in 1 .. Size /\ src[fraction + 1] \in {"+", "-"} /\ sign = 2
          BY <3>1, <4>1, Characters
        <5>2. \A r \in fraction .. fraction + 2 - 1 : r = fraction \/ r = fraction + 1
          BY <3>1
        <5> QED BY <1>2, <1>3, <3>1, <5>1, <5>2
      <4>2. CASE peek(fraction + 1) \notin {"+", "-"}
        <5>1. sign = 1
          BY <4>2
        <5>2. \A r \in fraction .. fraction + 1 - 1 : r = fraction
          BY <3>1
        <5> QED BY <1>2, <1>3, <3>1, <5>1, <5>2
      <4> QED BY <4>1, <4>2
    <3>3. exponent = Past(fraction + sign, Digits)
      BY <2>1
    <3> HIDE DEF exponent, sign
    <3>4. /\ exponent \in fraction + sign .. Size + 1
          /\ \A r \in fraction + sign .. exponent - 1 : src[r] \in Digits
      BY <1>2, <3>2, <3>3, PastOK
    <3>5. \A r \in fraction .. exponent - 1 :
            r \in fraction .. fraction + sign - 1 \/ r \in fraction + sign .. exponent - 1
      BY <1>2, <3>1, <3>2, <3>4
    <3>6. \A r \in fraction .. exponent - 1 : src[r] \in Inert
      BY <1>2, <3>2, <3>4, <3>5
    <3> QED BY <1>2, <3>1, <3>2, <3>4, <3>6
  <2>2. CASE peek(fraction) # "e"
    <3>1. exponent = fraction
      BY <2>2
    <3> HIDE DEF exponent
    <3> QED BY <1>2, <1>4, <1>5, <3>1
  <2> QED BY <2>1, <2>2
<1> HIDE DEF exponent
<1>7. exponent \in pos + 1 .. Size + 1
  BY <1>2, <1>4, <1>5, <1>6
<1>8. \A r \in pos + 1 .. exponent - 1 :
        \/ r \in pos .. digits - 1 \/ r \in digits .. fraction - 1
        \/ r \in fraction .. exponent - 1
  BY <1>2, <1>4, <1>5, <1>6
<1>9. \A r \in pos + 1 .. exponent - 1 : src[r] \in Inert
  BY <1>2, <1>4, <1>5, <1>6, <1>8
<1> QED BY <1>1, <1>2, <1>7, <1>9 DEF Plainly

LEMMA NumberEnds ==
  ASSUME Typed, lexNumber
  PROVE  \E q, kind : Plainly(q) /\ Token(kind, q) /\ kind \in {"int", "float"}
<1>1. pos \in 1 .. Size /\ src[pos] \in Digits /\ Size \in Nat /\ SourceOK
  BY AtCharacter, NoEnd DEF lexNumber, Typed
<1>2. Digits \subseteq Inert /\ HexDigits \subseteq Inert /\ "end" \notin Digits
      /\ "end" \notin HexDigits
  BY NoEnd
<1> DEFINE hex == src[pos] = "0" /\ peek(pos + 1) = "x"
           bin == src[pos] = "0" /\ peek(pos + 1) \in {"b", "o"}
\* The digits after a prefix.
<1>3. ASSUME NEW S, S \subseteq Inert, "end" \notin S, hex \/ bin
      PROVE  Plainly(Past(pos + 2, S))
  <2> DEFINE q == Past(pos + 2, S)
  <2>1. pos + 1 \in 1 .. Size /\ src[pos + 1] \in {"x", "b", "o"}
    <3>1. peek(pos + 1) \in {"x", "b", "o"} /\ peek(pos + 1) # "end"
      BY <1>3
    <3> QED BY <1>1, <3>1, Characters
  <2>2. pos + 2 \in 1 .. Size + 1
    BY <1>1, <2>1
  <2>3. q \in pos + 2 .. Size + 1 /\ \A r \in pos + 2 .. q - 1 : src[r] \in S
    BY <1>1, <1>3, <2>2, PastOK
  <2> HIDE DEF q
  <2>4. q \in pos + 1 .. Size + 1
        /\ \A r \in pos + 1 .. q - 1 : r = pos + 1 \/ r \in pos + 2 .. q - 1
    BY <1>1, <2>3
  <2>5. "x" \in Inert /\ "b" \in Inert /\ "o" \in Inert
    BY DEF Inert, Letters
  <2>6. Plainly(q)
    BY <1>1, <1>2, <1>3, <2>1, <2>3, <2>4, <2>5 DEF Plainly
  <2> QED BY <2>6 DEF q
<1>4. CASE hex
  <2>1. Token("int", Past(pos + 2, HexDigits))
    BY <1>4 DEF lexNumber
  <2> QED BY <1>2, <1>3, <1>4, <2>1
<1>5. CASE bin
  <2>1. Token("int", Past(pos + 2, Digits))
    BY <1>5 DEF lexNumber
  <2> QED BY <1>2, <1>3, <1>5, <2>1
<1>6. CASE ~hex /\ ~bin
  <2>1. PICK kind \in {"int", "float"} : Token(kind, NumberEnd.all)
    BY <1>6 DEF lexNumber
  <2> QED BY <1>1, <2>1, NumberEndOK
<1> QED BY <1>4, <1>5, <1>6

LEMMA CharEnds ==
  ASSUME Typed, lexChar
  PROVE  \E kind, q : /\ q \in pos + 1 .. Size + 1 /\ src[pos] = "tick" /\ kind \in {"char", "error"}
                      /\ Token(kind, q)
<1>1. pos \in 1 .. Size /\ src[pos] = "tick" /\ Size \in Nat /\ SourceOK
  BY AtCharacter DEF lexChar, Typed
<1> DEFINE char  == IF peek(pos + 1) = "esc" THEN pos + 2 ELSE pos + 1
           close == IF char <= Size THEN char + 1 ELSE char
           over  == Past(close, Chars \ {"tick", "nl"})
<1>2. CASE pos + 1 > Size
  <2>1. ~(char <= Size) /\ peek(close) # "tick"
    <3>1. peek(pos + 1) = "end"
      BY <1>1, <1>2, Characters
    <3>2. char = pos + 1 /\ close = pos + 1
      BY <1>1, <1>2, <3>1
    <3> QED BY <1>1, <1>2, <3>1, <3>2
  <2>2. Token("error", pos + 1)
    BY <1>2, <2>1 DEF lexChar
  <2> QED BY <1>1, <2>2
<1>3. CASE ~(pos + 1 > Size)
  <2>1. close \in pos + 2 .. Size + 1
    <3>1. CASE peek(pos + 1) = "esc"
      <4>1. char = pos + 2
        BY <3>1
      <4> QED BY <1>1, <1>3, <4>1
    <3>2. CASE peek(pos + 1) # "esc"
      <4>1. char = pos + 1
        BY <3>2
      <4> QED BY <1>1, <1>3, <4>1
    <3> QED BY <3>1, <3>2
  <2>2. CASE peek(close) = "tick"
    <3>1. Token("char", close + 1)
      BY <1>3, <2>2 DEF lexChar
    <3> HIDE DEF close
    <3>2. close \in 1 .. Size
      <4>1. close \in Nat \ {0}
        BY <1>1, <2>1
      <4> QED BY <2>2, <4>1, Characters, <1>1
    <3> QED BY <1>1, <2>1, <3>1, <3>2
  <2>3. CASE peek(close) # "tick"
    <3>1. Token("error", IF peek(over) = "tick" THEN over + 1 ELSE over)
      BY <1>3, <2>3 DEF lexChar
    <3>2. over \in close .. Size + 1 /\ over \in 1 .. Size + 1
      <4>1. close \in 1 .. Size + 1 /\ "end" \notin Chars \ {"tick", "nl"}
        BY <1>1, <2>1, Characters
      <4> HIDE DEF close
      <4> QED BY <1>1, <4>1, PastOK
    <3> HIDE DEF close, over
    <3>3. CASE peek(over) = "tick"
      <4>1. over \in 1 .. Size
        BY <1>1, <3>2, <3>3, Characters
      <4>2. over + 1 \in pos + 1 .. Size + 1
        BY <1>1, <2>1, <3>2, <4>1
      <4> QED BY <1>1, <3>1, <3>3, <4>2
    <3>4. CASE peek(over) # "tick"
      <4>1. over \in pos + 1 .. Size + 1
        BY <1>1, <2>1, <3>2
      <4> QED BY <1>1, <3>1, <3>4, <4>1
    <3> QED BY <3>3, <3>4
  <2> QED BY <2>2, <2>3
<1> QED BY <1>2, <1>3

(***************************************************************************)
(* The contexts of LexerRules: After is the step of their recursion.       *)
(***************************************************************************)
After(c, q) ==
  CASE c.skip -> IF c.in = "block" /\ c.depth = 0 THEN Code
                 ELSE Open(c.in, c.depth, FALSE)
    [] c.in = "code" /\ ~c.skip ->
         CASE Pair(q, "/", "/") -> Open("line", 0, TRUE)
           [] src[q] = "#"      -> Open("line", 0, FALSE)
           [] Pair(q, "/", "*") -> Open("block", 1, TRUE)
           [] src[q] = "quote"  -> Open("string", 0, FALSE)
           [] src[q] = "tick"   -> Open("char", 2, FALSE)
           [] OTHER -> Code
    [] c.in = "line" /\ ~c.skip ->
         IF src[q] = "nl" THEN Code ELSE c
    [] c.in = "string" /\ ~c.skip ->
         CASE src[q] = "esc" -> Open("string", 0, TRUE)
           [] src[q] \in {"quote", "nl"} -> Code
           [] OTHER -> c
    [] c.in = "char" /\ ~c.skip ->
         CASE c.depth = 2 /\ src[q] = "esc" -> Open("char", 3, FALSE)
           [] c.depth = 3 \/ (c.depth = 2 /\ src[q] # "esc") ->
                Open("char", 1, Pair(q, "lead", "cont"))
           [] c.depth < 2 /\ src[q] \in {"tick", "nl"} -> Code
           [] OTHER -> Open("char", 0, FALSE)
    [] c.in = "block" /\ ~c.skip ->
         CASE Pair(q, "/", "*") -> Open("block", c.depth + 1, TRUE)
           [] Pair(q, "*", "/") -> Open("block", c.depth - 1, TRUE)
           [] OTHER -> c

Contexts(f, n) == f = [p \in 1 .. n |-> IF p = 1 THEN Code ELSE After(f[p - 1], p - 1)]

LEMMA ContextExists ==
  ASSUME NEW n \in Nat
  PROVE  \E f : Contexts(f, n)
<1> DEFINE T == {m \in Nat : ~ \E f : Contexts(f, m)}
<1>1. SUFFICES ASSUME T # {} PROVE FALSE
  OBVIOUS
<1>2. PICK m \in T : \A k \in T : m <= k
  <2>1. T \subseteq Nat
    OBVIOUS
  <2> HIDE DEF T
  <2> QED BY <1>1, <2>1, LeastExists
<1>3. m \in Nat /\ m # 0
  <2>1. Contexts([p \in 1 .. 0 |-> Code], 0)
    BY DEF Contexts
  <2> QED BY <1>2, <2>1
<1>4. m - 1 \in Nat /\ ~(m <= m - 1)
  BY <1>3
<1>5. PICK f : Contexts(f, m - 1)
  BY <1>2, <1>4
<1> DEFINE g == [p \in 1 .. m |-> IF p = 1 THEN Code ELSE After(f[p - 1], p - 1)]
<1>6. \A p \in 1 .. m - 1 : g[p] = f[p]
  BY <1>3, <1>5 DEF Contexts
<1>7. \A p \in 1 .. m : p # 1 => p - 1 \in 1 .. m - 1
  BY <1>3
<1>8. Contexts(g, m)
  BY <1>6, <1>7 DEF Contexts
<1> HIDE DEF g
<1> QED BY <1>2, <1>8

LEMMA ContextSteps ==
  ASSUME SourceOK
  PROVE  Context[1] = Code /\ \A p \in 1 .. Size : Context[p + 1] = After(Context[p], p)
<1>1. Size \in Nat /\ Size + 1 \in Nat
  BY Characters
<1> DEFINE h == CHOOSE f : Contexts(f, Size + 1)
<1>2. Contexts(h, Size + 1)
  BY <1>1, ContextExists
<1>3. Context = h
  BY DEF Context, Contexts, After
<1> HIDE DEF h
<1>4. h[1] = Code
  BY <1>1, <1>2 DEF Contexts
<1>5. ASSUME NEW p \in 1 .. Size PROVE h[p + 1] = After(h[p], p)
  <2>1. p + 1 \in 1 .. Size + 1 /\ p + 1 # 1 /\ (p + 1) - 1 = p
    BY <1>1
  <2>2. h[p + 1] = IF p + 1 = 1 THEN Code ELSE After(h[(p + 1) - 1], (p + 1) - 1)
    BY <1>2, <2>1 DEF Contexts
  <2> QED BY <2>1, <2>2
<1> QED BY <1>3, <1>4, <1>5

LEMMA AfterCode ==
  ASSUME NEW q, peek(q) = src[q]
  PROVE  /\ Pair(q, "/", "/") => After(Code, q) = Open("line", 0, TRUE)
         /\ Pair(q, "/", "*") => After(Code, q) = Open("block", 1, TRUE)
         /\ src[q] = "quote" => After(Code, q) = Open("string", 0, FALSE)
         /\ src[q] = "tick" => After(Code, q) = Open("char", 2, FALSE)
         /\ src[q] \notin {"#", "quote", "tick"} /\ ~Pair(q, "/", "/") /\ ~Pair(q, "/", "*") =>
              After(Code, q) = Code
<1> DEFINE a == Pair(q, "/", "/")
           b == src[q] = "#"
           c == Pair(q, "/", "*")
           d == src[q] = "quote"
           e == src[q] = "tick"
           X == CASE a -> Open("line", 0, TRUE) [] b -> Open("line", 0, FALSE)
                  [] c -> Open("block", 1, TRUE) [] d -> Open("string", 0, FALSE)
                  [] e -> Open("char", 2, FALSE) [] OTHER -> Code
<1>1. Code.skip = FALSE /\ Code.in = "code"
  BY DEF Code, Open
<1>2. After(Code, q) = X
  BY <1>1 DEF After
<1>3. a => ~b /\ ~c /\ ~d /\ ~e
  BY DEF Pair
<1>4. c => ~a /\ ~b /\ ~d /\ ~e
  BY DEF Pair
<1>5. (d => ~a /\ ~b /\ ~c /\ ~e) /\ (e => ~a /\ ~b /\ ~c /\ ~d)
  BY DEF Pair
<1>6. src[q] \notin {"#", "quote", "tick"} => ~b /\ ~d /\ ~e
  OBVIOUS
<1>7. a => X = Open("line", 0, TRUE)
  <2> HIDE DEF a, b, c, d, e
  <2> QED BY <1>3
<1>8. c => X = Open("block", 1, TRUE)
  <2> HIDE DEF a, b, c, d, e
  <2> QED BY <1>4
<1>9. (d => X = Open("string", 0, FALSE)) /\ (e => X = Open("char", 2, FALSE))
  <2> HIDE DEF a, b, c, d, e
  <2> QED BY <1>5
<1>10. ~a /\ ~b /\ ~c /\ ~d /\ ~e => X = Code
  <2> HIDE DEF a, b, c, d, e
  <2> QED OBVIOUS
<1> QED BY <1>2, <1>6, <1>7, <1>8, <1>9, <1>10

LEMMA AfterSkip ==
  ASSUME NEW q, NEW in, NEW depth
  PROVE  After(Open(in, depth, TRUE), q) =
           IF in = "block" /\ depth = 0 THEN Code ELSE Open(in, depth, FALSE)
  BY DEF After, Code, Open

LEMMA AfterLine ==
  ASSUME NEW q
  PROVE  After(Open("line", 0, FALSE), q) = IF src[q] = "nl" THEN Code ELSE Open("line", 0, FALSE)
  BY DEF After, Open

LEMMA AfterString ==
  ASSUME NEW q
  PROVE  After(Open("string", 0, FALSE), q) =
           IF src[q] = "esc" THEN Open("string", 0, TRUE)
           ELSE IF src[q] \in {"quote", "nl"} THEN Code ELSE Open("string", 0, FALSE)
  BY DEF After, Open

LEMMA AfterChar ==
  ASSUME NEW q
  PROVE  /\ After(Open("char", 2, FALSE), q) =
              IF src[q] = "esc" THEN Open("char", 3, FALSE)
              ELSE Open("char", 1, Pair(q, "lead", "cont"))
         /\ After(Open("char", 3, FALSE), q) = Open("char", 1, Pair(q, "lead", "cont"))
         /\ \A depth \in 0 .. 1 : After(Open("char", depth, FALSE), q) =
              IF src[q] \in {"tick", "nl"} THEN Code ELSE Open("char", 0, FALSE)
  BY DEF After, Open

LEMMA AfterBlock ==
  ASSUME NEW q, NEW depth
  PROVE  After(Open("block", depth, FALSE), q) =
           IF Pair(q, "/", "*") THEN Open("block", depth + 1, TRUE)
           ELSE IF Pair(q, "*", "/") THEN Open("block", depth - 1, TRUE)
           ELSE Open("block", depth, FALSE)
  BY DEF After, Open, Pair

(***************************************************************************)
(* Where strings and block comments end: solutions of the recursions of    *)
(* StringEnd and CommentEnd exist, as none is the greatest position from   *)
(* which there is no solution.  From inside a string or a comment, the     *)
(* text up to the end is in it, and the program goes on behind.            *)
(***************************************************************************)
StringAt(f, q) ==
  IF q > Size THEN [to |-> Size + 1, kind |-> "error"]
  ELSE IF src[q] = "quote" THEN [to |-> q + 1, kind |-> "string"]
  ELSE IF src[q] = "esc" THEN f[q + 2]
  ELSE IF src[q] = "nl" THEN [to |-> q + 1, kind |-> "error"]
  ELSE f[q + 1]
Strings(f, m) == f = [q \in m .. Size + 2 |-> StringAt(f, q)]

LEMMA StringsExist ==
  ASSUME SourceOK, NEW p \in 0 .. Size + 2
  PROVE  \E f : Strings(f, p)
<1>1. Size \in Nat /\ Size + 2 \in Nat
  BY Characters
<1> DEFINE T == {m \in 0 .. Size + 2 : ~ \E f : Strings(f, m)}
<1>2. SUFFICES ASSUME T # {} PROVE FALSE
  OBVIOUS
<1>3. PICK m \in T : \A k \in T : k <= m
  <2>1. T \subseteq 0 .. Size + 2
    OBVIOUS
  <2> HIDE DEF T
  <2> QED BY <1>1, <1>2, <2>1, GreatestExists
<1>4. m \in 0 .. Size + 2 /\ ~ \E f : Strings(f, m)
  BY <1>3
<1> DEFINE top == [q \in Size + 2 .. Size + 2 |-> [to |-> Size + 1, kind |-> "error"]]
<1>5. m # Size + 2
  <2>1. \A q \in Size + 2 .. Size + 2 : StringAt(top, q) = [to |-> Size + 1, kind |-> "error"]
    BY <1>1 DEF StringAt
  <2>2. Strings(top, Size + 2)
    BY <2>1 DEF Strings
  <2> QED BY <1>4, <2>2
<1>6. m + 1 \in 0 .. Size + 2 /\ ~(m + 1 <= m)
  BY <1>1, <1>4, <1>5
<1>7. PICK f : Strings(f, m + 1)
  BY <1>3, <1>6
<1> DEFINE g == [q \in m .. Size + 2 |-> StringAt(f, q)]
<1>8. \A q \in m + 1 .. Size + 2 : g[q] = f[q]
  <2>1. \A q \in m + 1 .. Size + 2 : q \in m .. Size + 2
    BY <1>1, <1>4
  <2>2. \A q \in m + 1 .. Size + 2 : f[q] = StringAt(f, q)
    BY <1>7 DEF Strings
  <2> QED BY <2>1, <2>2
<1>9. \A q \in m .. Size + 2 : StringAt(g, q) = StringAt(f, q)
  <2> SUFFICES ASSUME NEW q \in m .. Size + 2 PROVE StringAt(g, q) = StringAt(f, q)
    OBVIOUS
  <2> HIDE DEF g
  <2>1. CASE q > Size
    BY <2>1 DEF StringAt
  <2>2. CASE ~(q > Size)
    <3>1. q + 1 \in m + 1 .. Size + 2 /\ q + 2 \in m + 1 .. Size + 2
      BY <1>1, <1>4, <2>2
    <3> QED BY <1>8, <3>1 DEF StringAt
  <2> QED BY <2>1, <2>2
<1>10. Strings(g, m)
  <2> HIDE DEF StringAt
  <2> QED BY <1>9 DEF Strings
<1> HIDE DEF g
<1> QED BY <1>4, <1>10

\* Contexts of positions, as steps.
InContext == Context[1] = Code /\ \A p \in 1 .. Size : Context[p + 1] = After(Context[p], p)

\* What ends a string at e: its quote, the end of its line or of the source.
StringEnded(e, kind) ==
  IF kind = "string" THEN src[e - 1] = "quote" /\ Context[e - 1] = Open("string", 0, FALSE)
  ELSE src[e - 1] = "nl" \/ Context[e] # Code

LEMMA StringEnds ==
  ASSUME SourceOK, InContext, NEW p \in 1 .. Size + 1
  PROVE  /\ StringEnd(p).to \in p .. Size + 1 /\ StringEnd(p).kind \in {"string", "error"}
         /\ Context[p] = Open("string", 0, FALSE) =>
              /\ \A r \in p .. StringEnd(p).to - 1 : Context[r].in = "string"
              /\ StringEnd(p).to <= Size => Context[StringEnd(p).to] = Code
              /\ StringEnded(StringEnd(p).to, StringEnd(p).kind)
<1>1. Size \in Nat /\ p \in Nat
  BY Characters
<1> DEFINE h == CHOOSE f : Strings(f, p)
<1>2. Strings(h, p)
  <2>1. p \in 0 .. Size + 2
    BY <1>1
  <2> QED BY <2>1, StringsExist
<1>3. StringEnd(p) = h[p]
  BY DEF StringEnd, Strings, StringAt
<1> HIDE DEF h
<1>4. \A q \in p .. Size + 2 : h[q] = StringAt(h, q)
  BY <1>2 DEF Strings
<1> DEFINE Ranged(q) == /\ h[q].kind \in {"string", "error"}
                        /\ h[q].to \in Int /\ h[q].to <= Size + 1
                        /\ IF q > Size THEN h[q].to = Size + 1 /\ h[q].kind = "error"
                           ELSE q <= h[q].to
           Within(q) == Context[q] = Open("string", 0, FALSE) =>
                          /\ \A r \in q .. h[q].to - 1 : Context[r].in = "string"
                          /\ h[q].to <= Size => Context[h[q].to] = Code
                          /\ StringEnded(h[q].to, h[q].kind)
           T == {q \in p .. Size + 2 : ~(Ranged(q) /\ (q <= Size + 1 => Within(q)))}
<1>5. SUFFICES T = {}
  <2>1. p \in p .. Size + 2 /\ p <= Size + 1
    BY <1>1
  <2>2. Ranged(p) /\ Within(p)
    <3> HIDE DEF Ranged, Within
    <3> QED BY <1>5, <2>1
  <2>3. h[p].to \in p .. Size + 1
    BY <1>1, <2>1, <2>2
  <2> QED BY <1>3, <2>2, <2>3
<1>6. SUFFICES ASSUME T # {} PROVE FALSE
  OBVIOUS
<1>7. PICK m \in T : \A k \in T : k <= m
  <2>1. T \subseteq 0 .. Size + 2 /\ Size + 2 \in Nat
    <3> HIDE DEF Ranged, Within
    <3> QED BY <1>1
  <2> HIDE DEF T
  <2> QED BY <1>1, <1>6, <2>1, GreatestExists
<1>8. m \in p .. Size + 2 /\ m \in Nat /\ ~(Ranged(m) /\ (m <= Size + 1 => Within(m)))
  <2> HIDE DEF Ranged, Within
  <2> QED BY <1>1, <1>7
<1>9. \A q \in m + 1 .. Size + 2 : Ranged(q) /\ (q <= Size + 1 => Within(q))
  <2>1. \A q \in m + 1 .. Size + 2 : q \in p .. Size + 2 /\ ~(q <= m)
    BY <1>1, <1>8
  <2> HIDE DEF Ranged, Within
  <2> QED BY <1>7, <2>1
<1> HIDE DEF T
<1>10. h[m] = StringAt(h, m)
  BY <1>4, <1>8
<1>11. Open("string", 0, FALSE).in = "string" /\ Open("string", 0, TRUE).in = "string"
       /\ Code.in = "code"
  BY DEF Open, Code
<1>12. CASE m > Size
  <2>1. h[m] = [to |-> Size + 1, kind |-> "error"]
    BY <1>10, <1>12 DEF StringAt
  <2>2. Ranged(m)
    BY <1>1, <1>8, <2>1
  <2>3. m <= Size + 1 => m .. h[m].to - 1 = {} /\ ~(h[m].to <= Size)
    BY <1>1, <1>8, <1>12, <2>1
  <2>4. m <= Size + 1 => Within(m)
    <3>1. m <= Size + 1 => h[m].to = m /\ h[m].kind = "error"
      BY <1>1, <1>8, <1>12, <2>1
    <3>2. Open("string", 0, FALSE) # Code
      BY <1>11
    <3> QED BY <2>3, <3>1, <3>2 DEF StringEnded
  <2> QED BY <1>8, <2>2, <2>4
<1>13. CASE ~(m > Size)
  <2>1. m \in 1 .. Size /\ m + 1 \in m + 1 .. Size + 2 /\ m + 2 \in m + 1 .. Size + 2
        /\ m + 1 <= Size + 1 /\ m <= Size + 1
    BY <1>1, <1>8, <1>13
  <2>2. Context[m + 1] = After(Context[m], m)
    BY <2>1 DEF InContext
  <2>3. CASE src[m] \in {"quote", "nl"}
    <3>1. h[m].to = m + 1 /\ h[m].kind = IF src[m] = "quote" THEN "string" ELSE "error"
      BY <1>10, <1>13, <2>3 DEF StringAt
    <3>2. Ranged(m)
      BY <1>1, <1>8, <2>1, <3>1
    <3>3. \A r \in m .. h[m].to - 1 : r = m
      BY <1>1, <1>8, <3>1
    <3>4. Context[m] = Open("string", 0, FALSE) => Context[m + 1] = Code
      BY <2>2, <2>3, AfterString
    <3>5. Context[m] = Open("string", 0, FALSE) => StringEnded(h[m].to, h[m].kind)
      <4>1. (m + 1) - 1 = m
        BY <1>8
      <4> QED BY <2>3, <3>1, <4>1 DEF StringEnded
    <3>6. Within(m)
      BY <1>11, <3>1, <3>3, <3>4, <3>5
    <3> QED BY <1>8, <3>2, <3>6
  <2>4. CASE src[m] = "esc"
    <3>1. h[m] = h[m + 2]
      BY <1>10, <1>13, <2>4 DEF StringAt
    <3>2. Ranged(m + 2) /\ (m + 2 <= Size + 1 => Within(m + 2))
      BY <1>9, <2>1
    <3>3. Ranged(m)
      <4>1. ~(m > Size) /\ m <= h[m + 2].to
        <5>1. IF m + 2 > Size THEN h[m + 2].to = Size + 1 ELSE m + 2 <= h[m + 2].to
          BY <3>2
        <5>2. h[m + 2].to \in Int
          BY <3>2
        <5> QED BY <1>1, <1>8, <2>1, <5>1, <5>2
      <4> QED BY <3>1, <3>2, <4>1
    <3>4. ASSUME Context[m] = Open("string", 0, FALSE)
          PROVE  /\ \A r \in m .. h[m].to - 1 : Context[r].in = "string"
                 /\ h[m].to <= Size => Context[h[m].to] = Code
                 /\ StringEnded(h[m].to, h[m].kind)
      <4>1. Context[m + 1] = Open("string", 0, TRUE)
        BY <2>2, <2>4, <3>4, AfterString
      <4>2. CASE m + 2 <= Size + 1
        <5>1. m + 1 \in 1 .. Size /\ (m + 1) + 1 = m + 2
          BY <1>1, <1>8, <2>1, <4>2
        <5>2. Context[(m + 1) + 1] = After(Context[m + 1], m + 1)
          BY <5>1 DEF InContext
        <5>3. Context[m + 2] = Open("string", 0, FALSE)
          BY <4>1, <5>1, <5>2, AfterSkip
        <5>4. /\ \A r \in m + 2 .. h[m].to - 1 : Context[r].in = "string"
              /\ h[m].to <= Size => Context[h[m].to] = Code
              /\ StringEnded(h[m].to, h[m].kind)
          BY <3>1, <3>2, <4>2, <5>3
        <5>5. h[m].to \in Int
          BY <3>3
        <5>6. \A r \in m .. h[m].to - 1 : r = m \/ r = m + 1 \/ r \in m + 2 .. h[m].to - 1
          BY <1>8, <5>5
        <5> QED BY <1>11, <3>4, <4>1, <5>4, <5>6
      <4>3. CASE ~(m + 2 <= Size + 1)
        <5>1. m = Size /\ h[m].to = Size + 1 /\ h[m].kind = "error"
          <6>1. m = Size /\ m + 2 > Size
            BY <1>1, <1>8, <2>1, <4>3
          <6> QED BY <3>1, <3>2, <6>1
        <5>2. \A r \in m .. h[m].to - 1 : r = m
          BY <1>1, <5>1
        <5>3. ~(h[m].to <= Size) /\ h[m].to = m + 1
          BY <1>1, <5>1
        <5>4. Open("string", 0, TRUE) # Code
          BY <1>11
        <5>5. StringEnded(h[m].to, h[m].kind)
          BY <4>1, <5>1, <5>3, <5>4 DEF StringEnded
        <5> QED BY <1>11, <3>4, <5>2, <5>3, <5>5
      <4> QED BY <4>2, <4>3
    <3> QED BY <1>8, <3>3, <3>4
  <2>5. CASE src[m] \notin {"quote", "nl", "esc"}
    <3>1. h[m] = h[m + 1]
      BY <1>10, <1>13, <2>5 DEF StringAt
    <3>2. Ranged(m + 1) /\ Within(m + 1)
      BY <1>9, <2>1
    <3>3. Ranged(m)
      <4>1. ~(m > Size) /\ m <= h[m + 1].to
        <5>1. IF m + 1 > Size THEN h[m + 1].to = Size + 1 ELSE m + 1 <= h[m + 1].to
          BY <3>2
        <5>2. h[m + 1].to \in Int
          BY <3>2
        <5> QED BY <1>1, <1>8, <2>1, <5>1, <5>2
      <4> QED BY <3>1, <3>2, <4>1
    <3>4. ASSUME Context[m] = Open("string", 0, FALSE)
          PROVE  /\ \A r \in m .. h[m].to - 1 : Context[r].in = "string"
                 /\ h[m].to <= Size => Context[h[m].to] = Code
                 /\ StringEnded(h[m].to, h[m].kind)
      <4>1. Context[m + 1] = Open("string", 0, FALSE)
        BY <2>2, <2>5, <3>4, AfterString
      <4>2. /\ \A r \in m + 1 .. h[m].to - 1 : Context[r].in = "string"
            /\ h[m].to <= Size => Context[h[m].to] = Code
            /\ StringEnded(h[m].to, h[m].kind)
        BY <3>1, <3>2, <4>1
      <4>3. \A r \in m .. h[m].to - 1 : r = m \/ r \in m + 1 .. h[m].to - 1
        <5>1. h[m].to \in Int
          BY <3>3
        <5> QED BY <1>8, <5>1
      <4> QED BY <1>11, <3>4, <4>2, <4>3
    <3> QED BY <1>8, <3>3, <3>4
  <2> QED BY <2>3, <2>4, <2>5
<1> QED BY <1>12, <1>13

CommentAt(f, q, depth) ==
  IF q > Size \/ depth = 0 THEN [to |-> q, depth |-> depth]
  ELSE IF src[q] = "*" /\ peek(q + 1) = "/" THEN f[q + 2][depth - 1]
  ELSE IF src[q] = "/" /\ peek(q + 1) = "*" THEN f[q + 2][depth + 1]
  ELSE f[q + 1][depth]
Comments(f, m) == f = [q \in m .. Size + 2 |-> [depth \in Nat |-> CommentAt(f, q, depth)]]

LEMMA CommentsExist ==
  ASSUME SourceOK, NEW p \in 0 .. Size + 2
  PROVE  \E f : Comments(f, p)
<1>1. Size \in Nat /\ Size + 2 \in Nat
  BY Characters
<1> DEFINE T == {m \in 0 .. Size + 2 : ~ \E f : Comments(f, m)}
<1>2. SUFFICES ASSUME T # {} PROVE FALSE
  OBVIOUS
<1>3. PICK m \in T : \A k \in T : k <= m
  <2>1. T \subseteq 0 .. Size + 2
    OBVIOUS
  <2> HIDE DEF T
  <2> QED BY <1>1, <1>2, <2>1, GreatestExists
<1>4. m \in 0 .. Size + 2 /\ ~ \E f : Comments(f, m)
  BY <1>3
<1> DEFINE top == [q \in Size + 2 .. Size + 2 |-> [depth \in Nat |-> [to |-> q, depth |-> depth]]]
<1>5. m # Size + 2
  <2>1. \A q \in Size + 2 .. Size + 2 : \A depth \in Nat :
          CommentAt(top, q, depth) = [to |-> q, depth |-> depth]
    BY <1>1 DEF CommentAt
  <2>2. Comments(top, Size + 2)
    BY <2>1 DEF Comments
  <2> QED BY <1>4, <2>2
<1>6. m + 1 \in 0 .. Size + 2 /\ ~(m + 1 <= m)
  BY <1>1, <1>4, <1>5
<1>7. PICK f : Comments(f, m + 1)
  BY <1>3, <1>6
<1> DEFINE g == [q \in m .. Size + 2 |-> [depth \in Nat |-> CommentAt(f, q, depth)]]
<1>8. \A q \in m + 1 .. Size + 2 : g[q] = f[q]
  <2>1. \A q \in m + 1 .. Size + 2 : q \in m .. Size + 2
    BY <1>1, <1>4
  <2>2. \A q \in m + 1 .. Size + 2 : f[q] = [depth \in Nat |-> CommentAt(f, q, depth)]
    BY <1>7 DEF Comments
  <2> QED BY <2>1, <2>2
<1>9. \A q \in m .. Size + 2 : \A depth \in Nat : CommentAt(g, q, depth) = CommentAt(f, q, depth)
  <2> SUFFICES ASSUME NEW q \in m .. Size + 2, NEW depth \in Nat
               PROVE  CommentAt(g, q, depth) = CommentAt(f, q, depth)
    OBVIOUS
  <2> HIDE DEF g
  <2>1. CASE q > Size
    BY <2>1 DEF CommentAt
  <2>2. CASE ~(q > Size)
    <3>1. q + 1 \in m + 1 .. Size + 2 /\ q + 2 \in m + 1 .. Size + 2
      BY <1>1, <1>4, <2>2
    <3> QED BY <1>8, <3>1 DEF CommentAt
  <2> QED BY <2>1, <2>2
<1>10. Comments(g, m)
  <2> HIDE DEF CommentAt
  <2> QED BY <1>9 DEF Comments
<1> HIDE DEF g
<1> QED BY <1>4, <1>10

\* Inside of depth comments, or behind the last.
Nested(p, depth) == Context[p] = IF depth = 0 THEN Code ELSE Open("block", depth, FALSE)

LEMMA CommentEnds ==
  ASSUME SourceOK, InContext, NEW p \in 1 .. Size + 1
  PROVE  /\ CommentEnd(p).to \in p .. Size + 1 /\ CommentEnd(p).depth \in Nat
         /\ Nested(p, 1) =>
              /\ \A r \in p .. CommentEnd(p).to - 1 : Context[r].in = "block"
              /\ CommentEnd(p).to <= Size => Context[CommentEnd(p).to] = Code
              /\ Nested(CommentEnd(p).to, CommentEnd(p).depth)
         /\ CommentEnd(p).to <= Size => CommentEnd(p).depth = 0
<1>1. Size \in Nat /\ p \in Nat
  BY Characters
<1> DEFINE h == CHOOSE f : Comments(f, p)
<1>2. Comments(h, p)
  <2>1. p \in 0 .. Size + 2
    BY <1>1
  <2> QED BY <2>1, CommentsExist
<1>3. CommentEnd(p) = h[p][1]
  BY DEF CommentEnd, Comments, CommentAt
<1> HIDE DEF h
<1>4. \A q \in p .. Size + 2 : \A depth \in Nat : h[q][depth] = CommentAt(h, q, depth)
  <2>1. h = [q \in p .. Size + 2 |-> [depth \in Nat |-> CommentAt(h, q, depth)]]
    BY <1>2 DEF Comments
  <2> HIDE DEF CommentAt
  <2>2. SUFFICES ASSUME NEW q \in p .. Size + 2, NEW depth \in Nat
                 PROVE  h[q][depth] = CommentAt(h, q, depth)
    OBVIOUS
  <2>3. h[q] = [e \in Nat |-> CommentAt(h, q, e)]
    BY <2>1
  <2> QED BY <2>3
<1> DEFINE Ranged(q, d) == /\ h[q][d].depth \in Nat /\ h[q][d].to \in Int
                           /\ h[q][d].to <= Size + 1 /\ q <= h[q][d].to
                           /\ h[q][d].to <= Size => h[q][d].depth = 0
           Within(q, d) == Nested(q, d) =>
                             /\ \A r \in q .. h[q][d].to - 1 : Context[r].in = "block"
                             /\ h[q][d].to <= Size => Context[h[q][d].to] = Code
                             /\ Nested(h[q][d].to, h[q][d].depth)
           T == {q \in p .. Size + 1 : ~ \A d \in Nat : Ranged(q, d) /\ Within(q, d)}
<1>5. SUFFICES T = {}
  <2>1. p \in p .. Size + 1 /\ 1 \in Nat
    BY <1>1
  <2>2. Ranged(p, 1) /\ Within(p, 1)
    <3> HIDE DEF Ranged, Within
    <3> QED BY <1>5, <2>1
  <2>3. h[p][1].to \in p .. Size + 1
    BY <1>1, <2>1, <2>2
  <2> QED BY <1>3, <2>2, <2>3
<1>6. SUFFICES ASSUME T # {} PROVE FALSE
  OBVIOUS
<1>7. PICK m \in T : \A k \in T : k <= m
  <2>1. T \subseteq 0 .. Size + 1 /\ Size + 1 \in Nat
    <3> HIDE DEF Ranged, Within
    <3> QED BY <1>1
  <2> HIDE DEF T
  <2> QED BY <1>1, <1>6, <2>1, GreatestExists
<1>8. m \in p .. Size + 1 /\ m \in Nat /\ ~ \A d \in Nat : Ranged(m, d) /\ Within(m, d)
  <2> HIDE DEF Ranged, Within
  <2> QED BY <1>1, <1>7
<1>9. \A q \in m + 1 .. Size + 1 : \A d \in Nat : Ranged(q, d) /\ Within(q, d)
  <2>1. \A q \in m + 1 .. Size + 1 : q \in p .. Size + 1 /\ ~(q <= m)
    BY <1>1, <1>8
  <2> HIDE DEF Ranged, Within
  <2> QED BY <1>7, <2>1
<1> HIDE DEF T
<1> SUFFICES ASSUME NEW d \in Nat PROVE Ranged(m, d) /\ Within(m, d)
  <2> HIDE DEF Ranged, Within
  <2> QED BY <1>8
<1>10. h[m][d] = CommentAt(h, m, d)
  <2>1. m \in p .. Size + 2
    BY <1>1, <1>8
  <2> QED BY <1>4, <2>1
<1>11. \A depth : \A skip \in BOOLEAN : Open("block", depth, skip).in = "block"
  BY DEF Open
<1>12. CASE m > Size \/ d = 0
  <2>1. h[m][d] = [to |-> m, depth |-> d]
    BY <1>10, <1>12 DEF CommentAt
  <2>2. Ranged(m, d)
    BY <1>1, <1>8, <1>12, <2>1
  <2>3. m .. h[m][d].to - 1 = {} /\ (h[m][d].to <= Size => d = 0)
    BY <1>1, <1>8, <1>12, <2>1
  <2>4. h[m][d].to <= Size /\ Nested(m, d) => Context[h[m][d].to] = Code
    <3>1. h[m][d].to = m
      BY <2>1
    <3> QED BY <2>3, <3>1 DEF Nested
  <2>5. Within(m, d)
    BY <2>1, <2>3, <2>4
  <2> QED BY <2>2, <2>5
<1>13. CASE ~(m > Size) /\ d # 0
  <2>1. m \in 1 .. Size /\ m + 1 \in m + 1 .. Size + 1 /\ d - 1 \in Nat /\ d + 1 \in Nat
    BY <1>1, <1>8, <1>13
  <2>2. Context[m + 1] = After(Context[m], m)
    BY <2>1 DEF InContext
  <2>3. peek(m) = src[m]
    BY <2>1, Characters
  \* A pair that leaves e comments open.
  <2>4. ASSUME NEW e \in Nat, peek(m + 1) # "end", h[m][d] = h[m + 2][e],
               Nested(m, d) => Context[m + 1] = Open("block", e, TRUE)
        PROVE  Ranged(m, d) /\ Within(m, d)
    <3>1. m + 1 \in 1 .. Size
      BY <2>1, <2>4, Characters
    <3>2. m + 2 \in m + 1 .. Size + 1 /\ (m + 1) + 1 = m + 2
      BY <1>1, <1>8, <3>1
    <3>3. Ranged(m + 2, e) /\ Within(m + 2, e)
      BY <1>9, <3>2
    <3>4. Ranged(m, d)
      <4>1. m <= h[m + 2][e].to
        BY <1>8, <3>3
      <4> QED BY <2>4, <3>3, <4>1
    <3>5. ASSUME Nested(m, d)
          PROVE  /\ \A r \in m .. h[m][d].to - 1 : Context[r].in = "block"
                 /\ h[m][d].to <= Size => Context[h[m][d].to] = Code
                 /\ Nested(h[m][d].to, h[m][d].depth)
      <4>1. Context[m] = Open("block", d, FALSE) /\ Context[m + 1] = Open("block", e, TRUE)
        BY <1>13, <2>4, <3>5 DEF Nested
      <4>2. Context[(m + 1) + 1] = After(Context[m + 1], m + 1)
        BY <3>1 DEF InContext
      <4>3. Nested(m + 2, e)
        <5>1. After(Open("block", e, TRUE), m + 1) =
                IF "block" = "block" /\ e = 0 THEN Code ELSE Open("block", e, FALSE)
          BY AfterSkip
        <5> QED BY <3>2, <4>1, <4>2, <5>1 DEF Nested
      <4>4. /\ \A r \in m + 2 .. h[m][d].to - 1 : Context[r].in = "block"
            /\ h[m][d].to <= Size => Context[h[m][d].to] = Code
            /\ Nested(h[m][d].to, h[m][d].depth)
        BY <2>4, <3>3, <4>3
      <4>5. \A r \in m .. h[m][d].to - 1 : r = m \/ r = m + 1 \/ r \in m + 2 .. h[m][d].to - 1
        <5>1. h[m][d].to \in Int
          BY <3>4
        <5> QED BY <1>8, <5>1
      <4> QED BY <1>11, <4>1, <4>4, <4>5
    <3> QED BY <3>4, <3>5
  <2>5. Nested(m, d) => Context[m] = Open("block", d, FALSE)
    BY <1>13 DEF Nested
  <2>6. CASE Pair(m, "*", "/")
    <3>1. src[m] = "*" /\ peek(m + 1) = "/" /\ ~Pair(m, "/", "*")
      BY <2>3, <2>6 DEF Pair
    <3>2. h[m][d] = h[m + 2][d - 1]
      BY <1>10, <1>13, <3>1 DEF CommentAt
    <3>3. Nested(m, d) => Context[m + 1] = Open("block", d - 1, TRUE)
      BY <2>2, <2>5, <2>6, <3>1, AfterBlock
    <3> QED BY <2>1, <2>4, <3>1, <3>2, <3>3
  <2>7. CASE Pair(m, "/", "*")
    <3>1. src[m] = "/" /\ peek(m + 1) = "*"
      BY <2>3, <2>7 DEF Pair
    <3>2. h[m][d] = h[m + 2][d + 1]
      BY <1>10, <1>13, <3>1 DEF CommentAt
    <3>3. Nested(m, d) => Context[m + 1] = Open("block", d + 1, TRUE)
      BY <2>2, <2>5, <2>7, AfterBlock
    <3> QED BY <2>1, <2>4, <3>1, <3>2, <3>3
  <2>8. CASE ~Pair(m, "*", "/") /\ ~Pair(m, "/", "*")
    <3>1. h[m][d] = h[m + 1][d]
      BY <1>10, <1>13, <2>3, <2>8 DEF CommentAt, Pair
    <3>2. Ranged(m + 1, d) /\ Within(m + 1, d)
      BY <1>9, <2>1
    <3>3. Ranged(m, d)
      <4>1. m <= h[m + 1][d].to
        BY <1>8, <3>2
      <4> QED BY <3>1, <3>2, <4>1
    <3>4. ASSUME Nested(m, d)
          PROVE  /\ \A r \in m .. h[m][d].to - 1 : Context[r].in = "block"
                 /\ h[m][d].to <= Size => Context[h[m][d].to] = Code
                 /\ Nested(h[m][d].to, h[m][d].depth)
      <4>1. Context[m] = Open("block", d, FALSE) /\ Context[m + 1] = Open("block", d, FALSE)
        BY <2>2, <2>5, <2>8, <3>4, AfterBlock
      <4>2. Nested(m + 1, d)
        BY <1>13, <4>1 DEF Nested
      <4>3. /\ \A r \in m + 1 .. h[m][d].to - 1 : Context[r].in = "block"
            /\ h[m][d].to <= Size => Context[h[m][d].to] = Code
            /\ Nested(h[m][d].to, h[m][d].depth)
        BY <3>1, <3>2, <4>2
      <4>4. \A r \in m .. h[m][d].to - 1 : r = m \/ r \in m + 1 .. h[m][d].to - 1
        <5>1. h[m][d].to \in Int
          BY <3>3
        <5> QED BY <1>8, <5>1
      <4> QED BY <1>11, <4>1, <4>3, <4>4
    <3> QED BY <3>3, <3>4
  <2> QED BY <2>6, <2>7, <2>8
<1> QED BY <1>12, <1>13

(***************************************************************************)
(* The type invariant, action by action.                                   *)
(***************************************************************************)
LEMMA StayTyped ==
  ASSUME Typed, Placed', src' = src, tokens' = tokens, EngineTyped(diag'),
         state' \in {"scan", "done", "abort"}
  PROVE  Typed'
<1>1. Size' = Size /\ SourceOK'
  BY DEF Typed, Size, SourceOK
<1>2. \A i \in DOMAIN tokens' : TokenIn(tokens'[i], Size')
  BY <1>1 DEF Typed
<1> QED BY <1>1, <1>2 DEF Typed

LEMMA AtPosition ==
  ASSUME Typed, NEW S, peek(pos) \in S, "end" \notin S
  PROVE  /\ pos \in 1 .. Size /\ Size \in Nat /\ SourceOK /\ Placed
         /\ pos + 1 \in 1 .. Size + 1 /\ pos + 1 \in pos .. Size + 1
         /\ peek(pos) = src[pos] /\ src[pos] \in S
<1>1. SourceOK /\ Placed /\ pos \in 1 .. Size + 1
  BY DEF Typed, Placed
<1>2. Size \in Nat /\ pos \in Nat \ {0}
  BY <1>1, Characters
<1>3. pos \in 1 .. Size /\ peek(pos) = src[pos]
  BY <1>1, <1>2, Characters
<1>4. pos + 1 \in 1 .. Size + 1 /\ pos + 1 \in pos .. Size + 1
  BY <1>2, <1>3
<1> QED BY <1>1, <1>2, <1>3, <1>4

LEMMA BlankTyped ==
  ASSUME Typed, SkipBlank
  PROVE  Typed'
<1>1. pos + 1 \in pos .. Size + 1 /\ SourceOK /\ Placed
  BY AtPosition, NoEnd DEF SkipBlank
<1>2. MoveTo(pos + 1) /\ tokens' = tokens /\ diag' = diag /\ state' = state
  BY DEF SkipBlank
<1>3. Placed' /\ src' = src
  BY <1>1, <1>2, Moved
<1>4. EngineTyped(diag') /\ state' \in {"scan", "done", "abort"}
  BY <1>2 DEF Typed
<1> QED BY <1>2, <1>3, <1>4, StayTyped

\* A comment to the end of the line begins at a character.
LEMMA LineCommentAt ==
  ASSUME Typed, LineComment
  PROVE  /\ pos \in 1 .. Size /\ Size \in Nat /\ SourceOK /\ Placed /\ peek(pos) = src[pos]
         /\ src[pos] # "#" => src[pos] = "/" /\ peek(pos + 1) = "/" /\ pos + 1 \in 1 .. Size
<1>1. peek(pos) \in {"#", "/"} /\ (peek(pos) # "#" => peek(pos) = "/" /\ peek(pos + 1) = "/")
  BY DEF LineComment
<1>2. pos \in 1 .. Size /\ Size \in Nat /\ SourceOK /\ Placed /\ peek(pos) = src[pos]
  BY <1>1, AtPosition
<1>3. src[pos] # "#" => pos + 1 \in 1 .. Size
  <2>1. pos + 1 \in Nat \ {0} /\ (src[pos] # "#" => peek(pos + 1) # "end")
    BY <1>1, <1>2
  <2> QED BY <1>2, <2>1, Characters
<1> QED BY <1>1, <1>2, <1>3

LEMMA LineCommentTyped ==
  ASSUME Typed, skipLineComment
  PROVE  Typed'
<1>1. pos \in 1 .. Size /\ Size \in Nat /\ SourceOK /\ Placed
  BY LineCommentAt DEF skipLineComment
<1>2. tokens' = tokens /\ diag' = diag
  BY DEF skipLineComment
<1>3. EngineTyped(diag')
  BY <1>2 DEF Typed
<1>4. CASE pos + 1 > Size
  <2>1. state' = "abort" /\ src' = src /\ pos' = pos /\ line' = line /\ column' = column
    BY <1>4 DEF skipLineComment
  <2>2. Placed'
    <3>1. Size' = Size
      BY <2>1 DEF Size
    <3> QED BY <1>1, <2>1, <3>1 DEF Placed
  <2> QED BY <1>2, <1>3, <2>1, <2>2, StayTyped
<1>5. CASE ~(pos + 1 > Size)
  <2> DEFINE q == Past(pos + 2, Chars \ {"nl"})
  <2>1. MoveTo(q) /\ state' = state
    BY <1>5 DEF skipLineComment
  <2>2. q \in pos .. Size + 1
    <3>1. pos + 2 \in 1 .. Size + 1
      BY <1>1, <1>5
    <3>2. "end" \notin Chars \ {"nl"}
      BY <1>1, Characters
    <3>3. q \in pos + 2 .. Size + 1
      BY <1>1, <3>1, <3>2, PastOK
    <3> QED BY <1>1, <3>3
  <2> HIDE DEF q
  <2>3. Placed' /\ src' = src
    BY <1>1, <2>1, <2>2, Moved
  <2>4. state' \in {"scan", "done", "abort"}
    BY <2>1 DEF Typed
  <2> QED BY <1>2, <1>3, <2>3, <2>4, StayTyped
<1> QED BY <1>4, <1>5

LEMMA BlockCommentAt ==
  ASSUME Typed, BlockComment
  PROVE  /\ pos \in 1 .. Size /\ Size \in Nat /\ SourceOK /\ Placed
         /\ src[pos] = "/" /\ peek(pos) = src[pos]
         /\ pos + 1 \in 1 .. Size /\ src[pos + 1] = "*" /\ pos + 2 \in 1 .. Size + 1
         /\ CommentEnd(pos + 2).to \in pos + 2 .. Size + 1 /\ CommentEnd(pos + 2).depth \in Nat
         /\ CommentEnd(pos + 2).to \in pos .. Size + 1
<1>1. peek(pos) \in {"/"} /\ peek(pos + 1) = "*"
  BY DEF BlockComment
<1>2. pos \in 1 .. Size /\ Size \in Nat /\ SourceOK /\ Placed /\ src[pos] = "/" /\ peek(pos) = src[pos]
  BY <1>1, AtPosition
<1>3. pos + 1 \in 1 .. Size /\ src[pos + 1] = "*"
  <2>1. pos + 1 \in Nat \ {0} /\ peek(pos + 1) # "end"
    BY <1>1, <1>2
  <2>2. pos + 1 \in 1 .. Size
    BY <1>2, <2>1, Characters
  <2> QED BY <1>1, <1>2, <2>2, Characters
<1>4. pos + 2 \in 1 .. Size + 1
  BY <1>2, <1>3
<1>5. InContext
  BY <1>2, ContextSteps DEF InContext
<1>6. CommentEnd(pos + 2).to \in pos + 2 .. Size + 1 /\ CommentEnd(pos + 2).depth \in Nat
  BY <1>2, <1>4, <1>5, CommentEnds
<1>7. CommentEnd(pos + 2).to \in pos .. Size + 1
  BY <1>2, <1>6
<1> QED BY <1>2, <1>3, <1>4, <1>6, <1>7

LEMMA BlockCommentTyped ==
  ASSUME Typed, skipBlockComment
  PROVE  Typed'
<1> DEFINE end == CommentEnd(pos + 2)
<1>1. MoveTo(end.to) /\ tokens' = tokens /\ state' = state
  BY DEF skipBlockComment
<1>2. SourceOK /\ Placed /\ end.to \in pos .. Size + 1
  BY BlockCommentAt DEF skipBlockComment
<1>3. Placed' /\ src' = src
  BY <1>1, <1>2, Moved
<1>4. EngineTyped(diag')
  <2>1. [line |-> line, column |-> column] \in [line : Nat, column : Nat]
    <3>1. line \in Nat /\ column \in Nat
      BY <1>2, Characters DEF Placed
    <3> QED BY <3>1
  <2>2. diag' = emit(diag, "error", [line |-> line, column |-> column]) \/ diag' = diag
    BY DEF skipBlockComment
  <2> QED BY <2>1, <2>2, Emitted DEF Typed
<1>5. state' \in {"scan", "done", "abort"}
  BY <1>1 DEF Typed
<1> HIDE DEF end
<1> QED BY <1>1, <1>3, <1>4, <1>5, StayTyped

LEMMA EofTyped ==
  ASSUME Typed, Eof
  PROVE  Typed' /\ pos = Size + 1
<1> DEFINE c == (column' - (pos - pos)) % Word
           t == [kind |-> "eof", first |-> pos, last |-> pos - 1, line |-> line', column |-> c]
<1>1. MoveTo(pos) /\ tokens' = Append(tokens, t) /\ state' = "done" /\ diag' = diag
      /\ peek(pos) = "end"
  BY DEF Eof, At, makeToken
<1>2. SourceOK /\ Placed /\ Size \in Nat /\ pos \in 1 .. Size + 1
  BY Characters DEF Typed, Placed
<1>3. pos = Size + 1
  <2>1. ~(pos \in 1 .. Size)
    BY <1>1, <1>2, Characters
  <2> QED BY <1>2, <2>1
<1>4. pos \in pos .. Size + 1
  BY <1>2
<1>5. Placed' /\ src' = src /\ pos' = pos
  BY <1>1, <1>2, <1>4, Moved
<1>6. c \in 0 .. Word - 1
  <2>1. column' \in Int /\ pos \in Int
    BY <1>2, <1>5, Characters DEF Placed
  <2>2. Word \in Nat /\ Word > 0
    BY LexerBounds
  <2>3. \A x, y \in Int : y > 0 => x % y \in 0 .. y - 1
    OBVIOUS
  <2>4. column' - (pos - pos) \in Int
    BY <2>1
  <2> QED BY <2>2, <2>3, <2>4
<1>7. EngineTyped(diag') /\ state' \in {"scan", "done", "abort"}
  BY <1>1 DEF Typed
<1> HIDE DEF c
<1>8. /\ t = [kind |-> "eof", first |-> pos, last |-> pos - 1, line |-> line', column |-> c]
      /\ "eof" \in Kinds /\ pos - 1 \in Nat
      /\ pos - 1 \in (IF "eof" = "eof" THEN {Size} ELSE pos .. Size)
  BY <1>2, <1>3 DEF Kinds
<1>9. pos' \in pos .. Size + 1
  BY <1>4, <1>5
<1> HIDE DEF t
<1> QED BY <1>1, <1>3, <1>5, <1>6, <1>7, <1>8, <1>9, TokenAdded

\* The character at a token that a kind of character begins.
LEMMA StringToken ==
  ASSUME Typed, lexString
  PROVE  \E q, kind : /\ q \in pos + 1 .. Size + 1 /\ kind \in {"string", "error"} /\ Token(kind, q)
                      /\ src[pos] = "quote" /\ q = StringEnd(pos + 1).to
<1> DEFINE end == StringEnd(pos + 1)
<1>1. pos + 1 \in 1 .. Size + 1 /\ src[pos] = "quote" /\ Token(end.kind, end.to) /\ SourceOK
  BY AtCharacter DEF lexString, Typed
<1>2. InContext
  BY <1>1, ContextSteps DEF InContext
<1>3. end.to \in pos + 1 .. Size + 1 /\ end.kind \in {"string", "error"}
  BY <1>1, <1>2, StringEnds
<1> HIDE DEF end
<1>4. end.to = StringEnd(pos + 1).to
  BY DEF end
<1> QED BY <1>1, <1>3, <1>4

LEMMA UnexpectedAt ==
  ASSUME Typed, Unexpected
  PROVE  /\ pos \in 1 .. Size /\ Size \in Nat /\ SourceOK /\ Placed /\ pos + 1 \in pos .. Size + 1
         /\ src[pos] \in Chars \ (Letters \cup Digits \cup Starts \cup {"quote", "tick"})
         /\ peek(pos) = src[pos] /\ ~Skipping
<1> DEFINE S == Chars \ (Letters \cup Digits \cup Starts \cup {"quote", "tick"})
<1>1. "end" \notin S
  BY LexerBounds DEF Chars
<1>2. peek(pos) \in S /\ ~Skipping
  BY DEF Unexpected, At
<1> HIDE DEF S
<1>3. pos \in 1 .. Size /\ Size \in Nat /\ SourceOK /\ Placed /\ pos + 1 \in pos .. Size + 1
      /\ src[pos] \in S /\ peek(pos) = src[pos]
  BY <1>1, <1>2, AtPosition
<1> QED BY <1>2, <1>3 DEF S

LEMMA UnexpectedTyped ==
  ASSUME Typed, Unexpected
  PROVE  Typed'
<1> DEFINE t == [kind |-> "error", first |-> pos, last |-> pos, line |-> line', column |-> column']
<1>1. pos \in 1 .. Size /\ Size \in Nat /\ SourceOK /\ Placed /\ pos + 1 \in pos .. Size + 1
  BY UnexpectedAt
<1>2. /\ MoveTo(pos + 1) /\ state' = state /\ tokens' = Append(tokens, t)
      /\ diag' = emit(diag, "error", [line |-> line', column |-> column'])
  BY DEF Unexpected
<1>3. Placed' /\ src' = src /\ pos' = pos + 1 /\ Size' = Size
  BY <1>1, <1>2, Moved
<1>4. line' \in Nat /\ column' \in 0 .. Word - 1 /\ column' \in Nat
  <2>1. Size <= MaxLen /\ MaxLen \in Nat /\ Word \in Nat /\ Word > MaxLen + 1
    BY LexerBounds DEF Typed
  <2>2. line' \in Nat \ {0} /\ column' \in 1 .. pos + 1
    BY <1>3 DEF Placed
  <2> QED BY <1>1, <2>1, <2>2
<1>5. EngineTyped(diag')
  <2>1. [line |-> line', column |-> column'] \in [line : Nat, column : Nat]
    BY <1>4
  <2>2. EngineTyped(diag)
    BY DEF Typed
  <2> QED BY <1>2, <2>1, <2>2, Emitted
<1>6. state' \in {"scan", "done", "abort"} /\ pos' \in pos .. Size + 1
  BY <1>1, <1>2, <1>3 DEF Typed
<1>7. /\ t = [kind |-> "error", first |-> pos, last |-> pos, line |-> line', column |-> column']
      /\ "error" \in Kinds /\ pos \in Nat
      /\ pos \in (IF "error" = "eof" THEN {Size} ELSE pos .. Size)
  BY <1>1 DEF Kinds
<1> HIDE DEF t
<1> QED BY <1>2, <1>3, <1>4, <1>5, <1>6, <1>7, TokenAdded

LEMMA NextTyped ==
  ASSUME Typed, [Next]_vars
  PROVE  Typed'
<1>1. \A kind \in {"ident", "int", "float", "string", "char", "op", "error"} : kind \in Kinds \ {"eof"}
  BY DEF Kinds
<1>2. CASE SkipBlank
  BY <1>2, BlankTyped
<1>3. CASE skipLineComment
  BY <1>3, LineCommentTyped
<1>4. CASE skipBlockComment
  BY <1>4, BlockCommentTyped
<1>5. CASE Eof
  BY <1>5, EofTyped
<1>6. CASE lexIdentifierOrKeyword
  <2>1. PICK q : Plainly(q) /\ Token("ident", q)
    BY <1>6, IdentifierEnds
  <2>2. q \in pos + 1 .. Size + 1
    BY <2>1 DEF Plainly
  <2> QED BY <1>1, <2>1, <2>2, TokenTyped
<1>7. CASE lexNumber
  <2>1. PICK q, kind : Plainly(q) /\ Token(kind, q) /\ kind \in {"int", "float"}
    BY <1>7, NumberEnds
  <2>2. q \in pos + 1 .. Size + 1
    BY <2>1 DEF Plainly
  <2> QED BY <1>1, <2>1, <2>2, TokenTyped
<1>8. CASE lexString
  <2>1. PICK q, kind : q \in pos + 1 .. Size + 1 /\ kind \in {"string", "error"} /\ Token(kind, q)
    BY <1>8, StringToken
  <2> QED BY <1>1, <2>1, TokenTyped
<1>9. CASE lexChar
  <2>1. PICK kind, q : q \in pos + 1 .. Size + 1 /\ kind \in {"char", "error"} /\ Token(kind, q)
    BY <1>9, CharEnds
  <2> QED BY <1>1, <2>1, TokenTyped
<1>10. CASE Operator
  <2>1. PICK q : Plainly(q) /\ Token("op", q)
    BY <1>10, OperatorEnds
  <2>2. q \in pos + 1 .. Size + 1
    BY <2>1 DEF Plainly
  <2> QED BY <1>1, <2>1, <2>2, TokenTyped
<1>11. CASE Unexpected
  BY <1>11, UnexpectedTyped
<1>12. CASE UNCHANGED vars
  <2>1. src' = src /\ pos' = pos /\ line' = line /\ column' = column /\ tokens' = tokens
        /\ diag' = diag /\ state' = state
    BY <1>12 DEF vars
  <2>2. Placed' /\ EngineTyped(diag') /\ state' \in {"scan", "done", "abort"}
    <3>1. Size' = Size
      BY <2>1 DEF Size
    <3> QED BY <2>1, <3>1 DEF Typed, Placed
  <2> QED BY <2>1, <2>2, StayTyped
<1> QED BY <1>2, <1>3, <1>4, <1>5, <1>6, <1>7, <1>8, <1>9, <1>10, <1>11, <1>12 DEF Next, Finished

\* The lexer stays within the source, a token is not empty and lies in the
\* source, and a column fits its width, for sources of any length over any
\* characters.
THEOREM LexerTypes == Spec => []TypeOK
<1>1. Init => Typed
  BY InitTyped
<1>2. Typed /\ [Next]_vars => Typed'
  BY NextTyped
<1>3. Typed => TypeOK
  BY TypedOK
<1> QED BY <1>1, <1>2, <1>3, PTL DEF Spec

(***************************************************************************)
(* No character of the program is lost.  Sources without "#", which is     *)
(* skipped together with the character behind it.                          *)
(***************************************************************************)
NoHash == \A A \in Alphabets : "#" \notin A
SourceNoHash == \A p \in 1 .. Size : src[p] # "#"

\* Where the lexer begins to look for a token or a comment: in the program,
\* or at the newline that ends a comment or a character without tick.
LineEnd(c) == c = Open("line", 0, FALSE) \/ \E depth \in 0 .. 1 : c = Open("char", depth, FALSE)
Resumes ==
  \/ pos = Size + 1
  \/ Context[pos] = Code
  \/ LineEnd(Context[pos]) /\ src[pos] = "nl"

Swept ==
  /\ \A i \in DOMAIN tokens : tokens[i].last < pos
  /\ \A p \in 1 .. pos - 1 : p \in Significant => p \in Spans
  /\ \A p \in Spans : p \in Significant

\* Behind the first of the characters that a step consumes, nothing begins.
QuietInside == \A r \in pos + 1 .. pos' - 1 : Context[r] # Code \/ src[r] \in Inert

Sweeping ==
  /\ Typed /\ SourceNoHash /\ Swept
  /\ state = "scan" => Resumes
  /\ state = "done" => pos = Size + 1
  /\ state # "abort"

LEMMA ContextStays ==
  ASSUME src' = src
  PROVE  Context' = Context /\ Significant' = Significant
<1> DEFINE PeekOf(s, p) == IF p <= Len(s) THEN s[p] ELSE "end"
           PairOf(s, p, a, b) == PeekOf(s, p) = a /\ PeekOf(s, p + 1) = b
           AfterOf(s, c, q) ==
             CASE c.skip -> IF c.in = "block" /\ c.depth = 0 THEN Code
                            ELSE Open(c.in, c.depth, FALSE)
               [] c.in = "code" /\ ~c.skip ->
                    CASE PairOf(s, q, "/", "/") -> Open("line", 0, TRUE)
                      [] s[q] = "#"      -> Open("line", 0, FALSE)
                      [] PairOf(s, q, "/", "*") -> Open("block", 1, TRUE)
                      [] s[q] = "quote"  -> Open("string", 0, FALSE)
                      [] s[q] = "tick"   -> Open("char", 2, FALSE)
                      [] OTHER -> Code
               [] c.in = "line" /\ ~c.skip ->
                    IF s[q] = "nl" THEN Code ELSE c
               [] c.in = "string" /\ ~c.skip ->
                    CASE s[q] = "esc" -> Open("string", 0, TRUE)
                      [] s[q] \in {"quote", "nl"} -> Code
                      [] OTHER -> c
               [] c.in = "char" /\ ~c.skip ->
                    CASE c.depth = 2 /\ s[q] = "esc" -> Open("char", 3, FALSE)
                      [] c.depth = 3 \/ (c.depth = 2 /\ s[q] # "esc") ->
                           Open("char", 1, PairOf(s, q, "lead", "cont"))
                      [] c.depth < 2 /\ s[q] \in {"tick", "nl"} -> Code
                      [] OTHER -> Open("char", 0, FALSE)
               [] c.in = "block" /\ ~c.skip ->
                    CASE PairOf(s, q, "/", "*") -> Open("block", c.depth + 1, TRUE)
                      [] PairOf(s, q, "*", "/") -> Open("block", c.depth - 1, TRUE)
                      [] OTHER -> c
           Of(s) == CHOOSE f : f = [p \in 1 .. Len(s) + 1 |->
                                      IF p = 1 THEN Code ELSE AfterOf(s, f[p - 1], p - 1)]
<1>1. Context = Of(src)
  BY DEF Context, Pair, peek, Size
<1>2. Context' = Of(src')
  BY DEF Context, Pair, peek, Size, Code, Open
<1> HIDE DEF Of
<1>3. Context' = Context
  BY <1>1, <1>2
<1>4. Significant' = Significant
  BY <1>3 DEF Significant, Pair, peek, Size, Code, Open
<1> QED BY <1>3, <1>4

LEMMA InitSweeping ==
  ASSUME NoHash, Init
  PROVE  Sweeping
<1>1. Typed
  BY InitTyped
<1>2. pos = 1 /\ tokens = <<>> /\ state = "scan"
  BY DEF Init
<1>3. SourceNoHash
  <2>1. PICK A \in Alphabets : src \in UNION {[1 .. n -> A] : n \in 0 .. MaxLen}
    BY DEF Init
  <2>2. PICK n \in 0 .. MaxLen : src \in [1 .. n -> A]
    BY <2>1
  <2>3. Size \in Nat /\ DOMAIN src = 1 .. Size
    BY <1>1, Characters DEF Typed
  <2>4. \A p \in 1 .. Size : src[p] \in A
    BY <2>2, <2>3
  <2>5. "#" \notin A
    BY DEF NoHash
  <2> QED BY <2>4, <2>5 DEF SourceNoHash
<1>4. Swept
  <2>1. DOMAIN tokens = {} /\ 1 .. pos - 1 = {}
    BY <1>2
  <2>2. Spans = {}
    BY <2>1 DEF Spans
  <2> QED BY <2>1, <2>2 DEF Swept
<1>5. Resumes
  BY <1>1, <1>2, ContextSteps DEF Resumes, Typed
<1> QED BY <1>1, <1>2, <1>3, <1>4, <1>5 DEF Sweeping

\* Characters that leave the context as it is.
LEMMA ContextKept ==
  ASSUME SourceOK, InContext, NEW p \in 1 .. Size + 1, NEW q \in p .. Size + 1,
         NEW c, Context[p] = c, \A r \in p .. q - 1 : After(c, r) = c
  PROVE  \A r \in p .. q : Context[r] = c
<1>1. Size \in Nat /\ p \in Nat /\ q \in Nat
  BY Characters
<1> DEFINE T == {r \in p .. q : Context[r] # c}
<1>2. SUFFICES ASSUME T # {} PROVE FALSE
  OBVIOUS
<1>3. PICK m \in T : \A k \in T : m <= k
  <2>1. T \subseteq Nat
    BY <1>1
  <2> HIDE DEF T
  <2> QED BY <1>2, <2>1, LeastExists
<1>4. m \in p .. q /\ Context[m] # c /\ m # p
  BY <1>3
<1>5. m - 1 \in p .. q - 1 /\ m - 1 \in p .. q /\ m - 1 \in 1 .. Size /\ ~(m <= m - 1)
      /\ (m - 1) + 1 = m
  BY <1>1, <1>4
<1>6. Context[m - 1] = c
  BY <1>3, <1>5
<1>7. Context[(m - 1) + 1] = After(Context[m - 1], m - 1)
  BY <1>5 DEF InContext
<1> QED BY <1>4, <1>5, <1>6, <1>7

\* A comment or a token begins in the program.
LEMMA BeginsInCode ==
  ASSUME Sweeping, state = "scan", pos \in 1 .. Size, src[pos] # "nl"
  PROVE  Context[pos] = Code
<1>1. pos # Size + 1
  BY Characters DEF Sweeping, Typed
<1> QED BY <1>1 DEF Sweeping, Resumes

LEMMA SignificantIs ==
  ASSUME NEW p \in 1 .. Size
  PROVE  p \in Significant <=>
           \/ Context[p].in = "string"
           \/ Context[p].in = "char" /\ (Context[p].depth < 2 => src[p] # "nl")
           \/ /\ Context[p] = Code /\ src[p] \notin Blanks \cup {"#"}
              /\ ~Pair(p, "/", "/") /\ ~Pair(p, "/", "*")
  BY DEF Significant

(***************************************************************************)
(* What keeps Swept: skipping what is not of the program, and tokens of    *)
(* what is.                                                                *)
(***************************************************************************)
LEMMA SkipSwept ==
  ASSUME Typed, Swept, src' = src, tokens' = tokens, NEW q \in pos .. Size + 1, pos' = q,
         \A r \in pos .. q - 1 : r \notin Significant
  PROVE  Swept'
<1>1. pos \in Nat /\ Size \in Nat /\ q \in Nat /\ pos <= q
  BY Characters DEF Typed, Placed
<1>2. Significant' = Significant
  BY ContextStays
<1>3. Spans' = Spans
  BY DEF Spans
<1>4. \A i \in DOMAIN tokens' : tokens'[i].last < pos'
  <2> SUFFICES ASSUME NEW i \in DOMAIN tokens PROVE tokens[i].last < q
    OBVIOUS
  <2>1. tokens[i].last < pos
    BY DEF Swept
  <2>2. tokens[i].last \in Int
    <3>1. tokens[i] \in TokenRecord
      BY DEF Typed
    <3> QED BY <3>1 DEF TokenRecord
  <2> QED BY <1>1, <2>1, <2>2
<1>5. \A p \in 1 .. pos' - 1 : p \in Significant => p \in Spans
  <2>1. \A p \in 1 .. q - 1 : p \in 1 .. pos - 1 \/ p \in pos .. q - 1
    BY <1>1
  <2> QED BY <2>1 DEF Swept
<1>6. \A p \in Spans : p \in Significant
  BY DEF Swept
<1> QED BY <1>2, <1>3, <1>4, <1>5, <1>6 DEF Swept

LEMMA TokenSwept ==
  ASSUME Typed, Swept, src' = src, NEW q \in pos .. Size + 1, pos' = q,
         NEW t, tokens' = Append(tokens, t), t.first = pos, t.last = q - 1,
         \A r \in pos .. q - 1 : r \in Significant
  PROVE  Swept'
<1>1. /\ pos \in Nat /\ Size \in Nat /\ q \in Nat /\ pos <= q
      /\ tokens \in Seq(TokenRecord) /\ Len(tokens) \in Nat /\ DOMAIN tokens = 1 .. Len(tokens)
  BY Characters DEF Typed, Placed
<1>2. Significant' = Significant
  BY ContextStays
<1> DEFINE n == Len(tokens)
<1>3. /\ DOMAIN tokens' = 1 .. n + 1 /\ tokens'[n + 1] = t /\ n + 1 \in 1 .. n + 1
      /\ \A i \in 1 .. n : tokens'[i] = tokens[i] /\ i \in 1 .. n + 1
  BY <1>1
<1>4. \A i \in 1 .. n + 1 : i \in 1 .. n \/ i = n + 1
  BY <1>1
<1>5. \A p : p \in Spans' <=> p \in Spans \/ p \in pos .. q - 1
  <2>1. \A p : p \in Spans <=> \E i \in 1 .. n : p \in tokens[i].first .. tokens[i].last
    BY <1>1 DEF Spans
  <2>2. \A p : p \in Spans' <=> \E i \in 1 .. n + 1 : p \in tokens'[i].first .. tokens'[i].last
    BY <1>3 DEF Spans
  <2> HIDE DEF n
  <2> QED BY <1>3, <1>4, <2>1, <2>2
<1> HIDE DEF n
<1>6. \A i \in DOMAIN tokens' : tokens'[i].last < pos'
  <2> SUFFICES ASSUME NEW i \in DOMAIN tokens' PROVE tokens'[i].last < q
    OBVIOUS
  <2>1. CASE i = n + 1
    BY <1>1, <1>3, <2>1
  <2>2. CASE i \in DOMAIN tokens
    <3>1. tokens[i].last < pos
      BY <2>2 DEF Swept
    <3>2. tokens[i] \in TokenRecord /\ tokens'[i] = tokens[i]
      BY <1>1, <1>3, <2>2 DEF n
    <3>3. tokens[i].last \in Int
      BY <3>2 DEF TokenRecord
    <3> QED BY <1>1, <3>1, <3>2, <3>3
  <2> QED BY <1>1, <1>3, <1>4, <2>1, <2>2 DEF n
<1>7. \A p \in 1 .. pos' - 1 : p \in Significant => p \in Spans'
  <2>1. \A p \in 1 .. q - 1 : p \in 1 .. pos - 1 \/ p \in pos .. q - 1
    BY <1>1
  <2> QED BY <1>5, <2>1 DEF Swept
<1>8. \A p \in Spans' : p \in Significant
  BY <1>5 DEF Swept
<1> QED BY <1>2, <1>6, <1>7, <1>8 DEF Swept

\* A step within the source that leaves the lexer where it may go on.
LEMMA SweepingOn ==
  ASSUME Sweeping, Typed', Swept', src' = src, state' = state, state = "scan",
         pos' = Size + 1 \/ Context[pos'] = Code
           \/ (LineEnd(Context[pos']) /\ src[pos'] = "nl")
  PROVE  Sweeping'
<1>1. Size' = Size /\ Context' = Context
  BY ContextStays DEF Size
<1>2. SourceNoHash'
  BY <1>1 DEF Sweeping, SourceNoHash
<1>3. Resumes'
  BY <1>1 DEF Resumes, LineEnd, Code, Open
<1> QED BY <1>2, <1>3 DEF Sweeping

LEMMA BlankSweeps ==
  ASSUME Sweeping, SkipBlank
  PROVE  Sweeping' /\ QuietInside
<1>1. /\ pos \in 1 .. Size /\ Size \in Nat /\ SourceOK /\ Placed /\ pos + 1 \in pos .. Size + 1
      /\ peek(pos) = src[pos] /\ src[pos] \in Blanks
  BY AtPosition, NoEnd DEF SkipBlank, Sweeping
<1>2. MoveTo(pos + 1) /\ tokens' = tokens /\ state' = state /\ state = "scan"
  BY DEF SkipBlank
<1>3. src' = src /\ pos' = pos + 1
  BY <1>1, <1>2, Moved
<1>4. Typed'
  BY BlankTyped DEF Sweeping
<1>5. src[pos] \notin {"#", "quote", "tick", "/"}
  BY <1>1 DEF Blanks
<1>6. ~Pair(pos, "/", "/") /\ ~Pair(pos, "/", "*")
  BY <1>1, <1>5 DEF Pair
<1>7. Context[pos + 1] = After(Context[pos], pos)
  BY <1>1, ContextSteps
<1>8. Context[pos] = Code \/ (LineEnd(Context[pos]) /\ src[pos] = "nl")
  <2>1. pos # Size + 1
    BY <1>1
  <2> QED BY <1>2, <2>1 DEF Sweeping, Resumes
<1>9. Context[pos + 1] = Code
  <2>1. LineEnd(Context[pos]) /\ src[pos] = "nl" => After(Context[pos], pos) = Code
    BY AfterLine, AfterChar DEF LineEnd
  <2> QED BY <1>1, <1>5, <1>6, <1>7, <1>8, <2>1, AfterCode
<1>10. \A r \in pos .. (pos + 1) - 1 : r \notin Significant
  <2>1. pos \notin Significant
    <3>1. /\ Context[pos].in # "string"
          /\ Context[pos].in = "char" => Context[pos].depth < 2 /\ src[pos] = "nl"
      BY <1>8 DEF LineEnd, Code, Open
    <3> QED BY <1>1, <3>1, SignificantIs
  <2> QED BY <1>1, <2>1
<1>11. Swept'
  BY <1>1, <1>2, <1>3, <1>10, SkipSwept DEF Sweeping
<1>12. QuietInside
  <2>1. pos + 1 .. (pos + 1) - 1 = {}
    BY <1>1
  <2> QED BY <1>3, <2>1 DEF QuietInside
<1> QED BY <1>2, <1>3, <1>4, <1>9, <1>11, <1>12, SweepingOn

LEMMA LineCommentSweeps ==
  ASSUME Sweeping, skipLineComment
  PROVE  Sweeping' /\ QuietInside
<1> DEFINE q == Past(pos + 2, Chars \ {"nl"})
<1>1. Typed /\ state = "scan" /\ LineComment
  BY DEF Sweeping, skipLineComment
<1>2. /\ pos \in 1 .. Size /\ Size \in Nat /\ SourceOK /\ Placed /\ peek(pos) = src[pos]
      /\ src[pos] = "/" /\ peek(pos + 1) = "/" /\ pos + 1 \in 1 .. Size
  <2>1. pos \in 1 .. Size
    BY <1>1, LineCommentAt
  <2>2. src[pos] # "#"
    BY <2>1 DEF Sweeping, SourceNoHash
  <2> QED BY <1>1, <2>2, LineCommentAt
<1>3. MoveTo(q) /\ state' = state /\ tokens' = tokens
  <2>1. ~(pos + 1 > Size)
    BY <1>2
  <2> QED BY <2>1 DEF skipLineComment
<1>4. /\ q \in pos + 2 .. Size + 1 /\ peek(q) \notin Chars \ {"nl"}
      /\ \A r \in pos + 2 .. q - 1 : src[r] \in Chars \ {"nl"}
  <2>1. pos + 2 \in 1 .. Size + 1
    BY <1>2
  <2>2. "end" \notin Chars \ {"nl"}
    BY <1>2, Characters
  <2> QED BY <1>2, <2>1, <2>2, PastOK
<1> HIDE DEF q
<1>5. q \in pos .. Size + 1 /\ q \in Nat /\ pos + 2 \in 1 .. Size + 1
  BY <1>2, <1>4
<1>6. src' = src /\ pos' = q
  BY <1>2, <1>3, <1>5, Moved
<1>7. InContext
  BY <1>2, ContextSteps DEF InContext
<1>8. Context[pos] = Code /\ Pair(pos, "/", "/")
  BY <1>1, <1>2, BeginsInCode DEF Pair
<1>9. Context[pos + 1] = Open("line", 0, TRUE)
  <2>1. Context[pos + 1] = After(Context[pos], pos)
    BY <1>2, <1>7 DEF InContext
  <2> QED BY <1>2, <1>8, <2>1, AfterCode
<1>10. Context[pos + 2] = Open("line", 0, FALSE)
  <2>1. Context[(pos + 1) + 1] = After(Context[pos + 1], pos + 1) /\ (pos + 1) + 1 = pos + 2
    BY <1>2, <1>7 DEF InContext
  <2>2. After(Open("line", 0, TRUE), pos + 1) =
          IF "line" = "block" /\ 0 = 0 THEN Code ELSE Open("line", 0, FALSE)
    BY AfterSkip
  <2> QED BY <1>9, <2>1, <2>2
<1>11. \A r \in pos + 2 .. q : Context[r] = Open("line", 0, FALSE)
  <2>1. \A r \in pos + 2 .. q - 1 : After(Open("line", 0, FALSE), r) = Open("line", 0, FALSE)
    BY <1>4, AfterLine
  <2>2. q \in pos + 2 .. Size + 1
    BY <1>4
  <2> QED BY <1>2, <1>5, <1>7, <1>10, <2>1, <2>2, ContextKept
<1>12. pos' = Size + 1 \/ (LineEnd(Context[pos']) /\ src[pos'] = "nl")
  <2>1. q \in 1 .. Size => src[q] = "nl"
    BY <1>2, <1>4, Characters
  <2>2. q \in pos + 2 .. q /\ (q = Size + 1 \/ q \in 1 .. Size)
    BY <1>2, <1>4
  <2> QED BY <1>6, <1>11, <2>1, <2>2 DEF LineEnd
<1>13. \A r \in pos .. q - 1 : r \notin Significant
  <2> SUFFICES ASSUME NEW r \in pos .. q - 1 PROVE r \notin Significant
    OBVIOUS
  <2>1. r \in 1 .. Size /\ (r = pos \/ r = pos + 1 \/ r \in pos + 2 .. q)
    BY <1>2, <1>4
  <2>2. CASE r = pos
    <3>1. Context[r].in \notin {"string", "char"}
      BY <1>8, <2>2 DEF Code, Open
    <3> QED BY <1>8, <2>1, <2>2, <3>1, SignificantIs
  <2>3. CASE r = pos + 1 \/ r \in pos + 2 .. q
    <3>1. Context[r].in = "line"
      BY <1>9, <1>11, <2>3 DEF Open
    <3>2. Context[r].in \notin {"string", "char"} /\ Context[r] # Code
      BY <3>1 DEF Code, Open
    <3> QED BY <2>1, <3>2, SignificantIs
  <2> QED BY <2>1, <2>2, <2>3
<1>14. Swept'
  BY <1>1, <1>3, <1>5, <1>6, <1>13, SkipSwept DEF Sweeping
<1>15. Typed'
  BY <1>1, LineCommentTyped
<1>16. QuietInside
  <2>1. \A r \in pos + 1 .. q - 1 : r = pos + 1 \/ r \in pos + 2 .. q
    BY <1>2, <1>4
  <2> QED BY <1>6, <1>9, <1>11, <2>1 DEF QuietInside, Code, Open
<1> QED BY <1>1, <1>3, <1>6, <1>12, <1>14, <1>15, <1>16, SweepingOn

LEMMA BlockCommentSweeps ==
  ASSUME Sweeping, skipBlockComment
  PROVE  Sweeping' /\ QuietInside
<1> DEFINE q == CommentEnd(pos + 2).to
<1>1. Typed /\ state = "scan" /\ BlockComment /\ MoveTo(q) /\ tokens' = tokens /\ state' = state
  BY DEF Sweeping, skipBlockComment
<1>2. /\ pos \in 1 .. Size /\ Size \in Nat /\ SourceOK /\ Placed
      /\ src[pos] = "/" /\ peek(pos) = src[pos]
      /\ pos + 1 \in 1 .. Size /\ src[pos + 1] = "*" /\ pos + 2 \in 1 .. Size + 1
      /\ q \in pos + 2 .. Size + 1 /\ q \in pos .. Size + 1
  BY <1>1, BlockCommentAt
<1>3. src' = src /\ pos' = q
  BY <1>1, <1>2, Moved
<1>4. InContext
  BY <1>2, ContextSteps DEF InContext
<1>5. Context[pos] = Code /\ Pair(pos, "/", "*")
  BY <1>1, <1>2, BeginsInCode DEF Pair, BlockComment
<1>6. Context[pos + 1] = Open("block", 1, TRUE)
  <2>1. Context[pos + 1] = After(Context[pos], pos)
    BY <1>2, <1>4 DEF InContext
  <2> QED BY <1>2, <1>5, <2>1, AfterCode
<1>7. Nested(pos + 2, 1)
  <2>1. Context[(pos + 1) + 1] = After(Context[pos + 1], pos + 1) /\ (pos + 1) + 1 = pos + 2
    BY <1>2, <1>4 DEF InContext
  <2>2. After(Open("block", 1, TRUE), pos + 1) =
          IF "block" = "block" /\ 1 = 0 THEN Code ELSE Open("block", 1, FALSE)
    BY AfterSkip
  <2> QED BY <1>6, <2>1, <2>2 DEF Nested
<1>8. /\ \A r \in pos + 2 .. q - 1 : Context[r].in = "block"
      /\ q <= Size => Context[q] = Code
  BY <1>2, <1>4, <1>7, CommentEnds
<1>9. pos' = Size + 1 \/ Context[pos'] = Code
  <2>1. q = Size + 1 \/ q <= Size
    BY <1>2
  <2> QED BY <1>3, <1>8, <2>1
<1> HIDE DEF q
<1>10. \A r \in pos .. q - 1 : r \notin Significant
  <2> SUFFICES ASSUME NEW r \in pos .. q - 1 PROVE r \notin Significant
    OBVIOUS
  <2>1. r \in 1 .. Size /\ (r = pos \/ r = pos + 1 \/ r \in pos + 2 .. q - 1)
    BY <1>2
  <2>2. CASE r = pos
    <3>1. Context[r].in \notin {"string", "char"}
      BY <1>5, <2>2 DEF Code, Open
    <3> QED BY <1>5, <2>1, <2>2, <3>1, SignificantIs
  <2>3. CASE r = pos + 1 \/ r \in pos + 2 .. q - 1
    <3>1. Context[r].in = "block"
      BY <1>6, <1>8, <2>3 DEF Open
    <3>2. Context[r].in \notin {"string", "char"} /\ Context[r] # Code
      BY <3>1 DEF Code, Open
    <3> QED BY <2>1, <3>2, SignificantIs
  <2> QED BY <2>1, <2>2, <2>3
<1>11. Swept'
  BY <1>1, <1>2, <1>3, <1>10, SkipSwept DEF Sweeping
<1>12. Typed'
  BY <1>1, BlockCommentTyped
<1>13. QuietInside
  <2>1. \A r \in pos + 1 .. q - 1 : r = pos + 1 \/ r \in pos + 2 .. q - 1
    BY <1>2
  <2>2. \A r \in pos + 1 .. q - 1 : Context[r].in = "block"
    BY <1>6, <1>8, <2>1 DEF Open
  <2> QED BY <1>3, <2>2 DEF QuietInside, Code, Open
<1> QED BY <1>1, <1>3, <1>9, <1>11, <1>12, <1>13, SweepingOn

LEMMA EofSweeps ==
  ASSUME Sweeping, Eof
  PROVE  Sweeping'
<1>1. Typed' /\ pos = Size + 1 /\ Typed
  BY EofTyped DEF Sweeping
<1>2. Size \in Nat /\ SourceOK /\ Placed /\ pos \in pos .. Size + 1
  BY <1>1, Characters DEF Typed, Placed
<1> DEFINE t == makeToken("eof", pos)
<1>3. MoveTo(pos) /\ tokens' = Append(tokens, t) /\ state' = "done"
  BY DEF Eof
<1>4. t.first = pos /\ t.last = pos - 1
  BY DEF makeToken
<1> HIDE DEF t
<1>5. src' = src /\ pos' = pos /\ Size' = Size
  BY <1>2, <1>3, Moved
<1>6. pos .. pos - 1 = {}
  BY <1>2
<1>7. Swept'
  BY <1>1, <1>2, <1>3, <1>4, <1>5, <1>6, TokenSwept DEF Sweeping
<1>8. SourceNoHash'
  BY <1>5 DEF Sweeping, SourceNoHash
<1> QED BY <1>1, <1>3, <1>5, <1>7, <1>8 DEF Sweeping

\* A token of what is of the program.
LEMMA TokenSweeps ==
  ASSUME Sweeping, Typed', state = "scan", NEW kind, NEW q \in pos .. Size + 1, Token(kind, q),
         \A r \in pos .. q - 1 : r \in Significant,
         \A r \in pos + 1 .. q - 1 : Context[r] # Code \/ src[r] \in Inert,
         q <= Size => Context[q] = Code \/ (LineEnd(Context[q]) /\ src[q] = "nl")
  PROVE  Sweeping' /\ QuietInside
<1>1. Typed /\ SourceOK /\ Placed /\ Size \in Nat
  BY Characters DEF Sweeping, Typed
<1> DEFINE t == makeToken(kind, q)
<1>2. MoveTo(q) /\ tokens' = Append(tokens, t) /\ state' = state
  BY DEF Token
<1>3. t.first = pos /\ t.last = q - 1
  BY DEF makeToken
<1> HIDE DEF t
<1>4. src' = src /\ pos' = q
  BY <1>1, <1>2, Moved
<1>5. Swept'
  BY <1>1, <1>2, <1>3, <1>4, TokenSwept DEF Sweeping
<1>6. pos' = Size + 1 \/ Context[pos'] = Code \/ (LineEnd(Context[pos']) /\ src[pos'] = "nl")
  <2>1. q = Size + 1 \/ q <= Size
    BY <1>1
  <2> QED BY <1>4, <2>1
<1>7. QuietInside
  BY <1>4 DEF QuietInside
<1> QED BY <1>2, <1>4, <1>5, <1>6, <1>7, SweepingOn

\* The character that a token begins with.
LEMMA TokenBegins ==
  ASSUME Sweeping, NEW S, At(S), "end" \notin S
  PROVE  /\ pos \in 1 .. Size /\ Size \in Nat /\ SourceOK /\ InContext /\ Typed /\ state = "scan"
         /\ peek(pos) = src[pos] /\ src[pos] \in S /\ pos + 1 \in 1 .. Size + 1
         /\ Context[pos] = Code /\ pos \in Significant
         /\ ~Pair(pos, "/", "/") /\ ~Pair(pos, "/", "*") /\ src[pos] # "#"
         /\ src[pos] \notin {"quote", "tick"} => Context[pos + 1] = Code
<1>1. /\ pos \in 1 .. Size /\ peek(pos) = src[pos] /\ src[pos] \in S /\ Size \in Nat
      /\ pos + 1 \in 1 .. Size + 1 /\ state = "scan" /\ ~Skipping /\ Typed /\ SourceOK
  BY AtCharacter DEF Sweeping, Typed
<1>2. InContext
  BY <1>1, ContextSteps DEF InContext
<1>3. src[pos] \notin Blanks /\ src[pos] # "#" /\ ~Pair(pos, "/", "/") /\ ~Pair(pos, "/", "*")
  BY <1>1 DEF Skipping, LineComment, BlockComment, Pair
<1>4. src[pos] # "nl"
  BY <1>3 DEF Blanks
<1>5. Context[pos] = Code
  BY <1>1, <1>4, BeginsInCode
<1>6. pos \in Significant
  BY <1>1, <1>3, <1>5, SignificantIs
<1>7. Context[pos + 1] = After(Context[pos], pos)
  BY <1>1, <1>2 DEF InContext
<1>8. src[pos] \notin {"quote", "tick"} => Context[pos + 1] = Code
  BY <1>1, <1>3, <1>5, <1>7, AfterCode
<1> QED BY <1>1, <1>2, <1>3, <1>5, <1>6, <1>8

LEMMA PlainSweeps ==
  ASSUME Sweeping, Typed', NEW S, At(S), "end" \notin S, NEW kind, NEW q, Plainly(q), Token(kind, q)
  PROVE  Sweeping' /\ QuietInside
<1>1. /\ pos \in 1 .. Size /\ Size \in Nat /\ SourceOK /\ InContext /\ Typed /\ state = "scan"
      /\ pos + 1 \in 1 .. Size + 1 /\ pos \in Significant
      /\ src[pos] \notin {"quote", "tick"} => Context[pos + 1] = Code
  BY TokenBegins
<1>2. /\ q \in pos + 1 .. Size + 1 /\ src[pos] \in Inert \cup {"/"}
      /\ \A r \in pos + 1 .. q - 1 : src[r] \in Inert
  BY DEF Plainly
<1>3. \A c \in Inert : c \notin {"#", "quote", "tick", "/"} \cup Blanks
  BY DEF Inert, Letters, Digits, Starts, Blanks
<1>4. src[pos] \notin {"quote", "tick"}
  BY <1>2, <1>3
<1>5. \A r \in pos + 1 .. q - 1 : /\ r \in 1 .. Size /\ src[r] \notin {"#", "quote", "tick"} \cup Blanks
                                  /\ ~Pair(r, "/", "/") /\ ~Pair(r, "/", "*")
                                  /\ peek(r) = src[r]
  <2> SUFFICES ASSUME NEW r \in pos + 1 .. q - 1
               PROVE  /\ r \in 1 .. Size /\ src[r] \notin {"#", "quote", "tick"} \cup Blanks
                      /\ ~Pair(r, "/", "/") /\ ~Pair(r, "/", "*")
                      /\ peek(r) = src[r]
    OBVIOUS
  <2>1. r \in 1 .. Size
    BY <1>1, <1>2
  <2>2. peek(r) = src[r] /\ src[r] \notin {"#", "quote", "tick", "/"} \cup Blanks
    BY <1>1, <1>2, <1>3, <2>1, Characters
  <2> QED BY <2>1, <2>2 DEF Pair
<1>6. \A r \in pos + 1 .. q : Context[r] = Code
  <2>1. \A r \in pos + 1 .. q - 1 : After(Code, r) = Code
    BY <1>5, AfterCode
  <2> QED BY <1>1, <1>2, <1>4, <2>1, ContextKept
<1>7. \A r \in pos .. q - 1 : r \in Significant
  <2> SUFFICES ASSUME NEW r \in pos .. q - 1 PROVE r \in Significant
    OBVIOUS
  <2>1. r = pos \/ (r \in pos + 1 .. q - 1 /\ r \in pos + 1 .. q)
    BY <1>1, <1>2
  <2> QED BY <1>1, <1>5, <1>6, <2>1, SignificantIs
<1>8. q \in pos .. Size + 1 /\ Context[q] = Code
  <2>1. q \in pos + 1 .. q /\ q \in pos .. Size + 1
    BY <1>1, <1>2
  <2> QED BY <1>6, <2>1
<1> QED BY <1>1, <1>2, <1>7, <1>8, TokenSweeps

LEMMA StringSweeps ==
  ASSUME Sweeping, Typed', lexString
  PROVE  Sweeping' /\ QuietInside
<1>1. At({"quote"})
  BY DEF lexString
<1>2. /\ pos \in 1 .. Size /\ Size \in Nat /\ SourceOK /\ InContext /\ Typed /\ state = "scan"
      /\ peek(pos) = src[pos] /\ src[pos] = "quote" /\ pos + 1 \in 1 .. Size + 1
      /\ Context[pos] = Code /\ pos \in Significant
  BY <1>1, TokenBegins
<1>3. PICK q, kind : q \in pos + 1 .. Size + 1 /\ Token(kind, q) /\ q = StringEnd(pos + 1).to
  BY <1>2, StringToken
<1>4. Context[pos + 1] = Open("string", 0, FALSE)
  <2>1. Context[pos + 1] = After(Context[pos], pos)
    BY <1>2 DEF InContext
  <2> QED BY <1>2, <2>1, AfterCode
<1>5. (\A r \in pos + 1 .. q - 1 : Context[r].in = "string") /\ (q <= Size => Context[q] = Code)
  BY <1>2, <1>3, <1>4, StringEnds
<1>6. \A r \in pos .. q - 1 : r \in Significant
  <2> SUFFICES ASSUME NEW r \in pos .. q - 1 PROVE r \in Significant
    OBVIOUS
  <2>1. r \in 1 .. Size /\ (r = pos \/ r \in pos + 1 .. q - 1)
    BY <1>2, <1>3
  <2> QED BY <1>2, <1>5, <2>1, SignificantIs
<1>7. q \in pos .. Size + 1
  BY <1>2, <1>3
<1>8. \A r \in pos + 1 .. q - 1 : Context[r] # Code
  BY <1>5 DEF Code, Open
<1> QED BY <1>2, <1>3, <1>5, <1>6, <1>7, <1>8, TokenSweeps

\* Behind the character of a character literal, up to its end.
CharTail(r) ==
  \E depth \in 0 .. 1 : \/ Context[r] = Open("char", depth, FALSE)
                        \/ Context[r] = Open("char", depth, TRUE) /\ src[r] = "cont"

LEMMA CharTailGoesOn ==
  ASSUME SourceOK, InContext, NEW p \in 1 .. Size + 1, NEW q \in p .. Size + 1, CharTail(p),
         \A r \in p .. q - 1 : src[r] \notin {"tick", "nl"}
  PROVE  \A r \in p .. q : CharTail(r)
<1>1. Size \in Nat /\ p \in Nat /\ q \in Nat
  BY Characters
<1> DEFINE T == {r \in p .. q : ~CharTail(r)}
<1>2. SUFFICES ASSUME T # {} PROVE FALSE
  OBVIOUS
<1>3. PICK m \in T : \A k \in T : m <= k
  <2>1. T \subseteq Nat
    BY <1>1
  <2> HIDE DEF T
  <2> QED BY <1>2, <2>1, LeastExists
<1>4. m \in p .. q /\ ~CharTail(m) /\ m # p
  BY <1>3
<1>5. m - 1 \in p .. q - 1 /\ m - 1 \in p .. q /\ m - 1 \in 1 .. Size /\ ~(m <= m - 1)
      /\ (m - 1) + 1 = m
  BY <1>1, <1>4
<1>6. CharTail(m - 1)
  BY <1>3, <1>5
<1>7. Context[m] = After(Context[m - 1], m - 1)
  BY <1>5 DEF InContext
<1>8. src[m - 1] \notin {"tick", "nl"}
  BY <1>5
<1>9. PICK depth \in 0 .. 1 : Context[m - 1] \in {Open("char", depth, FALSE), Open("char", depth, TRUE)}
  BY <1>6 DEF CharTail
<1>10. After(Open("char", depth, FALSE), m - 1) = Open("char", 0, FALSE)
  BY <1>8, AfterChar
<1>11. After(Open("char", depth, TRUE), m - 1) = Open("char", depth, FALSE)
  BY AfterSkip
<1>12. 0 \in 0 .. 1
  OBVIOUS
<1>13. CharTail(m)
  BY <1>7, <1>9, <1>10, <1>11, <1>12 DEF CharTail
<1> QED BY <1>4, <1>13

\* A tick there closes the literal; a newline ends it.
LEMMA CharTailEnds ==
  ASSUME SourceOK, InContext, NEW p \in 1 .. Size, CharTail(p)
  PROVE  /\ src[p] = "tick" => Context[p + 1] = Code
         /\ src[p] = "nl" => LineEnd(Context[p])
         /\ src[p] # "nl" => p \in Significant
         /\ Context[p] # Code
<1>1. PICK depth \in 0 .. 1 : \/ Context[p] = Open("char", depth, FALSE)
                              \/ Context[p] = Open("char", depth, TRUE) /\ src[p] = "cont"
  BY DEF CharTail
<1>2. Context[p + 1] = After(Context[p], p)
  BY DEF InContext
<1>3. src[p] \in {"tick", "nl"} => Context[p] = Open("char", depth, FALSE)
  BY <1>1
<1>4. src[p] = "tick" => After(Open("char", depth, FALSE), p) = Code
  BY AfterChar
<1>5. Context[p].in = "char" /\ Context[p] # Code
  BY <1>1 DEF Open, Code
<1>6. src[p] # "nl" => p \in Significant
  BY <1>5, SignificantIs
<1> QED BY <1>2, <1>3, <1>4, <1>5, <1>6 DEF LineEnd

\* The character that a tick awaits, or a backslash behind it.
LEMMA CharAwaits ==
  ASSUME SourceOK, InContext, NEW p \in 1 .. Size, NEW depth \in 2 .. 3,
         Context[p] = Open("char", depth, FALSE)
  PROVE  /\ p \in Significant /\ Context[p] # Code
         /\ IF depth = 2 /\ src[p] = "esc" THEN Context[p + 1] = Open("char", 3, FALSE)
            ELSE CharTail(p + 1)
<1>1. Size \in Nat /\ p \in Nat /\ ~(depth < 2) /\ 1 \in 0 .. 1
  BY Characters
<1>2. Context[p].in = "char" /\ Context[p].depth = depth /\ Context[p] # Code
  BY DEF Open, Code
<1>3. p \in Significant
  BY <1>1, <1>2, SignificantIs
<1>4. Context[p + 1] = After(Context[p], p)
  BY DEF InContext
<1>5. depth \in {2, 3}
  OBVIOUS
<1>6. CASE depth = 2 /\ src[p] = "esc"
  BY <1>2, <1>3, <1>4, <1>6, AfterChar
<1>7. CASE ~(depth = 2 /\ src[p] = "esc")
  <2> DEFINE pair == Pair(p, "lead", "cont")
  <2>1. Context[p + 1] = Open("char", 1, pair)
    BY <1>4, <1>5, <1>7, AfterChar
  <2>2. pair => src[p + 1] = "cont"
    <3>1. pair => peek(p + 1) = "cont" /\ "cont" # "end"
      BY DEF Pair
    <3>2. pair => p + 1 \in 1 .. Size
      BY <1>1, <3>1, Characters
    <3> QED BY <3>1, <3>2, Characters
  <2>3. pair \in BOOLEAN
    BY DEF Pair
  <2> HIDE DEF pair
  <2>4. CharTail(p + 1)
    BY <1>1, <2>1, <2>2, <2>3 DEF CharTail
  <2> QED BY <1>2, <1>3, <1>7, <2>4
<1> QED BY <1>6, <1>7

LEMMA CharSweeps ==
  ASSUME Sweeping, Typed', lexChar
  PROVE  Sweeping' /\ QuietInside
<1>1. At({"tick"})
  BY DEF lexChar
<1>2. /\ pos \in 1 .. Size /\ Size \in Nat /\ SourceOK /\ InContext /\ Typed /\ state = "scan"
      /\ src[pos] = "tick" /\ peek(pos) = src[pos] /\ pos + 1 \in 1 .. Size + 1
      /\ Context[pos] = Code /\ pos \in Significant /\ pos \in Nat
  BY <1>1, TokenBegins
<1>3. Context[pos + 1] = Open("char", 2, FALSE)
  <2>1. Context[pos + 1] = After(Context[pos], pos)
    BY <1>2 DEF InContext
  <2> QED BY <1>2, <2>1, AfterCode
<1> DEFINE char  == IF peek(pos + 1) = "esc" THEN pos + 2 ELSE pos + 1
           close == IF char <= Size THEN char + 1 ELSE char
           over  == Past(close, Chars \ {"tick", "nl"})
<1>4. CASE pos + 1 > Size
  <2>1. peek(pos + 1) = "end" /\ pos + 1 = Size + 1
    BY <1>2, <1>4, Characters
  <2>2. Token("error", pos + 1)
    <3>1. char = pos + 1 /\ close = pos + 1
      <4>1. char = pos + 1
        BY <2>1
      <4>2. ~(pos + 1 <= Size)
        BY <1>2, <1>4
      <4> HIDE DEF char
      <4> QED BY <4>1, <4>2
    <3>2. peek(close) # "tick"
      BY <2>1, <3>1
    <3> QED BY <1>4, <3>2 DEF lexChar
  <2>3. /\ pos + 1 \in pos .. Size + 1 /\ \A r \in pos .. (pos + 1) - 1 : r \in Significant
        /\ pos + 1 .. (pos + 1) - 1 = {} /\ ~(pos + 1 <= Size)
    BY <1>2, <1>4
  <2> QED BY <1>2, <2>2, <2>3, TokenSweeps
<1>5. CASE ~(pos + 1 > Size)
  <2>1. /\ pos + 1 \in 1 .. Size /\ peek(pos + 1) = src[pos + 1] /\ 2 \in 2 .. 3 /\ 3 \in 2 .. 3
        /\ (pos + 1) + 1 = pos + 2 /\ (pos + 2) + 1 = pos + 3
    BY <1>2, <1>5, Characters
  <2>2. /\ pos + 1 \in Significant /\ Context[pos + 1] # Code
        /\ IF src[pos + 1] = "esc" THEN Context[pos + 2] = Open("char", 3, FALSE)
           ELSE CharTail(pos + 2)
    BY <1>2, <1>3, <2>1, CharAwaits
  <2>3. /\ close \in pos + 2 .. Size + 1 /\ close \in 1 .. Size + 1
        /\ \A r \in pos + 1 .. close - 1 : r \in Significant /\ Context[r] # Code
        /\ CharTail(close) \/ close = Size + 1
    <3>1. CASE src[pos + 1] # "esc"
      <4>1. close = pos + 2
        BY <1>5, <2>1, <3>1
      <4> HIDE DEF close
      <4>2. \A r \in pos + 1 .. close - 1 : r = pos + 1
        BY <1>2, <4>1
      <4> QED BY <1>2, <2>1, <2>2, <3>1, <4>1, <4>2
    <3>2. CASE src[pos + 1] = "esc" /\ pos + 2 <= Size
      <4>1. close = pos + 3 /\ pos + 2 \in 1 .. Size
        <5>1. char = pos + 2
          BY <2>1, <3>2
        <5> HIDE DEF char
        <5>2. close = char + 1
          BY <3>2, <5>1
        <5> HIDE DEF close
        <5>3. pos \in Nat /\ Size \in Nat /\ pos + 2 <= Size
          BY <1>2, <3>2
        <5>4. close = pos + 3
          BY <5>1, <5>2, <5>3
        <5>5. pos + 2 \in 1 .. Size
          BY <5>3
        <5> QED BY <5>4, <5>5
      <4> HIDE DEF close
      <4>2. pos + 2 \in Significant /\ Context[pos + 2] # Code /\ CharTail(pos + 3)
        <5>1. pos + 2 \in 1 .. Size /\ 3 \in 2 .. 3 /\ (pos + 2) + 1 = pos + 3
          BY <2>1, <4>1
        <5>2. Context[pos + 2] = Open("char", 3, FALSE)
          BY <2>2, <3>2
        <5>3. /\ pos + 2 \in Significant /\ Context[pos + 2] # Code
              /\ IF 3 = 2 /\ src[pos + 2] = "esc" THEN Context[(pos + 2) + 1] = Open("char", 3, FALSE)
                 ELSE CharTail((pos + 2) + 1)
          BY <1>2, <5>1, <5>2, CharAwaits
        <5>4. ~(3 = 2 /\ src[pos + 2] = "esc")
          OBVIOUS
        <5>5. CharTail((pos + 2) + 1)
          BY <5>3, <5>4
        <5>6. (pos + 2) + 1 = pos + 3
          BY <5>1
        <5> QED BY <5>3, <5>5, <5>6
      <4>3. \A r \in pos + 1 .. close - 1 : r = pos + 1 \/ r = pos + 2
        <5>1. pos \in Nat
          BY <1>2
        <5>2. \A p \in Nat : \A r \in p + 1 .. (p + 3) - 1 : r = p + 1 \/ r = p + 2
          OBVIOUS
        <5> QED BY <4>1, <5>1, <5>2
      <4>4. close \in pos + 2 .. Size + 1 /\ close \in 1 .. Size + 1
        BY <1>2, <4>1
      <4>5. \A r \in pos + 1 .. close - 1 : r \in Significant /\ Context[r] # Code
        BY <2>2, <4>2, <4>3
      <4> QED BY <4>1, <4>2, <4>4, <4>5
    <3>3. CASE src[pos + 1] = "esc" /\ ~(pos + 2 <= Size)
      <4>1. close = pos + 2 /\ pos + 2 = Size + 1
        BY <1>2, <2>1, <3>3
      <4> HIDE DEF close
      <4>2. \A r \in pos + 1 .. close - 1 : r = pos + 1
        BY <1>2, <4>1
      <4> QED BY <1>2, <2>2, <4>1, <4>2
    <3> QED BY <3>1, <3>2, <3>3
  <2>4. CASE peek(close) = "tick"
    <3>1. Token("char", close + 1)
      BY <1>5, <2>4 DEF lexChar
    <3> HIDE DEF close
    <3>2. close \in 1 .. Size /\ src[close] = "tick"
      <4>1. close # Size + 1
        BY <1>2, <2>4, Characters
      <4>2. close \in 1 .. Size
        BY <1>2, <2>3, <4>1
      <4> QED BY <1>2, <2>4, <4>2, Characters
    <3>3. CharTail(close)
      BY <1>2, <2>3, <3>2
    <3>4. close \in Significant /\ Context[close] # Code /\ Context[close + 1] = Code
      BY <1>2, <3>2, <3>3, CharTailEnds
    <3>5. \A r \in pos .. (close + 1) - 1 : r = pos \/ r \in pos + 1 .. close - 1 \/ r = close
      BY <1>2, <2>3
    <3>6. \A r \in pos + 1 .. (close + 1) - 1 : r \in pos + 1 .. close - 1 \/ r = close
      BY <1>2, <2>3
    <3>7. close + 1 \in pos .. Size + 1
      BY <1>2, <2>3, <3>2
    <3> QED BY <1>2, <2>3, <3>1, <3>4, <3>5, <3>6, <3>7, TokenSweeps
  <2>5. CASE peek(close) # "tick"
    <3> DEFINE end == IF peek(over) = "tick" THEN over + 1 ELSE over
    <3>1. Token("error", end)
      BY <1>5, <2>5 DEF lexChar
    <3>2. /\ over \in close .. Size + 1 /\ over \in 1 .. Size + 1
          /\ peek(over) \notin Chars \ {"tick", "nl"}
          /\ \A r \in close .. over - 1 : src[r] \in Chars \ {"tick", "nl"} /\ r \in 1 .. Size
      <4>1. close \in 1 .. Size + 1 /\ "end" \notin Chars \ {"tick", "nl"}
        BY <1>2, <2>3, Characters
      <4> HIDE DEF close
      <4> QED BY <1>2, <4>1, PastOK
    <3> HIDE DEF close, over
    <3>3. over <= Size => src[over] \in {"tick", "nl"} /\ peek(over) = src[over] /\ over \in 1 .. Size
      <4> SUFFICES ASSUME over <= Size
                   PROVE  src[over] \in {"tick", "nl"} /\ peek(over) = src[over] /\ over \in 1 .. Size
        OBVIOUS
      <4>1. over \in 1 .. Size
        BY <1>2, <3>2
      <4> QED BY <1>2, <3>2, <4>1, Characters
    <3>4. ~(over <= Size) => over = Size + 1 /\ peek(over) # "tick"
      <4> SUFFICES ASSUME ~(over <= Size) PROVE over = Size + 1 /\ peek(over) # "tick"
        OBVIOUS
      <4>1. over = Size + 1
        BY <1>2, <3>2
      <4> QED BY <1>2, <4>1, Characters
    <3>5. \A r \in close .. over : CharTail(r) \/ close = Size + 1
      BY <1>2, <2>3, <3>2, CharTailGoesOn
    <3>6. \A r \in close .. over - 1 : r \in Significant /\ Context[r] # Code
      <4> SUFFICES ASSUME NEW r \in close .. over - 1
                   PROVE  r \in Significant /\ Context[r] # Code
        OBVIOUS
      <4>1. r \in close .. over /\ r \in 1 .. Size /\ src[r] # "nl" /\ close # Size + 1
        BY <1>2, <2>3, <3>2
      <4>2. CharTail(r)
        BY <3>5, <4>1
      <4> QED BY <1>2, <4>1, <4>2, CharTailEnds
    <3>7. over <= Size =>
            /\ src[over] = "tick" => over \in Significant /\ Context[over] # Code
                                     /\ Context[over + 1] = Code
            /\ src[over] = "nl" => LineEnd(Context[over])
      <4> SUFFICES ASSUME over <= Size
                   PROVE  /\ src[over] = "tick" => over \in Significant /\ Context[over] # Code
                                                   /\ Context[over + 1] = Code
                          /\ src[over] = "nl" => LineEnd(Context[over])
        OBVIOUS
      <4>1. over \in close .. over /\ close # Size + 1 /\ over \in 1 .. Size
        BY <1>2, <2>3, <3>2, <3>3
      <4>2. CharTail(over)
        BY <3>5, <4>1
      <4> QED BY <1>2, <4>1, <4>2, CharTailEnds
    <3>8. CASE over <= Size /\ src[over] = "tick"
      <4>1. end = over + 1
        BY <3>3, <3>8
      <4> HIDE DEF end
      <4>2. /\ \A r \in pos .. end - 1 : r = pos \/ r \in pos + 1 .. close - 1
                                         \/ r \in close .. over - 1 \/ r = over
            /\ \A r \in pos + 1 .. end - 1 : r \in pos + 1 .. close - 1
                                             \/ r \in close .. over - 1 \/ r = over
        BY <1>2, <2>3, <3>2, <4>1
      <4>3. /\ \A r \in pos .. end - 1 : r \in Significant
            /\ \A r \in pos + 1 .. end - 1 : Context[r] # Code
        BY <1>2, <2>3, <3>6, <3>7, <3>8, <4>2
      <4>4. end \in pos .. Size + 1 /\ Context[end] = Code
        BY <1>2, <2>3, <3>2, <3>3, <3>7, <3>8, <4>1
      <4> QED BY <1>2, <3>1, <4>3, <4>4, TokenSweeps
    <3>9. CASE ~(over <= Size /\ src[over] = "tick")
      <4>1. end = over
        BY <3>3, <3>4, <3>9
      <4> HIDE DEF end
      <4>2. /\ \A r \in pos .. end - 1 : r = pos \/ r \in pos + 1 .. close - 1 \/ r \in close .. over - 1
            /\ \A r \in pos + 1 .. end - 1 : r \in pos + 1 .. close - 1 \/ r \in close .. over - 1
        BY <1>2, <2>3, <3>2, <4>1
      <4>3. /\ \A r \in pos .. end - 1 : r \in Significant
            /\ \A r \in pos + 1 .. end - 1 : Context[r] # Code
        BY <1>2, <2>3, <3>6, <4>2
      <4>4. end \in pos .. Size + 1 /\ (end <= Size => LineEnd(Context[end]) /\ src[end] = "nl")
        BY <1>2, <2>3, <3>2, <3>3, <3>7, <3>9, <4>1
      <4> QED BY <1>2, <3>1, <4>3, <4>4, TokenSweeps
    <3> QED BY <3>8, <3>9
  <2> QED BY <2>4, <2>5
<1> QED BY <1>4, <1>5

LEMMA UnexpectedSweeps ==
  ASSUME Sweeping, Unexpected
  PROVE  Sweeping' /\ QuietInside
<1> DEFINE S == Chars \ (Letters \cup Digits \cup Starts \cup {"quote", "tick"})
           t == [kind |-> "error", first |-> pos, last |-> pos, line |-> line', column |-> column']
<1>1. At(S) /\ "end" \notin S
  BY LexerBounds DEF Unexpected, Chars
<1>2. \A c \in S : c \notin {"quote", "tick"}
  OBVIOUS
<1>3. MoveTo(pos + 1) /\ state' = state /\ tokens' = Append(tokens, t)
  BY DEF Unexpected
<1>4. t.first = pos /\ t.last = (pos + 1) - 1
  <2>1. pos \in Nat
    BY Characters DEF Sweeping, Typed, Placed
  <2> QED BY <2>1
<1> HIDE DEF S, t
<1>5. /\ pos \in 1 .. Size /\ Size \in Nat /\ SourceOK /\ Typed /\ state = "scan"
      /\ src[pos] \in S /\ pos \in Significant
      /\ src[pos] \notin {"quote", "tick"} => Context[pos + 1] = Code
  BY <1>1, TokenBegins
<1>6. pos + 1 \in pos .. Size + 1 /\ \A r \in pos .. (pos + 1) - 1 : r \in Significant
  BY <1>5
<1>7. src' = src /\ pos' = pos + 1
  BY <1>3, <1>5, <1>6, Moved DEF Typed
<1>8. Swept'
  BY <1>3, <1>4, <1>5, <1>6, <1>7, TokenSwept DEF Sweeping
<1>9. Typed'
  BY <1>5, UnexpectedTyped
<1>10. QuietInside
  <2>1. pos + 1 .. (pos + 1) - 1 = {}
    BY <1>5
  <2> QED BY <1>7, <2>1 DEF QuietInside
<1> QED BY <1>2, <1>3, <1>5, <1>7, <1>8, <1>9, <1>10, SweepingOn

LEMMA NextSweeps ==
  ASSUME Sweeping, [Next]_vars
  PROVE  Sweeping'
<1>1. Typed /\ Typed'
  BY NextTyped DEF Sweeping
<1>2. CASE SkipBlank
  BY <1>2, BlankSweeps
<1>3. CASE skipLineComment
  BY <1>3, LineCommentSweeps
<1>4. CASE skipBlockComment
  BY <1>4, BlockCommentSweeps
<1>5. CASE Eof
  BY <1>5, EofSweeps
<1>6. CASE lexIdentifierOrKeyword
  <2>1. PICK q : Plainly(q) /\ Token("ident", q)
    BY <1>1, <1>6, IdentifierEnds
  <2>2. At(Letters)
    BY <1>6 DEF lexIdentifierOrKeyword
  <2> QED BY <1>1, <2>1, <2>2, NoEnd, PlainSweeps
<1>7. CASE lexNumber
  <2>1. PICK q, kind : Plainly(q) /\ Token(kind, q) /\ kind \in {"int", "float"}
    BY <1>1, <1>7, NumberEnds
  <2>2. At(Digits)
    BY <1>7 DEF lexNumber
  <2> QED BY <1>1, <2>1, <2>2, NoEnd, PlainSweeps
<1>8. CASE lexString
  BY <1>1, <1>8, StringSweeps
<1>9. CASE lexChar
  BY <1>1, <1>9, CharSweeps
<1>10. CASE Operator
  <2>1. PICK q : Plainly(q) /\ Token("op", q)
    BY <1>1, <1>10, OperatorEnds
  <2>2. At(Starts)
    BY <1>10 DEF Operator
  <2> QED BY <1>1, <2>1, <2>2, NoEnd, PlainSweeps
<1>11. CASE Unexpected
  BY <1>11, UnexpectedSweeps
<1>12. CASE UNCHANGED vars
  <2>1. src' = src /\ pos' = pos /\ tokens' = tokens /\ state' = state
    BY <1>12 DEF vars
  <2>2. Context' = Context /\ Significant' = Significant /\ Size' = Size
    BY <2>1, ContextStays DEF Size
  <2>3. Swept' /\ SourceNoHash'
    BY <2>1, <2>2 DEF Sweeping, Swept, SourceNoHash, Spans
  <2>4. Resumes' = Resumes
    BY <2>1, <2>2 DEF Resumes, LineEnd, Code, Open
  <2> QED BY <1>1, <2>1, <2>2, <2>3, <2>4 DEF Sweeping
<1> QED BY <1>2, <1>3, <1>4, <1>5, <1>6, <1>7, <1>8, <1>9, <1>10, <1>11, <1>12 DEF Next, Finished

\* Of a source that is tokenised, each character of the program is in a
\* token, and a token holds nothing else, whatever comments, strings and
\* characters the source has.
THEOREM NoneSwallowed == NoHash => (Spec => []NothingSwallowed)
<1>1. NoHash /\ Init => Sweeping
  BY InitSweeping
<1>2. Sweeping /\ [Next]_vars => Sweeping'
  BY NextSweeps
<1>3. Sweeping => NothingSwallowed
  <2> SUFFICES ASSUME Sweeping, state = "done" PROVE NothingSwallowed
    BY DEF NothingSwallowed
  <2>1. pos = Size + 1 /\ Swept /\ Size \in Nat
    BY Characters DEF Sweeping, Typed
  <2>2. Significant \subseteq 1 .. pos - 1
    <3>1. pos - 1 = Size
      BY <2>1
    <3> QED BY <3>1 DEF Significant
  <2>3. \A p \in Significant : p \in Spans
    BY <2>1, <2>2 DEF Swept
  <2>4. \A p \in Spans : p \in Significant
    BY <2>1 DEF Swept
  <2>5. Spans = Significant
    BY <2>3, <2>4
  <2> QED BY <2>5 DEF NothingSwallowed
<1> QED BY <1>1, <1>2, <1>3, PTL DEF Spec

\* Nor does the assertion of advance() fail for such a source, that there is
\* a character to consume.
THEOREM NeverAborts == NoHash => (Spec => [](state # "abort"))
<1>1. NoHash /\ Init => Sweeping
  BY InitSweeping
<1>2. Sweeping /\ [Next]_vars => Sweeping'
  BY NextSweeps
<1>3. Sweeping => state # "abort"
  BY DEF Sweeping
<1> QED BY <1>1, <1>2, <1>3, PTL DEF Spec

(***************************************************************************)
(* The classes of the tokens, and where they end, of every number that is  *)
(* none of the malformed.  Character literals in sources with no character *)
(* outside ASCII beside a tick, since such a one is refused (README,       *)
(* divergences).                                                           *)
(***************************************************************************)
AsciiTicks == \A A \in Alphabets : "tick" \in A => "lead" \notin A /\ "cont" \notin A

Holds(c) == \E p \in 1 .. Size : src[p] = c
SourceAsciiTicks == Holds("tick") => ~Holds("lead") /\ ~Holds("cont")

\* A token from p to q is as it should be.
Maximal(kind, p, q) ==
  Class(kind, p, q) /\ \A r \in q + 1 .. Size, k \in Plain : ~Class(k, p, r)
WellRead(t) ==
  /\ t.kind \in Plain /\ ~Malformed(t.first) => Maximal(t.kind, t.first, t.last)
  /\ peek(t.first) = "tick" => (t.kind = "char" <=> CharLiteral(t.first))
Forming == Typed /\ SourceAsciiTicks /\ \A i \in DOMAIN tokens : WellRead(tokens[i])

LEMMA SymbolIs ==
  ASSUME SourceOK, NEW p \in 1 .. Size, NEW q \in p .. Size
  PROVE  Symbol(p, q) <=> \/ q = p /\ src[p] \in Starts
                          \/ q = p + 1 /\ <<src[p], src[p + 1]>> \in Pairs
                          \/ q = p + 2 /\ src[p] = "." /\ src[p + 1] = "." /\ src[p + 2] = "."
<1> DEFINE s == SubSeq(src, p, q)
<1>1. Size \in Nat /\ p \in Nat /\ q \in Nat /\ p <= q /\ q <= Size
      /\ \A r \in p .. q : src[r] \in Chars
  BY Characters
<1>2. s \in Seq(Chars) /\ Len(s) = q - p + 1 /\ \A i \in 1 .. q - p + 1 : s[i] = src[p + i - 1]
  BY <1>1, SubSeqProperties
<1>3. Symbol(p, q) <=> s \in {<<c>> : c \in Starts} \cup Pairs \cup {<<".", ".", ".">>}
  BY DEF Symbol
<1> HIDE DEF s
<1>4. 1 \in 1 .. q - p + 1 /\ p + 1 - 1 = p /\ p + 2 - 1 = p + 1 /\ p + 3 - 1 = p + 2
  BY <1>1
<1>5. s[1] = src[p]
  BY <1>2, <1>4
<1>6. \A x \in Pairs : \E a, b : x = <<a, b>>
  BY DEF Pairs
<1>7. CASE q = p
  <2>1. Len(s) = 1
    BY <1>1, <1>2, <1>7
  <2>2. s = <<src[p]>>
    BY <1>2, <1>5, <2>1
  <2>3. s \notin Pairs /\ s # <<".", ".", ".">>
    <3>1. \A a, b : s # <<a, b>>
      BY <2>1
    <3>2. \A a, b, c : s # <<a, b, c>>
      BY <2>1
    <3> QED BY <1>6, <3>1, <3>2
  <2>4. s \in {<<c>> : c \in Starts} <=> src[p] \in Starts
    BY <2>2
  <2>5. q # p + 1 /\ q # p + 2
    BY <1>1, <1>7
  <2> QED BY <1>3, <1>7, <2>3, <2>4, <2>5
<1>8. CASE q = p + 1
  <2>1. Len(s) = 2 /\ 2 \in 1 .. q - p + 1
    BY <1>1, <1>2, <1>8
  <2>2. s[2] = src[p + 1]
    BY <1>2, <1>4, <2>1
  <2>3. s = <<src[p], src[p + 1]>>
    BY <1>2, <1>5, <2>1, <2>2
  <2>4. s \notin {<<c>> : c \in Starts} /\ s # <<".", ".", ".">>
    BY <2>1
  <2>5. q # p /\ q # p + 2
    BY <1>1, <1>8
  <2> QED BY <1>3, <1>8, <2>3, <2>4, <2>5
<1>9. CASE q = p + 2
  <2>1. Len(s) = 3 /\ 2 \in 1 .. q - p + 1 /\ 3 \in 1 .. q - p + 1
    BY <1>1, <1>2, <1>9
  <2>2. s[2] = src[p + 1] /\ s[3] = src[p + 2]
    BY <1>2, <1>4, <2>1
  <2>3. s = <<src[p], src[p + 1], src[p + 2]>>
    BY <1>2, <1>5, <2>1, <2>2
  <2>4. s \notin {<<c>> : c \in Starts}
    BY <2>1
  <2>5. s \notin Pairs
    <3>1. \A a, b : s # <<a, b>>
      BY <2>1
    <3> QED BY <1>6, <3>1
  <2>6. q # p /\ q # p + 1
    BY <1>1, <1>9
  <2> QED BY <1>3, <1>9, <2>3, <2>4, <2>5, <2>6
<1>10. CASE q \notin {p, p + 1, p + 2}
  <2>1. Len(s) \notin {1, 2, 3}
    BY <1>1, <1>2, <1>10
  <2>2. s \notin {<<c>> : c \in Starts} /\ s # <<".", ".", ".">>
    BY <2>1
  <2>3. s \notin Pairs
    <3>1. \A a, b : s # <<a, b>>
      BY <2>1
    <3> QED BY <1>6, <3>1
  <2> QED BY <1>3, <1>10, <2>2, <2>3
<1> QED BY <1>7, <1>8, <1>9, <1>10

\* The first character tells the class.
LEMMA ClassBegins ==
  ASSUME SourceOK, NEW p \in 1 .. Size, NEW q \in p .. Size, NEW kind \in Plain, Class(kind, p, q)
  PROVE  /\ src[p] \in Letters => kind = "ident"
         /\ src[p] \in Digits => kind \in {"int", "float"}
         /\ src[p] \in Starts => kind = "op"
<1>1. Size \in Nat /\ p \in Nat
  BY Characters
<1>2. Letters \cap Digits = {} /\ Letters \cap Starts = {} /\ Digits \cap Starts = {} /\ "0" \in Digits
  BY DEF Letters, Digits, Starts
<1>3. kind = "ident" => src[p] \in Letters
  BY DEF Class, Ident
<1>4. ASSUME kind = "int" PROVE src[p] \in Digits
  <2>1. Decimal(p, q) \/ Prefixed(p, q)
    BY <1>4 DEF Class
  <2>2. All(p, q, Digits) => src[p] \in Digits
    BY DEF All
  <2> QED BY <1>2, <2>1, <2>2 DEF Decimal, Prefixed
<1>5. ASSUME kind = "float" PROVE src[p] \in Digits
  <2>1. \A e : Fraction(p, e) => src[p] \in Digits
    <3>1. \A d : All(p, d - 1, Digits) /\ d \in p + 1 .. q => src[p] \in Digits
      BY <1>1 DEF All
    <3> SUFFICES ASSUME NEW e, Fraction(p, e) PROVE src[p] \in Digits
      OBVIOUS
    <3>2. PICK d \in p + 1 .. e - 1 : All(p, d - 1, Digits)
      BY DEF Fraction
    <3>3. d \in Int /\ p <= d - 1
      BY <1>1, <3>2 DEF All
    <3>4. p \in p .. d - 1
      BY <1>1, <3>3
    <3> QED BY <3>2, <3>4 DEF All
  <2>2. Float(p, q)
    BY <1>5 DEF Class
  <2> QED BY <2>1, <2>2 DEF Float
<1>6. ASSUME kind = "op" PROVE src[p] \in Starts
  <2>1. Symbol(p, q)
    BY <1>6 DEF Class
  <2>2. \A a, b : <<a, b>> \in Pairs => a \in Starts
    BY DEF Pairs, Starts
  <2>3. "." \in Starts
    BY DEF Starts
  <2> QED BY <2>1, <2>2, <2>3, SymbolIs
<1>7. kind \in {"ident", "int", "float", "op"}
  BY DEF Plain
<1> QED BY <1>2, <1>3, <1>4, <1>5, <1>6, <1>7

LEMMA IdentifierRead ==
  ASSUME SourceOK, pos \in 1 .. Size, src[pos] \in Letters
  PROVE  Maximal("ident", pos, Past(pos, Letters \cup Digits) - 1)
<1> DEFINE q == Past(pos, Letters \cup Digits)
<1>1. /\ Size \in Nat /\ q \in pos .. Size + 1 /\ peek(q) \notin Letters \cup Digits
      /\ \A r \in pos .. q - 1 : src[r] \in Letters \cup Digits
  <2>1. pos \in 1 .. Size + 1 /\ "end" \notin Letters \cup Digits /\ Size \in Nat
    BY NoEnd, Characters
  <2> QED BY <2>1, PastOK
<1> HIDE DEF q
<1>2. q # pos
  BY <1>1, Characters
<1>3. q \in Nat \ {0} /\ pos \in Nat /\ pos <= q - 1 /\ q <= Size + 1
  BY <1>1, <1>2
<1>4. Class("ident", pos, q - 1)
  BY <1>1, <1>3 DEF Class, Ident, All
<1>5. ASSUME NEW r \in (q - 1) + 1 .. Size, NEW kind \in Plain, Class(kind, pos, r) PROVE FALSE
  <2>1. q \in pos .. r /\ r \in pos .. Size /\ q \in 1 .. Size
    BY <1>1, <1>3, <1>5
  <2>2. kind = "ident"
    BY <1>5, <2>1, ClassBegins
  <2>3. src[q] \in Letters \cup Digits
    BY <1>5, <2>1, <2>2 DEF Class, Ident, All
  <2> QED BY <1>1, <2>1, <2>3, Characters
<1> QED BY <1>4, <1>5 DEF q, Maximal

LEMMA OperatorRead ==
  ASSUME SourceOK, pos \in 1 .. Size, src[pos] \in Starts
  PROVE  Maximal("op", pos, OperatorEnd - 1)
<1> DEFINE q == OperatorEnd
<1>1. Size \in Nat /\ pos \in Nat \ {0} /\ pos <= Size
  BY Characters
<1>2. \A k \in 1 .. 2 : peek(pos + k) # "end" => pos + k \in 1 .. Size /\ src[pos + k] = peek(pos + k)
  BY <1>1, Characters
<1>3. <<src[pos], peek(pos + 1)>> \in Pairs => pos + 1 \in 1 .. Size /\ src[pos + 1] = peek(pos + 1)
  <2>1. \A a, b : <<a, b>> \in Pairs => b # "end"
    BY DEF Pairs
  <2> QED BY <1>2, <2>1
<1>4. peek(pos + 2) = "." => pos + 2 \in 1 .. Size /\ src[pos + 2] = "."
  BY <1>2
<1>5. \A r \in pos .. Size, kind \in Plain : Class(kind, pos, r) => Symbol(pos, r)
  <2> SUFFICES ASSUME NEW r \in pos .. Size, NEW kind \in Plain, Class(kind, pos, r)
               PROVE  Symbol(pos, r)
    OBVIOUS
  <2>1. kind = "op"
    BY ClassBegins
  <2> QED BY <2>1 DEF Class
<1>6. \A r : Symbol(pos, r) => Class("op", pos, r)
  BY DEF Class
<1>7. SUFFICES q \in pos + 1 .. Size + 1 /\ Symbol(pos, q - 1) /\ \A r \in q .. Size : ~Symbol(pos, r)
  <2>1. \A r \in (q - 1) + 1 .. Size : r \in q .. Size /\ r \in pos .. Size
    <3> HIDE DEF q
    <3> QED BY <1>1, <1>7
  <2> QED BY <1>5, <1>6, <1>7, <2>1 DEF Maximal
<1>8. \A r \in pos .. Size : Symbol(pos, r) <=>
        \/ r = pos /\ src[pos] \in Starts
        \/ r = pos + 1 /\ <<src[pos], src[pos + 1]>> \in Pairs
        \/ r = pos + 2 /\ src[pos] = "." /\ src[pos + 1] = "." /\ src[pos + 2] = "."
  BY SymbolIs
<1>9. \A k \in 1 .. 2 : pos + k \in 1 .. Size => peek(pos + k) = src[pos + k]
  BY Characters
<1>10. CASE <<src[pos], peek(pos + 1)>> \notin Pairs
  <2>1. q = pos + 1
    BY <1>10 DEF OperatorEnd
  <2> HIDE DEF q
  <2>2. q - 1 = pos /\ q \in pos + 1 .. Size + 1 /\ \A r \in q .. Size : r \in pos .. Size /\ r # pos /\ pos + 1 \in 1 .. Size
    BY <1>1, <2>1
  <2>3. <<".", ".">> \in Pairs
    BY DEF Pairs
  <2>4. ASSUME NEW r \in q .. Size PROVE ~Symbol(pos, r)
    <3>1. r \in pos .. Size /\ r # pos /\ peek(pos + 1) = src[pos + 1]
      BY <1>9, <2>2
    <3> QED BY <1>8, <1>10, <2>3, <3>1
  <2> QED BY <1>1, <1>8, <2>2, <2>4
<1>11. CASE <<src[pos], peek(pos + 1)>> \in Pairs /\ src[pos] = "." /\ peek(pos + 2) = "."
  <2>1. q = pos + 3
    BY <1>11 DEF OperatorEnd
  <2> HIDE DEF q
  <2>2. peek(pos + 1) = "." \/ peek(pos + 1) = "="
    <3>1. \A b : <<".", b>> \in Pairs => b = "."
      BY DEF Pairs
    <3> QED BY <1>11, <3>1
  <2>3. peek(pos + 1) = "."
    <3>1. \A b : <<".", b>> \in Pairs => b = "."
      BY DEF Pairs
    <3> QED BY <1>11, <3>1
  <2>4. /\ q \in pos + 1 .. Size + 1 /\ q - 1 \in pos .. Size /\ q - 1 = pos + 2
        /\ \A r \in q .. Size : r \in pos .. Size /\ r \notin {pos, pos + 1, pos + 2}
    BY <1>1, <1>4, <1>11, <2>1
  <2> QED BY <1>3, <1>4, <1>8, <1>11, <2>3, <2>4
<1>12. CASE <<src[pos], peek(pos + 1)>> \in Pairs /\ ~(src[pos] = "." /\ peek(pos + 2) = ".")
  <2>1. q = pos + 2
    BY <1>12 DEF OperatorEnd
  <2> HIDE DEF q
  <2>2. q \in pos + 1 .. Size + 1 /\ q - 1 \in pos .. Size /\ q - 1 = pos + 1
    BY <1>1, <1>3, <1>12, <2>1
  <2>3. ASSUME NEW r \in q .. Size PROVE ~Symbol(pos, r)
    <3>1. r \in pos .. Size /\ r # pos /\ r # pos + 1 /\ pos + 2 \in 1 .. Size
      BY <1>1, <2>1
    <3> QED BY <1>8, <1>9, <1>12, <3>1
  <2> QED BY <1>3, <1>8, <1>12, <2>2, <2>3
<1> QED BY <1>10, <1>11, <1>12

(***************************************************************************)
(* Numbers: the digits, the fraction behind them, the exponent.            *)
(***************************************************************************)
DigitsEnd   == Past(pos, Digits)
HasFraction == peek(DigitsEnd) = "." /\ peek(DigitsEnd + 1) \in Digits
FractionEnd == IF HasFraction THEN Past(DigitsEnd + 1, Digits) ELSE DigitsEnd
SignLength(p) == IF peek(p + 1) \in {"+", "-"} THEN 2 ELSE 1
ExponentEnd == IF peek(FractionEnd) = "e" THEN Past(FractionEnd + SignLength(FractionEnd), Digits)
               ELSE FractionEnd

LEMMA NumberEndIs == NumberEnd.int = DigitsEnd /\ NumberEnd.all = ExponentEnd
  BY DEF NumberEnd, DigitsEnd, HasFraction, FractionEnd, SignLength, ExponentEnd

LEMMA DigitsRead ==
  ASSUME SourceOK, pos \in 1 .. Size, src[pos] \in Digits
  PROVE  /\ DigitsEnd \in pos + 1 .. Size + 1 /\ peek(DigitsEnd) \notin Digits
         /\ \A r \in pos .. DigitsEnd - 1 : src[r] \in Digits
<1>1. Size \in Nat /\ "end" \notin Digits /\ pos \in 1 .. Size + 1 /\ peek(pos) \in Digits
  BY Characters, NoEnd
<1>2. /\ DigitsEnd \in pos .. Size + 1 /\ peek(DigitsEnd) \notin Digits
      /\ \A r \in pos .. DigitsEnd - 1 : src[r] \in Digits
  BY <1>1, PastOK DEF DigitsEnd
<1>3. DigitsEnd # pos
  BY <1>1, <1>2
<1> QED BY <1>1, <1>2, <1>3

LEMMA FractionRead ==
  ASSUME SourceOK, pos \in 1 .. Size, src[pos] \in Digits, HasFraction
  PROVE  /\ DigitsEnd \in 1 .. Size /\ src[DigitsEnd] = "."
         /\ FractionEnd \in DigitsEnd + 2 .. Size + 1 /\ peek(FractionEnd) \notin Digits
         /\ \A r \in DigitsEnd + 1 .. FractionEnd - 1 : src[r] \in Digits
         /\ Fraction(pos, FractionEnd - 1)
<1>1. /\ DigitsEnd \in pos + 1 .. Size + 1 /\ Size \in Nat /\ pos \in Nat /\ "end" \notin Digits
      /\ \A r \in pos .. DigitsEnd - 1 : src[r] \in Digits
  BY DigitsRead, Characters, NoEnd
<1>2. DigitsEnd \in Nat \ {0} /\ DigitsEnd + 1 \in Nat \ {0}
  BY <1>1
<1>3. DigitsEnd \in 1 .. Size /\ src[DigitsEnd] = "."
  BY <1>2, Characters DEF HasFraction
<1>4. DigitsEnd + 1 \in 1 .. Size /\ src[DigitsEnd + 1] \in Digits /\ DigitsEnd + 1 \in 1 .. Size + 1
  <2>1. DigitsEnd + 1 \in 1 .. Size
    BY <1>1, <1>2, Characters DEF HasFraction
  <2> QED BY <1>1, <2>1, Characters DEF HasFraction
<1>5. /\ FractionEnd \in DigitsEnd + 1 .. Size + 1 /\ peek(FractionEnd) \notin Digits
      /\ \A r \in DigitsEnd + 1 .. FractionEnd - 1 : src[r] \in Digits
  BY <1>1, <1>4, PastOK DEF FractionEnd
<1>6. FractionEnd # DigitsEnd + 1
  BY <1>5 DEF HasFraction
<1>7. FractionEnd \in DigitsEnd + 2 .. Size + 1
  BY <1>1, <1>2, <1>5, <1>6
<1>8. Fraction(pos, FractionEnd - 1)
  <2>1. /\ DigitsEnd \in pos + 1 .. (FractionEnd - 1) - 1
        /\ pos <= DigitsEnd - 1 /\ DigitsEnd + 1 <= FractionEnd - 1
    BY <1>1, <1>7
  <2>2. All(pos, DigitsEnd - 1, Digits) /\ All(DigitsEnd + 1, FractionEnd - 1, Digits)
    BY <1>1, <1>5, <2>1 DEF All
  <2> QED BY <1>3, <2>1, <2>2 DEF Fraction
<1> QED BY <1>3, <1>5, <1>7, <1>8

\* Where there is a fraction, it is the one of the lexer or begins it.
LEMMA FractionsAre ==
  ASSUME SourceOK, pos \in 1 .. Size, src[pos] \in Digits,
         NEW r \in Nat, r <= Size, Fraction(pos, r)
  PROVE  HasFraction /\ r \in DigitsEnd + 1 .. FractionEnd - 1
<1>1. /\ DigitsEnd \in pos + 1 .. Size + 1 /\ Size \in Nat /\ pos \in Nat \ {0}
      /\ peek(DigitsEnd) \notin Digits /\ \A q \in pos .. DigitsEnd - 1 : src[q] \in Digits
      /\ \A q \in 1 .. Size : peek(q) = src[q]
      /\ "." \notin Digits
  BY DigitsRead, Characters DEF Digits
<1>2. PICK d \in pos + 1 .. r - 1 : All(pos, d - 1, Digits) /\ src[d] = "." /\ All(d + 1, r, Digits)
  BY DEF Fraction
<1>3. d \in 1 .. Size /\ d + 1 \in d + 1 .. r /\ d + 1 \in 1 .. Size
  BY <1>1, <1>2
<1>4. ~(d < DigitsEnd)
  <2>1. d < DigitsEnd => d \in pos .. DigitsEnd - 1
    BY <1>1, <1>2
  <2> QED BY <1>1, <1>2, <2>1
<1>5. ~(DigitsEnd < d)
  <2> SUFFICES ASSUME DigitsEnd < d PROVE FALSE
    OBVIOUS
  <2>1. DigitsEnd \in pos .. d - 1 /\ DigitsEnd \in 1 .. Size
    BY <1>1, <1>2, <1>3
  <2>2. src[DigitsEnd] \in Digits
    BY <1>2, <2>1 DEF All
  <2> QED BY <1>1, <2>1, <2>2
<1>6. d = DigitsEnd
  BY <1>1, <1>3, <1>4, <1>5
<1>7. HasFraction
  <2>1. src[d + 1] \in Digits
    BY <1>2, <1>3 DEF All
  <2> QED BY <1>1, <1>2, <1>3, <1>6, <2>1 DEF HasFraction
<1>8. FractionEnd \in DigitsEnd + 2 .. Size + 1 /\ peek(FractionEnd) \notin Digits
  BY <1>7, FractionRead
<1>9. ~(r > FractionEnd - 1)
  <2> SUFFICES ASSUME r > FractionEnd - 1 PROVE FALSE
    OBVIOUS
  <2>1. FractionEnd \in d + 1 .. r /\ FractionEnd \in 1 .. Size
    BY <1>1, <1>3, <1>6, <1>8
  <2>2. src[FractionEnd] \in Digits
    BY <1>2, <2>1 DEF All
  <2> QED BY <1>1, <1>8, <2>1, <2>2
<1>10. r \in DigitsEnd + 1 .. FractionEnd - 1
  BY <1>1, <1>3, <1>6, <1>8, <1>9
<1> QED BY <1>7, <1>10

\* Where there is an exponent, its sign is the one that the lexer takes.
LEMMA ExponentsAre ==
  ASSUME SourceOK, NEW p \in 1 .. Size, NEW r \in p .. Size, Exponent(p, r)
  PROVE  src[p] = "e" /\ All(p + SignLength(p), r, Digits)
<1>1. PICK s \in {1, 2} : /\ src[p] = "e" /\ (s = 2 => peek(p + 1) \in {"+", "-"})
                          /\ All(p + s, r, Digits)
  BY DEF Exponent
<1>2. Size \in Nat /\ p \in Nat /\ r \in Nat
  BY Characters
<1>3. CASE s = 2
  BY <1>1, <1>3 DEF SignLength
<1>4. CASE s = 1
  <2>1. p + 1 \in p + 1 .. r /\ p + 1 \in 1 .. Size
    BY <1>1, <1>2, <1>4 DEF All
  <2>2. peek(p + 1) \in Digits
    BY <1>1, <1>4, <2>1, Characters DEF All
  <2>3. peek(p + 1) \notin {"+", "-"}
    BY <2>2 DEF Digits
  <2>4. SignLength(p) = s
    BY <1>4, <2>3 DEF SignLength
  <2> QED BY <1>1, <2>4
<1> QED BY <1>3, <1>4

\* Where there is a number.
LEMMA FloatsAre ==
  ASSUME SourceOK, pos \in 1 .. Size, src[pos] \in Digits, NEW r \in pos .. Size, Float(pos, r)
  PROVE  /\ HasFraction
         /\ r >= FractionEnd => /\ FractionEnd \in 1 .. Size /\ src[FractionEnd] = "e"
                                /\ All(FractionEnd + SignLength(FractionEnd), r, Digits)
<1>1. Size \in Nat /\ pos \in Nat \ {0} /\ r \in Nat /\ r <= Size
  BY Characters
<1>2. CASE Fraction(pos, r)
  <2>1. HasFraction /\ r \in DigitsEnd + 1 .. FractionEnd - 1
    BY <1>1, <1>2, FractionsAre
  <2>2. DigitsEnd \in Nat /\ FractionEnd \in Nat
    BY <1>1, <2>1, DigitsRead, FractionRead
  <2>3. ~(r >= FractionEnd)
    BY <2>1, <2>2
  <2> QED BY <2>1, <2>3
<1>3. CASE ~Fraction(pos, r)
  <2>1. PICK e \in pos .. r : Fraction(pos, e - 1) /\ Exponent(e, r)
    BY <1>3 DEF Float
  <2>2. e - 1 \in Nat /\ e - 1 <= Size /\ e \in 1 .. Size /\ r \in e .. Size
    BY <1>1, <2>1
  <2>3. HasFraction /\ e - 1 \in DigitsEnd + 1 .. FractionEnd - 1
    BY <2>1, <2>2, FractionsAre
  <2>4. src[e] = "e" /\ All(e + SignLength(e), r, Digits)
    BY <2>1, <2>2, ExponentsAre
  <2>5. /\ DigitsEnd \in 1 .. Size /\ FractionEnd \in DigitsEnd + 2 .. Size + 1
        /\ \A q \in DigitsEnd + 1 .. FractionEnd - 1 : src[q] \in Digits
    BY <2>3, FractionRead
  <2>6. ~(e < FractionEnd)
    <3>1. e < FractionEnd => e \in DigitsEnd + 1 .. FractionEnd - 1
      BY <1>1, <2>2, <2>3, <2>5
    <3>2. "e" \notin Digits
      BY DEF Digits
    <3> QED BY <2>4, <2>5, <3>1, <3>2
  <2>7. e = FractionEnd
    BY <1>1, <2>2, <2>3, <2>5, <2>6
  <2> QED BY <2>2, <2>3, <2>4, <2>7
<1> QED BY <1>2, <1>3

\* A number without a prefix, that is none of the malformed.
LEMMA NumberRead ==
  ASSUME SourceOK, pos \in 1 .. Size, src[pos] \in Digits, ~Malformed(pos),
         ~(src[pos] = "0" /\ peek(pos + 1) \in {"x", "b", "o"})
  PROVE  Maximal(IF NumberEnd.all > NumberEnd.int THEN "float" ELSE "int", pos, NumberEnd.all - 1)
<1>1. /\ DigitsEnd \in pos + 1 .. Size + 1 /\ Size \in Nat /\ pos \in Nat \ {0}
      /\ peek(DigitsEnd) \notin Digits /\ \A q \in pos .. DigitsEnd - 1 : src[q] \in Digits
      /\ \A q \in 1 .. Size : peek(q) = src[q]
  BY DigitsRead, Characters
<1>2. "." \notin Digits /\ "e" \notin Digits /\ "end" \notin Digits
  BY NoEnd DEF Digits
<1>3. NumberEnd.int = DigitsEnd /\ NumberEnd.all = ExponentEnd
  BY NumberEndIs
<1>4. \A r \in pos .. Size : ~Prefixed(pos, r)
  <2> SUFFICES ASSUME NEW r \in pos .. Size, Prefixed(pos, r) PROVE FALSE
    OBVIOUS
  <2>1. src[pos] = "0" /\ src[pos + 1] \in {"x", "b", "o"} /\ r > pos + 1
    BY DEF Prefixed
  <2>2. pos + 1 \in 1 .. Size
    BY <1>1, <2>1
  <2> QED BY <1>1, <2>1, <2>2
\* What a longer token would be.
<1>5. ASSUME NEW r \in DigitsEnd .. Size, NEW kind \in Plain, Class(kind, pos, r)
      PROVE  Float(pos, r)
  <2>1. r \in pos .. Size /\ DigitsEnd \in pos .. r /\ DigitsEnd \in 1 .. Size
    BY <1>1
  <2>2. kind \in {"int", "float"}
    BY <1>5, <2>1, ClassBegins
  <2>3. ~Decimal(pos, r)
    <3>1. ~All(pos, r, Digits)
      BY <1>1, <2>1 DEF All
    <3> QED BY <3>1 DEF Decimal
  <2> QED BY <1>4, <1>5, <2>1, <2>2, <2>3 DEF Class
<1>6. CASE ~HasFraction
  <2>1. peek(DigitsEnd) # "e"
    <3>1. DigitsEnd - 1 \in pos .. Size /\ (DigitsEnd - 1) + 1 = DigitsEnd /\ pos <= DigitsEnd - 1
      BY <1>1
    <3>2. All(pos, DigitsEnd - 1, Digits)
      BY <1>1, <3>1 DEF All
    <3> QED BY <3>1, <3>2 DEF Malformed
  <2>2. ExponentEnd = DigitsEnd /\ ~(DigitsEnd > DigitsEnd)
    BY <1>1, <1>6, <2>1 DEF ExponentEnd, FractionEnd
  <2>3. Decimal(pos, DigitsEnd - 1)
    <3>1. pos <= DigitsEnd - 1 /\ All(pos, DigitsEnd - 1, Digits)
      BY <1>1 DEF All
    <3>2. ASSUME src[pos] = "0", pos # DigitsEnd - 1 PROVE FALSE
      <4>1. pos + 1 \in pos .. DigitsEnd - 1 /\ pos + 1 \in 1 .. Size
        BY <1>1, <3>2
      <4>2. peek(pos + 1) \in Digits
        BY <1>1, <4>1
      <4>3. PICK q \in pos + 1 .. Size : Fraction(pos, q)
        BY <3>2, <4>2 DEF Malformed
      <4>4. q \in Nat /\ q <= Size
        BY <1>1
      <4> QED BY <1>6, <4>3, <4>4, FractionsAre
    <3> QED BY <3>1, <3>2 DEF Decimal
  <2>4. Class("int", pos, DigitsEnd - 1)
    BY <2>3 DEF Class
  <2>5. ASSUME NEW r \in (DigitsEnd - 1) + 1 .. Size, NEW kind \in Plain, Class(kind, pos, r)
        PROVE  FALSE
    <3>1. r \in DigitsEnd .. Size /\ r \in pos .. Size
      BY <1>1
    <3>2. Float(pos, r)
      BY <1>5, <2>5, <3>1
    <3> QED BY <1>6, <3>1, <3>2, FloatsAre
  <2> QED BY <1>3, <2>2, <2>4, <2>5 DEF Maximal
<1>7. CASE HasFraction
  <2>1. /\ FractionEnd \in DigitsEnd + 2 .. Size + 1 /\ Fraction(pos, FractionEnd - 1)
        /\ DigitsEnd \in 1 .. Size /\ FractionEnd \in Nat \ {0}
    <3>1. /\ FractionEnd \in DigitsEnd + 2 .. Size + 1 /\ Fraction(pos, FractionEnd - 1)
          /\ DigitsEnd \in 1 .. Size
      BY <1>7, FractionRead
    <3> QED BY <1>1, <3>1
  <2>2. CASE peek(FractionEnd) # "e"
    <3>1. ExponentEnd = FractionEnd /\ FractionEnd > DigitsEnd
      BY <1>1, <2>1, <2>2 DEF ExponentEnd
    <3>2. Class("float", pos, FractionEnd - 1)
      BY <2>1 DEF Class, Float
    <3>3. ASSUME NEW r \in (FractionEnd - 1) + 1 .. Size, NEW kind \in Plain, Class(kind, pos, r)
          PROVE  FALSE
      <4>1. r \in DigitsEnd .. Size /\ r \in pos .. Size /\ r >= FractionEnd
        BY <1>1, <2>1
      <4>2. Float(pos, r)
        BY <1>5, <3>3, <4>1
      <4>3. FractionEnd \in 1 .. Size /\ src[FractionEnd] = "e"
        BY <4>1, <4>2, FloatsAre
      <4> QED BY <1>1, <2>2, <4>3
    <3> QED BY <1>3, <3>1, <3>2, <3>3 DEF Maximal
  <2>3. CASE peek(FractionEnd) = "e"
    <3> DEFINE from == FractionEnd + SignLength(FractionEnd)
               end  == Past(from, Digits)
    <3>1. FractionEnd \in 1 .. Size /\ src[FractionEnd] = "e" /\ (FractionEnd - 1) + 1 = FractionEnd
      <4>1. FractionEnd \in 1 .. Size
        BY <1>2, <2>1, <2>3, Characters
      <4> QED BY <1>1, <2>1, <2>3, <4>1
    <3>2. PICK r \in FractionEnd .. Size : Exponent(FractionEnd, r)
      <4>1. FractionEnd - 1 \in pos .. Size
        BY <1>1, <2>1
      <4>2. PICK r \in (FractionEnd - 1) + 1 .. Size : Exponent((FractionEnd - 1) + 1, r)
        BY <2>1, <2>3, <3>1, <4>1 DEF Malformed
      <4> QED BY <3>1, <4>2
    <3>3. All(from, r, Digits)
      BY <3>1, <3>2, ExponentsAre
    <3>4. SignLength(FractionEnd) \in 1 .. 2 /\ from \in Nat /\ from > FractionEnd
      <4>1. SignLength(FractionEnd) \in {1, 2}
        BY DEF SignLength
      <4> QED BY <2>1, <4>1
    <3> HIDE DEF from
    <3>5. from \in 1 .. Size /\ src[from] \in Digits /\ from \in 1 .. Size + 1
      BY <1>1, <3>1, <3>3, <3>4 DEF All
    <3>6. /\ end \in from .. Size + 1 /\ peek(end) \notin Digits
          /\ \A q \in from .. end - 1 : src[q] \in Digits
      BY <1>2, <3>5, PastOK
    <3>7. ExponentEnd = end
      BY <2>3 DEF ExponentEnd, from
    <3> HIDE DEF end
    <3>8. end # from /\ end > DigitsEnd /\ from <= end - 1 /\ end - 1 <= Size
      <4>1. end # from
        BY <1>1, <3>5, <3>6
      <4> QED BY <1>1, <2>1, <3>4, <3>6, <4>1
    <3>9. Exponent(FractionEnd, end - 1)
      <4>1. All(from, end - 1, Digits)
        BY <3>6, <3>8 DEF All
      <4>2. SignLength(FractionEnd) = 2 => peek(FractionEnd + 1) \in {"+", "-"}
        BY DEF SignLength
      <4>3. SignLength(FractionEnd) \in {1, 2}
        BY DEF SignLength
      <4> QED BY <3>1, <4>1, <4>2, <4>3 DEF Exponent, from
    <3>10. Class("float", pos, end - 1)
      <4>1. FractionEnd \in pos .. end - 1
        BY <1>1, <2>1, <3>4, <3>6, <3>8
      <4>2. Float(pos, end - 1)
        BY <2>1, <3>9, <4>1 DEF Float
      <4> QED BY <4>2 DEF Class
    <3>11. ASSUME NEW q \in (end - 1) + 1 .. Size, NEW kind \in Plain, Class(kind, pos, q)
           PROVE  FALSE
      <4>1. /\ q \in DigitsEnd .. Size /\ q \in pos .. Size /\ q >= FractionEnd
            /\ end \in from .. q /\ end \in 1 .. Size
        BY <1>1, <2>1, <3>4, <3>6, <3>8
      <4>2. Float(pos, q)
        BY <1>5, <3>11, <4>1
      <4>3. All(from, q, Digits)
        BY <4>1, <4>2, FloatsAre DEF from
      <4> QED BY <1>1, <3>6, <4>1, <4>3 DEF All
    <3> QED BY <1>3, <3>7, <3>8, <3>10, <3>11 DEF Maximal
  <2> QED BY <2>2, <2>3
<1> QED BY <1>6, <1>7

\* A number with a prefix, that is none of the malformed.
LEMMA RadixRead ==
  ASSUME SourceOK, pos \in 1 .. Size, src[pos] = "0", ~Malformed(pos), NEW S,
         \/ peek(pos + 1) = "x" /\ S = HexDigits
         \/ peek(pos + 1) \in {"b", "o"} /\ S = Digits
  PROVE  Maximal("int", pos, Past(pos + 2, S) - 1)
<1> DEFINE q == Past(pos + 2, S)
<1>1. /\ Size \in Nat /\ pos \in Nat \ {0} /\ "end" \notin S /\ src[pos] \in Digits
      /\ \A p \in 1 .. Size : peek(p) = src[p]
  BY Characters, NoEnd DEF Digits
<1>2. pos + 1 \in 1 .. Size /\ src[pos + 1] = peek(pos + 1)
  <2>1. peek(pos + 1) # "end" /\ pos + 1 \in Nat \ {0}
    BY <1>1
  <2> QED BY <2>1, Characters
<1>3. src[pos + 1] \notin Digits /\ src[pos + 1] # "."
  BY <1>2 DEF Digits
<1>4. \A r : Prefixed(pos, r) <=> r > pos + 1 /\ All(pos + 2, r, S)
  BY <1>2 DEF Prefixed
<1>5. PICK r \in pos + 1 .. Size : Prefixed(pos, r)
  BY <1>2 DEF Malformed
<1>6. pos + 2 \in 1 .. Size /\ src[pos + 2] \in S /\ pos + 2 \in 1 .. Size + 1
  BY <1>1, <1>4, <1>5 DEF All
<1>7. /\ q \in pos + 2 .. Size + 1 /\ peek(q) \notin S
      /\ \A p \in pos + 2 .. q - 1 : src[p] \in S
  BY <1>1, <1>6, PastOK
<1> HIDE DEF q
<1>8. q # pos + 2 /\ q - 1 > pos + 1 /\ pos + 2 <= q - 1
  <2>1. q # pos + 2
    BY <1>1, <1>6, <1>7
  <2> QED BY <1>1, <1>7, <2>1
<1>9. Class("int", pos, q - 1)
  BY <1>4, <1>7, <1>8 DEF Class, All
<1>10. ASSUME NEW p \in (q - 1) + 1 .. Size, NEW kind \in Plain, Class(kind, pos, p) PROVE FALSE
  <2>1. p \in pos .. Size /\ q \in pos + 2 .. p /\ q \in 1 .. Size /\ pos + 1 \in pos .. p
    BY <1>1, <1>7
  <2>2. kind \in {"int", "float"}
    BY <1>1, <1>10, <2>1, ClassBegins
  <2>3. ~Decimal(pos, p)
    BY <1>3, <2>1 DEF Decimal, All
  <2>4. ~Prefixed(pos, p)
    BY <1>1, <1>4, <1>7, <2>1 DEF All
  <2>5. \A r2 : ~Fraction(pos, r2)
    <3> SUFFICES ASSUME NEW r2, NEW d \in pos + 1 .. r2 - 1, All(pos, d - 1, Digits), src[d] = "."
                 PROVE  FALSE
      BY DEF Fraction
    <3>1. d = pos + 1 \/ pos + 1 \in pos .. d - 1
      BY <1>1
    <3> QED BY <1>3, <3>1 DEF All
  <2> QED BY <1>10, <2>2, <2>3, <2>4, <2>5 DEF Class, Float
<1> QED BY <1>9, <1>10 DEF q, Maximal

\* A tick opens a character exactly where the grammar has one.
LEMMA CharRead ==
  ASSUME Typed, SourceAsciiTicks, lexChar
  PROVE  \E kind, q : /\ q \in pos + 1 .. Size + 1 /\ src[pos] = "tick" /\ kind \in {"char", "error"}
                      /\ Token(kind, q)
                      /\ kind = "char" <=> CharLiteral(pos)
<1>1. /\ pos \in 1 .. Size /\ src[pos] = "tick" /\ Size \in Nat /\ pos \in Nat
      /\ \A p \in 1 .. Size : peek(p) = src[p]
      /\ \A p \in Nat : p > Size => peek(p) = "end"
  BY AtCharacter, Characters DEF lexChar, Typed
<1>2. \A p \in 1 .. Size : src[p] \notin {"lead", "cont"}
  <2>1. Holds("tick")
    BY <1>1 DEF Holds
  <2> QED BY <2>1 DEF SourceAsciiTicks, Holds
<1>3. CharLiteral(pos) <=>
        \E q \in pos + 1 .. Size - 1 :
          src[q + 1] = "tick" /\ q = IF src[pos + 1] = "esc" THEN pos + 2 ELSE pos + 1
  <2>1. \A p \in pos + 1 .. Size, q \in pos + 1 .. Size : CodePoint(p, q) <=> p = q
    <3>1. \A p \in pos + 1 .. Size : p \in 1 .. Size
      BY <1>1
    <3> QED BY <1>2, <3>1 DEF CodePoint
  <2>2. ASSUME NEW q \in pos + 1 .. Size - 1
        PROVE  (IF src[pos + 1] = "esc" THEN q > pos + 1 /\ CodePoint(pos + 2, q)
                ELSE CodePoint(pos + 1, q))
               <=> q = IF src[pos + 1] = "esc" THEN pos + 2 ELSE pos + 1
    <3>1. q \in pos + 1 .. Size /\ pos + 1 \in pos + 1 .. Size
          /\ (q > pos + 1 => pos + 2 \in pos + 1 .. Size)
      BY <1>1
    <3>2. CodePoint(pos + 1, q) <=> pos + 1 = q
      BY <2>1, <3>1
    <3>3. q > pos + 1 => (CodePoint(pos + 2, q) <=> pos + 2 = q)
      BY <2>1, <3>1
    <3>4. pos + 2 = q => q > pos + 1
      BY <1>1
    <3> QED BY <3>2, <3>3, <3>4
  <2> QED BY <2>2 DEF CharLiteral
<1> DEFINE char  == IF peek(pos + 1) = "esc" THEN pos + 2 ELSE pos + 1
           close == IF char <= Size THEN char + 1 ELSE char
           over  == Past(close, Chars \ {"tick", "nl"})
<1>4. CASE pos + 1 > Size
  <2>1. peek(pos + 1) = "end" /\ pos + 1 \in Nat
    BY <1>1, <1>4
  <2>2. Token("error", pos + 1)
    <3>1. char = pos + 1 /\ close = pos + 1
      BY <1>1, <1>4, <2>1
    <3>2. peek(close) # "tick"
      BY <2>1, <3>1
    <3> QED BY <1>4, <3>2 DEF lexChar
  <2>3. pos + 1 .. Size - 1 = {}
    BY <1>1, <1>4
  <2>4. ~CharLiteral(pos)
    BY <1>3, <2>3
  <2> QED BY <1>1, <2>2, <2>4
<1>5. CASE ~(pos + 1 > Size)
  <2>1. pos + 1 \in 1 .. Size /\ peek(pos + 1) = src[pos + 1]
    BY <1>1, <1>5
  <2>2. /\ close \in pos + 2 .. Size + 1 /\ char \in {pos + 1, pos + 2}
        /\ char = IF src[pos + 1] = "esc" THEN pos + 2 ELSE pos + 1
        /\ close = IF char <= Size THEN char + 1 ELSE char
    <3>1. char = IF src[pos + 1] = "esc" THEN pos + 2 ELSE pos + 1
      BY <2>1
    <3> HIDE DEF char
    <3> QED BY <1>1, <2>1, <3>1
  <2> HIDE DEF char
  <2>3. CharLiteral(pos) <=> peek(close) = "tick"
    <3>1. CharLiteral(pos) <=> char <= Size - 1 /\ src[char + 1] = "tick"
      BY <1>1, <1>3, <2>2
    <3>2. CASE char <= Size - 1
      <4>1. close = char + 1 /\ close \in 1 .. Size
        BY <1>1, <2>2, <3>2
      <4> QED BY <1>1, <3>1, <3>2, <4>1
    <3>3. CASE ~(char <= Size - 1)
      <4>1. close > Size /\ close \in Nat
        BY <1>1, <2>2, <3>3
      <4>2. peek(close) = "end"
        BY <1>1, <4>1
      <4> QED BY <3>1, <3>3, <4>2
    <3> QED BY <3>2, <3>3
  <2>4. CASE peek(close) = "tick"
    <3>1. Token("char", close + 1)
      BY <1>5, <2>4 DEF lexChar, char
    <3>2. close + 1 \in pos + 1 .. Size + 1
      <4> HIDE DEF close
      <4>1. ~(close > Size)
        BY <1>1, <2>2, <2>4
      <4> QED BY <1>1, <2>2, <4>1
    <3> QED BY <1>1, <2>3, <2>4, <3>1, <3>2
  <2>5. CASE peek(close) # "tick"
    <3> DEFINE q == IF peek(over) = "tick" THEN over + 1 ELSE over
    <3>1. Token("error", q)
      BY <1>5, <2>5 DEF lexChar, char
    <3>2. over \in close .. Size + 1
      <4>1. close \in 1 .. Size + 1 /\ "end" \notin Chars \ {"tick", "nl"} /\ SourceOK
        BY <1>1, <2>2, Characters DEF Typed
      <4> HIDE DEF close
      <4> QED BY <4>1, PastOK
    <3>3. q \in pos + 1 .. Size + 1
      <4> HIDE DEF close, over
      <4>1. peek(over) = "tick" => ~(over > Size)
        BY <1>1, <2>2, <3>2
      <4> QED BY <1>1, <2>2, <3>2, <4>1
    <3> HIDE DEF q
    <3> QED BY <1>1, <2>3, <2>5, <3>1, <3>3
  <2> QED BY <2>4, <2>5
<1> QED BY <1>4, <1>5

(***************************************************************************)
(* What a token is depends on the source alone, which stays as it is.      *)
(***************************************************************************)
LEMMA ReadStays ==
  ASSUME src' = src
  PROVE  /\ SourceAsciiTicks' = SourceAsciiTicks
         /\ (\A i \in DOMAIN tokens' : WellRead(tokens'[i])) =>
              (\A i \in DOMAIN tokens : WellRead(tokens[i]))'
<1> DEFINE AllOf(s, p, q, S) == p <= q /\ \A r \in p .. q : s[r] \in S
           FractionOf(s, p, q) == \E d \in p + 1 .. q - 1 :
             AllOf(s, p, d - 1, Digits) /\ s[d] = "." /\ AllOf(s, d + 1, q, Digits)
           PeekOf(s, p) == IF p <= Len(s) THEN s[p] ELSE "end"
           ExponentOf(s, p, q) == \E k \in {1, 2} :
             /\ s[p] = "e" /\ (k = 2 => PeekOf(s, p + 1) \in {"+", "-"})
             /\ AllOf(s, p + k, q, Digits)
           IdentOf(s, p, q) == s[p] \in Letters /\ AllOf(s, p, q, Letters \cup Digits)
           PrefixedOf(s, p, q) ==
             /\ q > p + 1 /\ s[p] = "0"
             /\ \/ s[p + 1] = "x" /\ AllOf(s, p + 2, q, HexDigits)
                \/ s[p + 1] \in {"b", "o"} /\ AllOf(s, p + 2, q, Digits)
           IntOf(s, p, q) ==
             \/ AllOf(s, p, q, Digits) /\ (s[p] = "0" => p = q)
             \/ PrefixedOf(s, p, q)
           MalformedOf(s, p) ==
             \/ /\ s[p] = "0" /\ PeekOf(s, p + 1) \in Digits
                /\ \A q \in p + 1 .. Len(s) : ~FractionOf(s, p, q)
             \/ /\ s[p] = "0" /\ PeekOf(s, p + 1) \in {"x", "b", "o"}
                /\ \A q \in p + 1 .. Len(s) : ~PrefixedOf(s, p, q)
             \/ \E q \in p .. Len(s) : AllOf(s, p, q, Digits) /\ PeekOf(s, q + 1) = "e"
             \/ \E q \in p .. Len(s) : /\ FractionOf(s, p, q) /\ PeekOf(s, q + 1) = "e"
                                       /\ \A r \in q + 1 .. Len(s) : ~ExponentOf(s, q + 1, r)
           FloatOf(s, p, q) == FractionOf(s, p, q)
             \/ \E e \in p .. q : FractionOf(s, p, e - 1) /\ ExponentOf(s, e, q)
           SymbolOf(s, p, q) == SubSeq(s, p, q) \in
             {<<c>> : c \in Starts} \cup Pairs \cup {<<".", ".", ".">>}
           ClassOf(s, kind, p, q) == CASE kind = "ident" -> IdentOf(s, p, q)
                                       [] kind = "int"   -> IntOf(s, p, q)
                                       [] kind = "float" -> FloatOf(s, p, q)
                                       [] kind = "op"    -> SymbolOf(s, p, q)
           CodePointOf(s, p, q) == \/ p = q /\ s[p] \notin {"lead", "cont"}
                                   \/ q = p + 1 /\ s[p] = "lead" /\ s[q] = "cont"
           LiteralOf(s, p) == \E q \in p + 1 .. Len(s) - 1 :
             /\ s[q + 1] = "tick"
             /\ IF s[p + 1] = "esc" THEN q > p + 1 /\ CodePointOf(s, p + 2, q)
                ELSE CodePointOf(s, p + 1, q)
           ReadOf(s, t) ==
             /\ t.kind \in Plain /\ ~MalformedOf(s, t.first) =>
                  /\ ClassOf(s, t.kind, t.first, t.last)
                  /\ \A r \in t.last + 1 .. Len(s), k \in Plain : ~ClassOf(s, k, t.first, r)
             /\ PeekOf(s, t.first) = "tick" => (t.kind = "char" <=> LiteralOf(s, t.first))
           AsciiOf(s) == LET holds(c) == \E p \in 1 .. Len(s) : s[p] = c
                         IN  holds("tick") => ~holds("lead") /\ ~holds("cont")
<1>1. \A t : WellRead(t) <=> ReadOf(src, t)
  BY DEF WellRead, Maximal, Class, Ident, Decimal, Prefixed, Float, Fraction, Exponent, Symbol,
         All, Malformed, CharLiteral, CodePoint, peek, Size
<1>2. (\A i \in DOMAIN tokens : WellRead(tokens[i]))' <=> \A i \in DOMAIN tokens' : ReadOf(src', tokens'[i])
  BY DEF WellRead, Maximal, Class, Ident, Decimal, Prefixed, Float, Fraction, Exponent, Symbol,
         All, Malformed, CharLiteral, CodePoint, peek, Size
<1>3. SourceAsciiTicks = AsciiOf(src) /\ SourceAsciiTicks' = AsciiOf(src')
  BY DEF SourceAsciiTicks, Holds, Size
<1> HIDE DEF ReadOf, AsciiOf
<1> QED BY <1>1, <1>2, <1>3

LEMMA FormingStays ==
  ASSUME Forming, Typed', src' = src, tokens' = tokens
  PROVE  Forming'
<1>1. \A i \in DOMAIN tokens' : WellRead(tokens'[i])
  BY DEF Forming
<1>2. (\A i \in DOMAIN tokens : WellRead(tokens[i]))' /\ SourceAsciiTicks'
  BY <1>1, ReadStays DEF Forming
<1> QED BY <1>2 DEF Forming

LEMMA FormingToken ==
  ASSUME Forming, Typed', src' = src, NEW t, tokens' = Append(tokens, t), WellRead(t)
  PROVE  Forming'
<1>1. tokens \in Seq(TokenRecord)
  BY DEF Forming, Typed
<1>2. ASSUME NEW i \in DOMAIN tokens' PROVE WellRead(tokens'[i])
  <2>1. \/ i \in DOMAIN tokens /\ tokens'[i] = tokens[i]
        \/ tokens'[i] = t
    BY <1>1
  <2> QED BY <2>1 DEF Forming
<1>3. (\A i \in DOMAIN tokens : WellRead(tokens[i]))' /\ SourceAsciiTicks'
  BY <1>2, ReadStays DEF Forming
<1> QED BY <1>3 DEF Forming

\* A token that Token() makes, of a character, or of a class.
LEMMA FormingTokens ==
  ASSUME Forming, Typed', NEW kind, NEW q, Token(kind, q),
         kind \in Plain /\ ~Malformed(pos) => Maximal(kind, pos, q - 1),
         peek(pos) = "tick" => (kind = "char" <=> CharLiteral(pos))
  PROVE  Forming'
<1> DEFINE t == makeToken(kind, q)
<1>1. src' = src /\ tokens' = Append(tokens, t)
  BY DEF Token, MoveTo
<1>2. t.kind = kind /\ t.first = pos /\ t.last = q - 1
  BY DEF makeToken
<1> HIDE DEF t
<1>3. WellRead(t)
  BY <1>2 DEF WellRead
<1> QED BY <1>1, <1>3, FormingToken

LEMMA InitForming ==
  ASSUME AsciiTicks, Init
  PROVE  Forming
<1>1. PICK A \in Alphabets : src \in UNION {[1 .. n -> A] : n \in 0 .. MaxLen}
  BY DEF Init
<1>2. PICK n \in 0 .. MaxLen : src \in [1 .. n -> A]
  BY <1>1
<1>3. Typed
  BY InitTyped
<1>4. DOMAIN src = 1 .. Size /\ DOMAIN tokens = {}
  BY <1>3, Characters DEF Typed, Init
<1>5. \A p \in 1 .. Size : src[p] \in A
  BY <1>2, <1>4
<1>6. \A c : Holds(c) => c \in A
  BY <1>5 DEF Holds
<1>7. SourceAsciiTicks
  BY <1>6 DEF SourceAsciiTicks, AsciiTicks
<1> QED BY <1>3, <1>4, <1>7 DEF Forming

LEMMA NextForming ==
  ASSUME Forming, [Next]_vars
  PROVE  Forming'
<1>1. Typed /\ Typed' /\ SourceAsciiTicks /\ SourceOK
  BY NextTyped DEF Forming, Typed
<1>2. CASE SkipBlank \/ skipLineComment \/ skipBlockComment \/ UNCHANGED vars
  <2>1. src' = src /\ tokens' = tokens
    BY <1>2 DEF SkipBlank, skipLineComment, skipBlockComment, MoveTo, vars
  <2> QED BY <1>1, <2>1, FormingStays
<1>3. CASE Eof
  <2> DEFINE t == makeToken("eof", pos)
  <2>1. src' = src /\ tokens' = Append(tokens, t) /\ peek(pos) = "end"
    BY <1>3 DEF Eof, MoveTo, At
  <2>2. t.kind = "eof" /\ t.first = pos
    BY DEF makeToken
  <2> HIDE DEF t
  <2>3. WellRead(t)
    BY <2>1, <2>2 DEF WellRead, Plain
  <2> QED BY <1>1, <2>1, <2>3, FormingToken
<1>4. CASE lexIdentifierOrKeyword
  <2>1. pos \in 1 .. Size /\ src[pos] \in Letters /\ peek(pos) = src[pos]
    BY <1>1, <1>4, AtCharacter, NoEnd DEF lexIdentifierOrKeyword
  <2>2. Maximal("ident", pos, Past(pos, Letters \cup Digits) - 1)
    BY <1>1, <2>1, IdentifierRead
  <2>3. peek(pos) # "tick"
    BY <2>1 DEF Letters
  <2> QED BY <1>1, <1>4, <2>2, <2>3, FormingTokens DEF lexIdentifierOrKeyword
<1>5. CASE lexNumber
  <2>1. pos \in 1 .. Size /\ src[pos] \in Digits /\ peek(pos) = src[pos]
    BY <1>1, <1>5, AtCharacter, NoEnd DEF lexNumber
  <2>2. peek(pos) # "tick"
    BY <2>1 DEF Digits
  <2> DEFINE kind == IF NumberEnd.all > NumberEnd.int THEN "float" ELSE "int"
             hex  == src[pos] = "0" /\ peek(pos + 1) = "x"
             bin  == src[pos] = "0" /\ peek(pos + 1) \in {"b", "o"}
  <2>3. CASE hex
    <3>1. Token("int", Past(pos + 2, HexDigits))
      BY <1>5, <2>3 DEF lexNumber
    <3>2. ~Malformed(pos) => Maximal("int", pos, Past(pos + 2, HexDigits) - 1)
      BY <1>1, <2>1, <2>3, RadixRead
    <3> QED BY <1>1, <2>2, <3>1, <3>2, FormingTokens
  <2>4. CASE bin
    <3>1. Token("int", Past(pos + 2, Digits))
      BY <1>5, <2>4 DEF lexNumber
    <3>2. ~Malformed(pos) => Maximal("int", pos, Past(pos + 2, Digits) - 1)
      BY <1>1, <2>1, <2>4, RadixRead
    <3> QED BY <1>1, <2>2, <3>1, <3>2, FormingTokens
  <2>5. CASE ~hex /\ ~bin
    <3>1. Token(kind, NumberEnd.all)
      BY <1>5, <2>5 DEF lexNumber
    <3>2. ~Malformed(pos) => Maximal(kind, pos, NumberEnd.all - 1)
      <4>1. ~(src[pos] = "0" /\ peek(pos + 1) \in {"x", "b", "o"})
        BY <2>5
      <4> QED BY <1>1, <2>1, <4>1, NumberRead
    <3>3. kind \in {"int", "float"} /\ peek(pos) # "tick"
      BY <2>2
    <3> HIDE DEF kind
    <3> QED BY <1>1, <3>1, <3>2, <3>3, FormingTokens
  <2> QED BY <2>3, <2>4, <2>5
<1>6. CASE lexString
  <2>1. PICK q, kind : kind \in {"string", "error"} /\ Token(kind, q) /\ src[pos] = "quote"
    BY <1>1, <1>6, StringToken
  <2>2. peek(pos) = "quote"
    BY <1>6 DEF lexString, At
  <2> QED BY <1>1, <2>1, <2>2, FormingTokens DEF Plain
<1>7. CASE lexChar
  <2>1. PICK kind, q : /\ kind \in {"char", "error"} /\ Token(kind, q)
                       /\ kind = "char" <=> CharLiteral(pos)
    BY <1>1, <1>7, CharRead
  <2> QED BY <1>1, <2>1, FormingTokens DEF Plain
<1>8. CASE Operator
  <2>1. pos \in 1 .. Size /\ src[pos] \in Starts /\ peek(pos) = src[pos]
    BY <1>1, <1>8, AtCharacter, NoEnd DEF Operator
  <2>2. Maximal("op", pos, OperatorEnd - 1)
    BY <1>1, <2>1, OperatorRead
  <2>3. peek(pos) # "tick"
    BY <2>1 DEF Starts
  <2> QED BY <1>1, <1>8, <2>2, <2>3, FormingTokens DEF Operator
<1>9. CASE Unexpected
  <2> DEFINE t == [kind |-> "error", first |-> pos, last |-> pos, line |-> line', column |-> column']
  <2>1. src' = src /\ tokens' = Append(tokens, t)
    BY <1>9 DEF Unexpected, MoveTo
  <2>2. peek(pos) # "tick"
    <3>1. src[pos] # "tick" /\ peek(pos) = src[pos]
      BY <1>1, <1>9, UnexpectedAt
    <3> QED BY <3>1
  <2>3. t.kind = "error" /\ t.first = pos
    OBVIOUS
  <2> HIDE DEF t
  <2>4. WellRead(t)
    BY <2>2, <2>3 DEF WellRead, Plain
  <2> QED BY <1>1, <2>1, <2>4, FormingToken
<1> QED BY <1>2, <1>3, <1>4, <1>5, <1>6, <1>7, <1>8, <1>9 DEF Next, Finished

\* Every token without quotes, but for the malformed numbers, is of its
\* class in the grammar and the longest that the source has at its place,
\* prefixes, fractions and exponents included; and a tick opens a character
\* literal exactly where the grammar has one.  For every length of a source.
THEOREM TokensWellFormed == AsciiTicks => (Spec => []WellFormed)
<1>1. AsciiTicks /\ Init => Forming
  BY InitForming
<1>2. Forming /\ [Next]_vars => Forming'
  BY NextForming
<1>3. Forming => WellFormed
  <2> SUFFICES ASSUME Forming PROVE WellFormed
    OBVIOUS
  <2>1. \A i \in DOMAIN tokens : WellRead(tokens[i])
    BY DEF Forming
  <2>2. ASSUME NEW i \in DOMAIN tokens, tokens[i].kind \in Plain, ~Malformed(tokens[i].first)
        PROVE  OfItsClass(tokens[i]) /\ Longest(tokens[i])
    BY <2>1, <2>2 DEF WellRead, Maximal, OfItsClass, Longest
  <2>3. CharLiterals
    BY <2>1 DEF WellRead, CharLiterals
  <2> QED BY <2>2, <2>3 DEF WellFormed
<1> QED BY <1>1, <1>2, <1>3, PTL DEF Spec

(***************************************************************************)
(* Locations: a newline, or nothing, before the line of position p.        *)
(***************************************************************************)
LineBegins(p, q) == /\ q \in 0 .. p - 1 /\ (q = 0 \/ src[q] = "nl")
                    /\ \A r \in q + 1 .. p - 1 : src[r] # "nl"

LEMMA LineBeginsExists ==
  ASSUME NEW p \in Nat \ {0}
  PROVE  \E q : LineBegins(p, q)
<1> DEFINE T == {q \in 0 .. p - 1 : q = 0 \/ src[q] = "nl"}
<1>1. T \subseteq 0 .. p - 1 /\ 0 \in T /\ p - 1 \in Nat
  OBVIOUS
<1>2. PICK q \in T : \A k \in T : k <= q
  <2> HIDE DEF T
  <2> QED BY <1>1, GreatestExists
<1>3. \A r \in q + 1 .. p - 1 : r \in 0 .. p - 1 /\ ~(r <= q)
  BY <1>2
<1>4. \A r \in q + 1 .. p - 1 : src[r] # "nl"
  BY <1>2, <1>3
<1> QED BY <1>2, <1>4 DEF LineBegins

LEMMA ColumnIs ==
  ASSUME NEW p \in Nat \ {0}, NEW q, LineBegins(p, q)
  PROVE  ColumnOf(p) = p - q
<1> DEFINE c == CHOOSE r \in 0 .. p - 1 : LineBegins(p, r)
<1>1. q \in 0 .. p - 1
  BY DEF LineBegins
<1>2. c \in 0 .. p - 1 /\ LineBegins(p, c)
  BY <1>1
<1>3. ColumnOf(p) = p - (CHOOSE r \in 0 .. p - 1 :
                           /\ r = 0 \/ src[r] = "nl"
                           /\ \A s \in r + 1 .. p - 1 : src[s] # "nl")
  BY DEF ColumnOf
<1> DEFINE d == CHOOSE r \in 0 .. p - 1 :
                           /\ r = 0 \/ src[r] = "nl"
                           /\ \A s \in r + 1 .. p - 1 : src[s] # "nl"
<1>4. d \in 0 .. p - 1 /\ (d = 0 \/ src[d] = "nl") /\ \A s \in d + 1 .. p - 1 : src[s] # "nl"
  BY <1>1 DEF LineBegins
<1> HIDE DEF d
<1>5. ASSUME d < q PROVE FALSE
  <2>1. q \in d + 1 .. p - 1 /\ q # 0
    BY <1>1, <1>4, <1>5
  <2> QED BY <1>4, <2>1 DEF LineBegins
<1>6. ASSUME q < d PROVE FALSE
  <2>1. d \in q + 1 .. p - 1 /\ d # 0
    BY <1>1, <1>4, <1>6
  <2> QED BY <1>4, <2>1 DEF LineBegins
<1>7. d = q
  BY <1>1, <1>4, <1>5, <1>6
<1> QED BY <1>3, <1>7 DEF d

\* Newlines, counted.
Newlines(p) == {q \in 1 .. p - 1 : src[q] = "nl"}

LEMMA NewlinesFinite ==
  ASSUME NEW p \in Nat
  PROVE  IsFiniteSet(Newlines(p)) /\ Cardinality(Newlines(p)) \in Nat
         /\ LineOf(p) = 1 + Cardinality(Newlines(p)) /\ LineOf(p) \in Nat \ {0}
<1>1. p - 1 \in Int
  OBVIOUS
<1>2. IsFiniteSet(1 .. p - 1)
  BY <1>1, FS_Interval
<1>3. Newlines(p) \subseteq 1 .. p - 1
  BY DEF Newlines
<1>4. IsFiniteSet(Newlines(p))
  BY <1>2, <1>3, FS_Subset
<1>5. Cardinality(Newlines(p)) \in Nat
  BY <1>4, FS_CardinalityType
<1>6. LineOf(p) = 1 + Cardinality(Newlines(p))
  BY DEF LineOf, Newlines
<1> QED BY <1>4, <1>5, <1>6

LEMMA MoreNewlines ==
  ASSUME NEW p \in Nat \ {0}, NEW q \in Nat, p <= q
  PROVE  /\ LineOf(q) = LineOf(p) + Cardinality(NewlinesIn(p, q))
         /\ Cardinality(NewlinesIn(p, q)) \in Nat
         /\ Cardinality(NewlinesIn(p, q)) = 0 <=> NewlinesIn(p, q) = {}
<1> DEFINE A == Newlines(p)
           B == NewlinesIn(p, q)
<1>1. IsFiniteSet(A) /\ Cardinality(A) \in Nat /\ LineOf(p) = 1 + Cardinality(A)
      /\ LineOf(q) = 1 + Cardinality(Newlines(q))
  BY NewlinesFinite
<1>2. IsFiniteSet(B)
  <2>1. p \in Int /\ q - 1 \in Int
    OBVIOUS
  <2>2. IsFiniteSet(p .. q - 1)
    BY <2>1, FS_Interval
  <2>3. B \subseteq p .. q - 1
    BY DEF NewlinesIn
  <2> QED BY <2>2, <2>3, FS_Subset
<1>3. Cardinality(B) \in Nat /\ (Cardinality(B) = 0 <=> B = {})
  BY <1>2, FS_CardinalityType, FS_EmptySet
<1>4. Newlines(q) = A \cup B /\ A \cap B = {}
  BY DEF Newlines, NewlinesIn
<1>5. Cardinality(A \cup B) = Cardinality(A) + Cardinality(B)
  <2>1. Cardinality(A \cup B) = Cardinality(A) + Cardinality(B) - Cardinality(A \cap B)
    BY <1>1, <1>2, FS_Union
  <2>2. Cardinality(A \cap B) = 0
    BY <1>4, FS_EmptySet
  <2> HIDE DEF A, B
  <2> QED BY <1>1, <1>3, <2>1, <2>2
<1> HIDE DEF A, B
<1>6. LineOf(q) = LineOf(p) + Cardinality(B)
  BY <1>1, <1>3, <1>4, <1>5
<1> QED BY <1>3, <1>6 DEF B

(***************************************************************************)
(* The lexer's location is that of its position.                           *)
(***************************************************************************)
HereLocated == line = LineOf(pos) /\ column = ColumnOf(pos)
TokenLocated(t) == t.kind # "error" /\ OneLine(t) => Located(t)
TokensLocated == \A i \in DOMAIN tokens : TokenLocated(tokens[i])
Pointing == Typed /\ HereLocated /\ TokensLocated

LEMMA LocationsStay ==
  ASSUME src' = src
  PROVE  /\ LineOf(pos)' = LineOf(pos') /\ ColumnOf(pos)' = ColumnOf(pos')
         /\ (\A i \in DOMAIN tokens' : TokenLocated(tokens'[i])) => TokensLocated'
<1> DEFINE L(s, p) == 1 + Cardinality({q \in 1 .. p - 1 : s[q] = "nl"})
           C(s, p) == p - (CHOOSE q \in 0 .. p - 1 :
                             /\ q = 0 \/ s[q] = "nl"
                             /\ \A r \in q + 1 .. p - 1 : s[r] # "nl")
           T(s, t) == t.kind # "error" /\ (\A p \in t.first .. t.last : s[p] # "nl")
                        => t.line = L(s, t.first) /\ t.column = C(s, t.first)
<1>1. /\ LineOf(pos') = L(src, pos') /\ ColumnOf(pos') = C(src, pos')
      /\ \A t : TokenLocated(t) <=> T(src, t)
  BY DEF LineOf, ColumnOf, TokenLocated, OneLine, Located
<1>2. /\ LineOf(pos)' = L(src', pos') /\ ColumnOf(pos)' = C(src', pos')
      /\ TokensLocated' <=> \A i \in DOMAIN tokens' : T(src', tokens'[i])
  BY DEF LineOf, ColumnOf, TokensLocated, TokenLocated, OneLine, Located
<1> HIDE DEF L, C, T
<1> QED BY <1>1, <1>2

LEMMA MoveLocated ==
  ASSUME SourceOK, Placed, HereLocated, NEW q \in pos .. Size + 1, MoveTo(q)
  PROVE  HereLocated'
<1>1. pos \in Nat \ {0} /\ q \in Nat \ {0} /\ pos <= q /\ Size \in Nat
      /\ line \in Nat /\ column \in Nat
  BY Characters DEF Placed
<1> DEFINE nls == NewlinesIn(pos, q)
<1>2. /\ pos' = q /\ src' = src /\ line' = line + Cardinality(nls)
      /\ column' = IF nls = {} THEN column + (q - pos)
                   ELSE q - (CHOOSE r \in nls : \A s \in nls : s <= r)
  BY DEF MoveTo
<1>3. line' = LineOf(q)
  BY <1>1, <1>2, MoreNewlines DEF HereLocated
<1>4. column' = ColumnOf(q)
  <2>1. CASE nls = {}
    <3>1. PICK b : LineBegins(pos, b)
      BY <1>1, LineBeginsExists
    <3>2. ColumnOf(pos) = pos - b /\ b \in 0 .. pos - 1
      BY <1>1, <3>1, ColumnIs DEF LineBegins
    <3>3. \A r \in b + 1 .. q - 1 : r \in b + 1 .. pos - 1 \/ r \in pos .. q - 1
      BY <1>1, <3>2
    <3>4. \A r \in pos .. q - 1 : src[r] # "nl"
      BY <2>1 DEF NewlinesIn
    <3>5. b \in 0 .. q - 1
      BY <1>1, <3>2
    <3>6. LineBegins(q, b)
      BY <3>1, <3>3, <3>4, <3>5 DEF LineBegins
    <3>7. ColumnOf(q) = q - b
      BY <1>1, <3>6, ColumnIs
    <3>8. column' = column + (q - pos) /\ column = pos - b
      BY <1>2, <2>1, <3>2 DEF HereLocated
    <3> QED BY <1>1, <3>2, <3>7, <3>8
  <2>2. CASE nls # {}
    <3>1. nls \subseteq 0 .. q
      BY <1>1 DEF NewlinesIn
    <3> HIDE DEF nls
    <3>2. \E r \in nls : \A s \in nls : s <= r
      BY <1>1, <2>2, <3>1, GreatestExists
    <3>3. PICK r \in nls : column' = q - r /\ \A s \in nls : s <= r
      BY <1>2, <2>2, <3>2
    <3>4. r \in pos .. q - 1 /\ src[r] = "nl"
      BY DEF nls, NewlinesIn
    <3>5. \A s \in r + 1 .. q - 1 : s \in pos .. q - 1 /\ ~(s <= r)
      BY <1>1, <3>4
    <3>6. \A s \in r + 1 .. q - 1 : src[s] # "nl"
      BY <3>3, <3>5 DEF nls, NewlinesIn
    <3>7. r \in 0 .. q - 1
      BY <1>1, <3>4
    <3>8. LineBegins(q, r)
      BY <3>4, <3>6, <3>7 DEF LineBegins
    <3> QED BY <1>1, <3>3, <3>8, ColumnIs
  <2> QED BY <2>1, <2>2
<1> HIDE DEF nls
<1>5. LineOf(pos)' = LineOf(q) /\ ColumnOf(pos)' = ColumnOf(q)
  BY <1>2, LocationsStay
<1> QED BY <1>3, <1>4, <1>5 DEF HereLocated

LEMMA PointingMoves ==
  ASSUME Pointing, Typed', NEW q \in pos .. Size + 1, MoveTo(q), tokens' = tokens
  PROVE  Pointing'
<1>1. SourceOK /\ Placed /\ HereLocated
  BY DEF Pointing, Typed
<1>2. HereLocated' /\ src' = src
  BY <1>1, MoveLocated DEF MoveTo
<1>3. TokensLocated'
  BY <1>2, LocationsStay DEF Pointing, TokensLocated
<1> QED BY <1>2, <1>3 DEF Pointing

LEMMA PointingToken ==
  ASSUME Pointing, Typed', NEW q \in pos .. Size + 1, MoveTo(q), NEW t, tokens' = Append(tokens, t),
         t.kind # "error" =>
           /\ t.first = pos /\ t.last = q - 1 /\ t.line = line'
           /\ t.column = (column' - (q - pos)) % Word
  PROVE  Pointing'
<1>1. SourceOK /\ Placed /\ HereLocated /\ tokens \in Seq(TokenRecord) /\ Size <= MaxLen
  BY DEF Pointing, Typed
<1>2. HereLocated' /\ src' = src
  BY <1>1, MoveLocated DEF MoveTo
<1>3. TokenLocated(t)
  <2> SUFFICES ASSUME t.kind # "error", OneLine(t) PROVE Located(t)
    BY DEF TokenLocated
  <2>1. t.first = pos /\ t.last = q - 1 /\ t.line = line' /\ t.column = (column' - (q - pos)) % Word
    OBVIOUS
  <2>2. NewlinesIn(pos, q) = {}
    BY <2>1 DEF OneLine, NewlinesIn
  <2>3. pos \in Nat \ {0} /\ q \in Nat \ {0} /\ Size \in Nat /\ line \in Nat /\ column \in 1 .. pos
        /\ pos <= Size + 1 /\ pos <= q
    BY <1>1, Characters DEF Placed
  <2>4. column' = column + (q - pos) /\ line' = line
    <3>1. Cardinality(NewlinesIn(pos, q)) = 0
      BY <2>2, FS_EmptySet
    <3> QED BY <2>2, <2>3, <3>1 DEF MoveTo
  <2>5. column' - (q - pos) = column
    BY <2>3, <2>4
  <2>6. column \in Nat /\ column < Word /\ Word \in Nat
    BY <1>1, <2>3, LexerBounds
  <2>7. column % Word = column
    BY <2>6
  <2> QED BY <1>1, <2>1, <2>4, <2>5, <2>7 DEF Located, HereLocated
<1>4. ASSUME NEW i \in DOMAIN tokens'
      PROVE  TokenLocated(tokens'[i])
  <2>1. \/ i \in DOMAIN tokens /\ tokens'[i] = tokens[i]
        \/ tokens'[i] = t
    BY <1>1
  <2> QED BY <1>3, <2>1 DEF Pointing, TokensLocated
<1>5. TokensLocated'
  BY <1>2, <1>4, LocationsStay
<1> QED BY <1>2, <1>5 DEF Pointing

LEMMA PointingTokens ==
  ASSUME Pointing, Typed', NEW kind, NEW q \in pos + 1 .. Size + 1, Token(kind, q)
  PROVE  Pointing'
<1> DEFINE t == makeToken(kind, q)
<1>1. MoveTo(q) /\ tokens' = Append(tokens, t)
  BY DEF Token
<1>2. /\ t.first = pos /\ t.last = q - 1 /\ t.line = line'
      /\ t.column = (column' - (q - pos)) % Word
  BY DEF makeToken
<1> HIDE DEF t
<1>3. q \in pos .. Size + 1
  BY Characters DEF Pointing, Typed, Placed
<1> QED BY <1>1, <1>2, <1>3, PointingToken

LEMMA NextPointing ==
  ASSUME Pointing, [Next]_vars
  PROVE  Pointing'
<1>1. Typed /\ Typed' /\ SourceOK /\ Placed
  BY NextTyped DEF Pointing, Typed
<1>2. CASE SkipBlank
  <2>1. pos + 1 \in pos .. Size + 1
    BY <1>1, <1>2, AtPosition, NoEnd DEF SkipBlank
  <2> QED BY <1>1, <1>2, <2>1, PointingMoves DEF SkipBlank
<1>3. CASE skipLineComment /\ ~(pos + 1 > Size)
  <2> DEFINE q == Past(pos + 2, Chars \ {"nl"})
  <2>1. pos \in 1 .. Size /\ Size \in Nat
    BY <1>1, <1>3, LineCommentAt DEF skipLineComment
  <2>2. pos + 2 \in 1 .. Size + 1 /\ "end" \notin Chars \ {"nl"}
    BY <1>1, <1>3, <2>1, Characters
  <2>3. q \in pos + 2 .. Size + 1
    BY <1>1, <2>2, PastOK
  <2>4. q \in pos .. Size + 1
    BY <2>1, <2>3
  <2>5. MoveTo(q) /\ tokens' = tokens
    BY <1>3 DEF skipLineComment
  <2> HIDE DEF q
  <2> QED BY <1>1, <2>4, <2>5, PointingMoves
<1>4. CASE skipLineComment /\ pos + 1 > Size
  <2>1. src' = src /\ pos' = pos /\ line' = line /\ column' = column /\ tokens' = tokens
    BY <1>4 DEF skipLineComment
  <2>2. LineOf(pos)' = LineOf(pos) /\ ColumnOf(pos)' = ColumnOf(pos)
    BY <2>1, LocationsStay
  <2>3. HereLocated'
    BY <2>1, <2>2 DEF Pointing, HereLocated
  <2>4. TokensLocated'
    BY <2>1, LocationsStay DEF Pointing, TokensLocated
  <2> QED BY <1>1, <2>3, <2>4 DEF Pointing
<1>5. CASE skipBlockComment
  <2>1. CommentEnd(pos + 2).to \in pos .. Size + 1
    BY <1>1, <1>5, BlockCommentAt DEF skipBlockComment
  <2>2. MoveTo(CommentEnd(pos + 2).to) /\ tokens' = tokens
    BY <1>5 DEF skipBlockComment
  <2> QED BY <1>1, <2>1, <2>2, PointingMoves
<1>6. CASE Eof
  <2> DEFINE t == makeToken("eof", pos)
  <2>1. MoveTo(pos) /\ tokens' = Append(tokens, t)
    BY <1>6 DEF Eof
  <2>2. /\ t.first = pos /\ t.last = pos - 1 /\ t.line = line'
        /\ t.column = (column' - (pos - pos)) % Word
    BY DEF makeToken
  <2> HIDE DEF t
  <2>3. pos \in pos .. Size + 1
    BY <1>1, Characters DEF Placed
  <2> QED BY <1>1, <2>1, <2>2, <2>3, PointingToken
<1>7. CASE lexIdentifierOrKeyword
  <2>1. PICK q : Plainly(q) /\ Token("ident", q)
    BY <1>1, <1>7, IdentifierEnds
  <2> QED BY <1>1, <2>1, PointingTokens DEF Plainly
<1>8. CASE lexNumber
  <2>1. PICK q, kind : Plainly(q) /\ Token(kind, q)
    BY <1>1, <1>8, NumberEnds
  <2> QED BY <1>1, <2>1, PointingTokens DEF Plainly
<1>9. CASE lexString
  <2>1. PICK q, kind : q \in pos + 1 .. Size + 1 /\ Token(kind, q)
    BY <1>1, <1>9, StringToken
  <2> QED BY <1>1, <2>1, PointingTokens
<1>10. CASE lexChar
  <2>1. PICK kind, q : q \in pos + 1 .. Size + 1 /\ Token(kind, q)
    BY <1>1, <1>10, CharEnds
  <2> QED BY <1>1, <2>1, PointingTokens
<1>11. CASE Operator
  <2>1. PICK q : Plainly(q) /\ Token("op", q)
    BY <1>1, <1>11, OperatorEnds
  <2> QED BY <1>1, <2>1, PointingTokens DEF Plainly
<1>12. CASE Unexpected
  <2> DEFINE t == [kind |-> "error", first |-> pos, last |-> pos, line |-> line', column |-> column']
  <2>1. MoveTo(pos + 1) /\ tokens' = Append(tokens, t)
    BY <1>12 DEF Unexpected
  <2>2. t.kind = "error" /\ pos + 1 \in pos .. Size + 1
    BY <1>1, <1>12, UnexpectedAt
  <2> HIDE DEF t
  <2> QED BY <1>1, <2>1, <2>2, PointingToken
<1>13. CASE UNCHANGED vars
  <2>1. src' = src /\ pos' = pos /\ line' = line /\ column' = column /\ tokens' = tokens
    BY <1>13 DEF vars
  <2>2. LineOf(pos)' = LineOf(pos) /\ ColumnOf(pos)' = ColumnOf(pos)
    BY <2>1, LocationsStay
  <2>3. HereLocated'
    BY <2>1, <2>2 DEF Pointing, HereLocated
  <2>4. TokensLocated'
    BY <2>1, LocationsStay DEF Pointing, TokensLocated
  <2> QED BY <1>1, <2>3, <2>4 DEF Pointing
<1> QED BY <1>2, <1>3, <1>4, <1>5, <1>6, <1>7, <1>8, <1>9, <1>10, <1>11, <1>12, <1>13
        DEF Next, Finished

LEMMA InitPointing == Init => Pointing
<1> SUFFICES ASSUME Init PROVE Pointing
  OBVIOUS
<1>1. Typed
  BY InitTyped
<1>2. pos = 1 /\ line = 1 /\ column = 1 /\ tokens = <<>>
  BY DEF Init
<1>3. LineBegins(1, 0)
  BY DEF LineBegins
<1>4. ColumnOf(1) = 1
  BY <1>3, ColumnIs
<1>5. LineOf(1) = 1
  <2>1. Newlines(1) = {}
    BY DEF Newlines
  <2>2. Cardinality(Newlines(1)) = 0
    BY <2>1, FS_EmptySet
  <2> QED BY <2>2, NewlinesFinite
<1>6. TokensLocated
  <2>1. DOMAIN tokens = {}
    BY <1>2
  <2> QED BY <2>1 DEF TokensLocated
<1> QED BY <1>1, <1>2, <1>4, <1>5, <1>6 DEF Pointing, HereLocated

(***************************************************************************)
(* The panel of a diagnostic: the renderer finds the line of a position by *)
(* counting newlines, and the column in it by the text before.             *)
(***************************************************************************)
LEMMA LineStartIs ==
  ASSUME SourceOK, NEW p \in 1 .. Size + 1, NEW b, LineBegins(p, b)
  PROVE  StartOf(src, LineOf(p)) = b + 1
<1>1. /\ Size \in Nat /\ DOMAIN src = 1 .. Size /\ p \in Nat \ {0}
      /\ b \in 0 .. p - 1 /\ b \in Nat /\ b + 1 \in Nat \ {0} /\ b + 1 <= p
      /\ b = 0 \/ src[b] = "nl"
      /\ \A r \in b + 1 .. p - 1 : src[r] # "nl"
  <2>1. Size \in Nat /\ DOMAIN src = 1 .. Size
    BY Characters
  <2> QED BY <2>1 DEF LineBegins
<1>2. b + 1 \in LineStarts(src)
  <2>1. b # 0 => b \in DOMAIN src
    BY <1>1
  <2> QED BY <1>1, <2>1 DEF LineStarts
<1>3. LineOf(p) = LineOf(b + 1)
  <2>1. NewlinesIn(b + 1, p) = {}
    BY <1>1 DEF NewlinesIn
  <2>2. LineOf(p) = LineOf(b + 1) + Cardinality(NewlinesIn(b + 1, p))
        /\ Cardinality(NewlinesIn(b + 1, p)) = 0
    BY <1>1, <2>1, MoreNewlines
  <2>3. LineOf(b + 1) \in Nat
    <3>1. b + 1 \in Nat
      BY <1>1
    <3> QED BY <3>1, NewlinesFinite
  <2> QED BY <2>2, <2>3
<1>4. \A x \in LineStarts(src) : x \in Nat \ {0} /\ (x # 1 => x - 1 \in Nat \ {0} /\ src[x - 1] = "nl")
  BY <1>1 DEF LineStarts
<1>5. ASSUME NEW x \in LineStarts(src), LineOf(x) = LineOf(p) PROVE x = b + 1
  <2>1. x \in Nat \ {0}
    BY <1>4
  <2>2. CASE x < b + 1
    <3>1. b \in NewlinesIn(x, b + 1)
      BY <1>1, <2>1, <2>2 DEF NewlinesIn
    <3>2. /\ LineOf(b + 1) = LineOf(x) + Cardinality(NewlinesIn(x, b + 1))
          /\ Cardinality(NewlinesIn(x, b + 1)) \in Nat \ {0}
      <4>1. x <= b + 1
        BY <1>1, <2>1, <2>2
      <4> QED BY <1>1, <2>1, <3>1, <4>1, MoreNewlines
    <3>3. LineOf(x) \in Nat
      BY <2>1, NewlinesFinite
    <3> QED BY <1>3, <1>5, <3>2, <3>3
  <2>3. CASE b + 1 < x
    <3>1. x - 1 \in NewlinesIn(b + 1, x)
      <4>1. x # 1
        BY <1>1, <2>1, <2>3
      <4>2. src[x - 1] = "nl"
        BY <1>4, <4>1
      <4> QED BY <1>1, <2>1, <2>3, <4>2 DEF NewlinesIn
    <3>2. /\ LineOf(x) = LineOf(b + 1) + Cardinality(NewlinesIn(b + 1, x))
          /\ Cardinality(NewlinesIn(b + 1, x)) \in Nat \ {0}
      <4>1. b + 1 <= x
        BY <1>1, <2>1, <2>3
      <4> QED BY <1>1, <2>1, <3>1, <4>1, MoreNewlines
    <3>3. LineOf(b + 1) \in Nat
      <4>1. b + 1 \in Nat
        BY <1>1
      <4> QED BY <4>1, NewlinesFinite
    <3> QED BY <1>3, <1>5, <3>2, <3>3
  <2> QED BY <1>1, <2>1, <2>2, <2>3
<1>6. StartOf(src, LineOf(p)) = CHOOSE x \in LineStarts(src) : LineOf(p) = LineOf(x)
  BY DEF StartOf, LineOf
<1>7. \E x \in LineStarts(src) : LineOf(p) = LineOf(x)
  BY <1>2, <1>3
<1> HIDE DEF StartOf
<1> QED BY <1>5, <1>6, <1>7

LEMMA LineEndIs ==
  ASSUME SourceOK, NEW s \in 1 .. Size + 1
  PROVE  /\ EndOf(src, s) \in s - 1 .. Size
         /\ EndOf(src, s) = Size \/ src[EndOf(src, s) + 1] = "nl"
         /\ \A r \in s .. EndOf(src, s) : src[r] # "nl"
<1>1. Size \in Nat
  BY Characters
<1> DEFINE T == {q \in s - 1 .. Size : q = Size \/ src[q + 1] = "nl"}
<1>2. T \subseteq Nat /\ Size \in T
  BY <1>1
<1>3. PICK q \in T : \A k \in T : q <= k
  <2> HIDE DEF T
  <2> QED BY <1>2, LeastExists
<1>4. ASSUME NEW r \in s .. q PROVE src[r] # "nl"
  <2>1. r - 1 \in s - 1 .. Size /\ ~(q <= r - 1) /\ (r - 1) + 1 = r
    BY <1>1, <1>3
  <2> QED BY <1>3, <2>1
<1>5. \E e \in s - 1 .. Size : /\ e = Size \/ src[e + 1] = "nl"
                               /\ \A r \in s .. e : src[r] # "nl"
  BY <1>3, <1>4
<1> QED BY <1>5 DEF EndOf, Size

Widths(f, text) ==
  f = [i \in 0 .. Len(text) |->
         IF i = 0 THEN Gutter
         ELSE IF text[i] = "tab" THEN (f[i - 1] \div TabStop + 1) * TabStop
         ELSE IF text[i] = "cont" THEN f[i - 1]
         ELSE f[i - 1] + 1]

\* The width depends on the tabs and on the bytes that take no column.
LEMMA SameWidth ==
  ASSUME NEW s, NEW t, Len(s) = Len(t), Len(s) \in Nat,
         \A i \in 1 .. Len(s) : /\ s[i] = "tab" <=> t[i] = "tab"
                                /\ s[i] = "cont" <=> t[i] = "cont"
  PROVE  Width(s) = Width(t)
<1>1. ASSUME NEW f PROVE Widths(f, s) <=> Widths(f, t)
  <2> DEFINE S(i) == IF i = 0 THEN Gutter
                     ELSE IF s[i] = "tab" THEN (f[i - 1] \div TabStop + 1) * TabStop
                     ELSE IF s[i] = "cont" THEN f[i - 1]
                     ELSE f[i - 1] + 1
             T(i) == IF i = 0 THEN Gutter
                     ELSE IF t[i] = "tab" THEN (f[i - 1] \div TabStop + 1) * TabStop
                     ELSE IF t[i] = "cont" THEN f[i - 1]
                     ELSE f[i - 1] + 1
  <2>1. ASSUME NEW i \in 0 .. Len(s) PROVE S(i) = T(i)
    <3>1. i # 0 => i \in 1 .. Len(s)
      OBVIOUS
    <3> QED BY <3>1
  <2>2. Widths(f, s) <=> f = [i \in 0 .. Len(s) |-> S(i)]
    BY DEF Widths
  <2>3. Widths(f, t) <=> f = [i \in 0 .. Len(s) |-> T(i)]
    BY DEF Widths
  <2> HIDE DEF S, T
  <2> QED BY <2>1, <2>2, <2>3
<1> DEFINE g == CHOOSE f : Widths(f, s)
           h == CHOOSE f : Widths(f, t)
<1>2. g = h
  <2> HIDE DEF Widths
  <2> QED BY <1>1
<1>3. Width(s) = g[Len(s)] /\ Width(t) = h[Len(t)]
  BY DEF Width, Widths
<1> HIDE DEF g, h
<1> QED BY <1>2, <1>3

LEMMA LocatedPointsAt ==
  ASSUME SourceOK, NEW p \in 1 .. Size + 1, NEW loc,
         loc.line = LineOf(p), loc.column = ColumnOf(p), AsciiBefore(p)
  PROVE  PointsAt(loc, p)
<1>1. Size \in Nat /\ p \in Nat \ {0} /\ \A q \in 1 .. Size : src[q] \in Chars
  BY Characters
<1>2. PICK b : LineBegins(p, b)
  BY <1>1, LineBeginsExists
<1>3. /\ b \in 0 .. p - 1 /\ b \in Nat /\ ColumnOf(p) = p - b
      /\ \A r \in b + 1 .. p - 1 : src[r] # "nl"
  <2>1. ColumnOf(p) = p - b
    BY <1>1, <1>2, ColumnIs
  <2>2. b \in 0 .. p - 1 /\ \A r \in b + 1 .. p - 1 : src[r] # "nl"
    BY <1>2 DEF LineBegins
  <2> QED BY <1>1, <2>1, <2>2
<1> DEFINE e        == EndOf(src, b + 1)
           lineText == SubSeq(src, b + 1, e)
           before   == SubSeq(src, b + 1, p - 1)
           n        == p - 1 - b
<1>4. extractLine(src, loc.line) = lineText
  <2>1. StartOf(src, LineOf(p)) = b + 1
    BY <1>2, LineStartIs
  <2> QED BY <2>1 DEF extractLine
<1>5. /\ e \in b .. Size /\ (e = Size \/ src[e + 1] = "nl")
      /\ \A r \in b + 1 .. e : src[r] # "nl"
  <2>1. b + 1 \in 1 .. Size + 1 /\ (b + 1) - 1 = b
    BY <1>1, <1>3
  <2> QED BY <2>1, LineEndIs
<1> HIDE DEF e
<1>6. e >= p - 1
  <2>1. SUFFICES ASSUME e < p - 1 PROVE FALSE
    BY <1>1, <1>5
  <2>2. e + 1 \in b + 1 .. p - 1 /\ e # Size
    BY <1>1, <1>3, <1>5, <2>1
  <2> QED BY <1>3, <1>5, <2>2
<1>7. /\ n \in Nat /\ before \in Seq(Chars) /\ Len(before) = n
      /\ \A i \in 1 .. n : before[i] = src[b + i]
  <2>1. \A i \in b + 1 .. p - 1 : src[i] \in Chars
    BY <1>1, <1>3
  <2>2. b + 1 \in Int /\ p - 1 \in Int
    BY <1>1, <1>3
  <2>3. /\ before \in Seq(Chars)
        /\ Len(before) = IF b + 1 <= p - 1 THEN (p - 1) - (b + 1) + 1 ELSE 0
        /\ \A i \in 1 .. (p - 1) - (b + 1) + 1 : before[i] = src[(b + 1) + i - 1]
    BY <2>1, <2>2, SubSeqProperties
  <2>4. n \in Nat /\ Len(before) = n /\ (p - 1) - (b + 1) + 1 = n
    BY <1>1, <1>3, <2>3
  <2>5. \A i \in 1 .. n : (b + 1) + i - 1 = b + i
    BY <1>1, <1>3
  <2> QED BY <2>3, <2>4, <2>5
<1>8. /\ lineText \in Seq(Chars) /\ Len(lineText) = e - b /\ e - b \in Nat /\ n <= e - b
      /\ \A i \in 1 .. e - b : lineText[i] = src[b + i]
  <2>1. \A i \in b + 1 .. e : src[i] \in Chars
    BY <1>1, <1>3, <1>5
  <2>2. b + 1 \in Int /\ e \in Int
    BY <1>3, <1>5
  <2>3. /\ lineText \in Seq(Chars)
        /\ Len(lineText) = IF b + 1 <= e THEN e - (b + 1) + 1 ELSE 0
        /\ \A i \in 1 .. e - (b + 1) + 1 : lineText[i] = src[(b + 1) + i - 1]
    BY <2>1, <2>2, SubSeqProperties
  <2>4. e - b \in Nat /\ Len(lineText) = e - b /\ e - (b + 1) + 1 = e - b /\ n <= e - b
    BY <1>1, <1>3, <1>5, <1>6, <2>3
  <2>5. \A i \in 1 .. e - b : (b + 1) + i - 1 = b + i
    BY <1>3, <1>5
  <2> QED BY <2>3, <2>4, <2>5
<1> HIDE DEF lineText, before
<1>9. before = Before(p)
  <2>1. p - (p - b) + 1 = b + 1
    BY <1>1, <1>3
  <2> QED BY <1>3, <2>1 DEF before, Before
<1>10. SubSeq(lineText, 1, n) = before
  <2>1. \A i \in 1 .. n : i \in 1 .. e - b
    BY <1>1, <1>7, <1>8
  <2>2. \A i \in 1 .. n : lineText[i] = src[b + i]
    BY <1>8, <2>1
  <2>3. \A i \in 1 .. n : lineText[i] \in Chars
    BY <1>8, <2>1, ElementOfSeq
  <2> DEFINE t == SubSeq(lineText, 1, n)
  <2>4. /\ t \in Seq(Chars) /\ Len(t) = IF 1 <= n THEN n - 1 + 1 ELSE 0
        /\ \A i \in 1 .. n - 1 + 1 : t[i] = lineText[1 + i - 1]
    BY <1>7, <2>3, SubSeqProperties
  <2> HIDE DEF t
  <2>5. Len(t) = n /\ \A i \in 1 .. n : i \in 1 .. n - 1 + 1 /\ 1 + i - 1 = i
    BY <1>7, <2>4
  <2>6. \A i \in 1 .. Len(t) : t[i] = before[i]
    BY <1>7, <2>2, <2>4, <2>5
  <2>7. t = before
    BY <1>7, <2>4, <2>5, <2>6, SeqEqual
  <2> QED BY <2>7 DEF t
<1>11. ASSUME peek(p) \notin {"nl", "end"} PROVE peek(p) = lineText[n + 1]
  <2>1. p \in 1 .. Size /\ peek(p) = src[p]
    BY <1>1, <1>11, Characters
  <2>2. e # p - 1
    <3>1. e = p - 1 => e + 1 = p /\ e # Size
      BY <1>1, <2>1
    <3> QED BY <1>5, <1>11, <2>1, <3>1
  <2>3. n + 1 \in 1 .. e - b /\ b + (n + 1) = p
    BY <1>1, <1>3, <1>5, <1>6, <1>7, <2>2
  <2> QED BY <1>8, <2>1, <2>3
<1>12. indent(src, loc) = [i \in 1 .. n |-> IF lineText[i] = "tab" THEN "tab" ELSE "sp"]
  <2> DEFINE col  == IF loc.column > 0 THEN loc.column - 1 ELSE 0
             upTo == IF col < Len(lineText) THEN col ELSE Len(lineText)
  <2>1. col = n
    BY <1>1, <1>3
  <2>2. upTo = n
    BY <1>7, <1>8, <2>1
  <2>3. indent(src, loc) = [i \in 1 .. upTo |-> IF lineText[i] = "tab" THEN "tab" ELSE "sp"]
    BY <1>4 DEF indent
  <2> HIDE DEF upTo
  <2> QED BY <2>2, <2>3
<1>13. Width(indent(src, loc)) = Width(before)
  <2> DEFINE u == [i \in 1 .. n |-> IF lineText[i] = "tab" THEN "tab" ELSE "sp"]
  <2>1. Len(u) = n
    BY <1>7
  <2>2. \A i \in 1 .. n : /\ u[i] = "tab" <=> before[i] = "tab"
                          /\ u[i] = "cont" <=> before[i] = "cont"
    <3>1. \A i \in 1 .. n : i \in 1 .. e - b
      BY <1>1, <1>7, <1>8
    <3>2. \A i \in 1 .. n : lineText[i] = before[i]
      BY <1>7, <1>8, <3>1
    <3>3. \A i \in 1 .. n : before[i] # "cont"
      BY <1>7, <1>9 DEF AsciiBefore
    <3> QED BY <3>2, <3>3
  <2> HIDE DEF u
  <2>3. Width(u) = Width(before)
    BY <1>7, <2>1, <2>2, SameWidth
  <2> QED BY <1>12, <2>3 DEF u
<1>14. isValid(loc)
  <2>1. LineOf(p) # 0
    BY <1>1, NewlinesFinite
  <2> QED BY <2>1 DEF isValid
<1> HIDE DEF n
<1> QED BY <1>4, <1>7, <1>9, <1>10, <1>11, <1>13, <1>14 DEF PointsAt

\* The diagnostic that a later phase reports at a token shows the line of the
\* token with the caret below its first character, whatever comments, tabs
\* and lines come before, for every source and every tab stop; of a token
\* behind a character of two bytes on its line TokensPointedAt says nothing,
\* and ColumnsCountCharacters that its column is another one.
THEOREM CaretsPointAtTokens == Spec => []TokensPointedAt
<1>1. Init => Pointing
  BY InitPointing
<1>2. Pointing /\ [Next]_vars => Pointing'
  BY NextPointing
<1>3. Pointing => TokensPointedAt
  <2> SUFFICES ASSUME Pointing, NEW i \in DOMAIN tokens,
                      tokens[i].kind # "error", OneLine(tokens[i]),
                      AsciiBefore(tokens[i].first)
               PROVE  PointsAt(tokens[i], tokens[i].first)
    BY DEF TokensPointedAt
  <2>1. SourceOK /\ tokens[i].first \in 1 .. Size + 1
    BY DEF Pointing, Typed, TokenIn
  <2>2. tokens[i].line = LineOf(tokens[i].first) /\ tokens[i].column = ColumnOf(tokens[i].first)
    BY DEF Pointing, TokensLocated, TokenLocated, Located
  <2> QED BY <2>1, <2>2, LocatedPointsAt
<1> QED BY <1>1, <1>2, <1>3, PTL DEF Spec

(***************************************************************************)
(* What the lexer reports: the faults that the source has before its       *)
(* position.                                                               *)
(***************************************************************************)
FaultAt(p) ==
  /\ Context[p] = Code
  /\ \/ src[p] \notin Blanks \cup Letters \cup Digits \cup Starts \cup {"#", "quote", "tick"}
     \/ src[p] = "quote" /\ ~StringCloses(Context, p)
     \/ src[p] = "tick" /\ ~CharLiteral(p)
     \/ Pair(p, "/", "*") /\ ~CommentCloses(Context, p)
FaultsBefore(q) == {p \in Faults : p < q}

LEMMA FaultIs == Faults = {p \in 1 .. Size : FaultAt(p)}
  BY DEF Faults, FaultAt

\* A fault is a character that begins something.
LEMMA NoFault ==
  ASSUME NEW p, Context[p] # Code \/ src[p] \in Inert \/ src[p] \in Blanks
                \/ (src[p] = "/" /\ ~Pair(p, "/", "*"))
  PROVE  p \notin Faults
<1>1. ASSUME FaultAt(p) PROVE FALSE
  <2>1. Context[p] = Code
    BY <1>1 DEF FaultAt
  <2>2. src[p] \notin {"quote", "tick"} /\ src[p] \in Blanks \cup Letters \cup Digits \cup Starts
    BY <2>1 DEF Inert, Blanks, Letters, Digits, Starts
  <2>3. Pair(p, "/", "*")
    BY <1>1, <2>2 DEF FaultAt
  <2>4. src[p] # "/" => FALSE
    <3>1. p \in 1 .. Size => peek(p) = src[p]
      BY DEF peek
    <3> QED BY <2>1, <2>3, <3>1 DEF Pair, peek
  <2>5. "/" \notin Inert /\ "/" \notin Blanks
    BY DEF Inert, Blanks, Letters, Digits
  <2> QED BY <2>1, <2>3, <2>4, <2>5
<1> QED BY <1>1, FaultIs

LEMMA FaultsStay ==
  ASSUME src' = src
  PROVE  Faults' = Faults
<1> DEFINE PeekOf(s, p) == IF p <= Len(s) THEN s[p] ELSE "end"
           CodePointOf(s, p, q) == \/ p = q /\ s[p] \notin {"lead", "cont"}
                                   \/ q = p + 1 /\ s[p] = "lead" /\ s[q] = "cont"
           LiteralOf(s, p) == \E q \in p + 1 .. Len(s) - 1 :
             /\ s[q + 1] = "tick"
             /\ IF s[p + 1] = "esc" THEN q > p + 1 /\ CodePointOf(s, p + 2, q)
                ELSE CodePointOf(s, p + 1, q)
           StringOf(s, c, p) == \E q \in p + 1 .. Len(s) :
             s[q] = "quote" /\ ~c[q].skip /\ \A r \in p + 1 .. q : c[r].in = "string"
           CommentOf(s, c, p) == \E q \in p + 1 .. Len(s) + 1 : c[q].in # "block"
           Of(s, c) == {p \in 1 .. Len(s) :
             /\ c[p] = [in |-> "code", depth |-> 0, skip |-> FALSE]
             /\ \/ s[p] \notin Blanks \cup Letters \cup Digits \cup Starts \cup {"#", "quote", "tick"}
                \/ s[p] = "quote" /\ ~StringOf(s, c, p)
                \/ s[p] = "tick" /\ ~LiteralOf(s, p)
                \/ (PeekOf(s, p) = "/" /\ PeekOf(s, p + 1) = "*") /\ ~CommentOf(s, c, p)}
<1>1. Context' = Context
  BY ContextStays
<1>2. Faults = Of(src, Context)
  BY DEF Faults, StringCloses, CommentCloses, CharLiteral, CodePoint, Pair, peek, Size, Code, Open
<1>3. Faults' = Of(src', Context')
  BY DEF Faults, StringCloses, CommentCloses, CharLiteral, CodePoint, Pair, peek, Size, Code, Open
<1> HIDE DEF Of
<1> QED BY <1>1, <1>2, <1>3

\* Counting the faults.
LEMMA FaultsFinite ==
  ASSUME SourceOK, NEW S, S \subseteq Faults
  PROVE  IsFiniteSet(S) /\ Cardinality(S) \in Nat /\ (Cardinality(S) = 0 <=> S = {})
<1>1. IsFiniteSet(1 .. Size)
  BY Characters, FS_Interval
<1>2. S \subseteq 1 .. Size
  BY FaultIs
<1>3. IsFiniteSet(S)
  BY <1>1, <1>2, FS_Subset
<1> QED BY <1>3, FS_CardinalityType, FS_EmptySet

LEMMA NthIs ==
  ASSUME SourceOK, NEW q \in Nat, NEW p \in FaultsBefore(q)
  PROVE  Nth(Faults, p) \in 1 .. Cardinality(FaultsBefore(q))
<1> DEFINE A == {r \in Faults : r <= p}
           B == FaultsBefore(q)
<1>1. \A r \in Faults : r \in Nat
  BY FaultIs
<1>2. A \subseteq B /\ p \in A /\ A \subseteq Faults /\ B \subseteq Faults
  BY <1>1 DEF FaultsBefore
<1>3. Nth(Faults, p) = Cardinality(A)
  BY DEF Nth
<1> HIDE DEF A, B
<1>4. /\ IsFiniteSet(A) /\ Cardinality(A) \in Nat /\ (Cardinality(A) = 0 <=> A = {})
      /\ IsFiniteSet(B) /\ Cardinality(B) \in Nat
  BY <1>2, FaultsFinite
<1>5. Cardinality(A) <= Cardinality(B)
  BY <1>2, <1>4, FS_Subset
<1>6. Cardinality(A) # 0
  BY <1>2, <1>4
<1> QED BY <1>3, <1>4, <1>5, <1>6 DEF B

\* From one round to the next: the character of the lexer's position is one
\* fault more, or none.
LEMMA FaultsGrow ==
  ASSUME SourceOK, pos \in 1 .. Size, NEW q \in pos + 1 .. Size + 1,
         \A r \in pos + 1 .. q - 1 : r \notin Faults
  PROVE  /\ pos \notin Faults => FaultsBefore(q) = FaultsBefore(pos)
         /\ pos \in Faults => /\ FaultsBefore(q) = FaultsBefore(pos) \cup {pos}
                              /\ Cardinality(FaultsBefore(q)) = Cardinality(FaultsBefore(pos)) + 1
                              /\ Nth(Faults, pos) = Cardinality(FaultsBefore(pos)) + 1
<1>1. Size \in Nat /\ pos \in Nat /\ q \in Nat /\ \A r \in Faults : r \in Nat
  BY Characters, FaultIs
<1>2. \A r \in Faults : r < q <=> r < pos \/ r = pos
  <2> SUFFICES ASSUME NEW r \in Faults PROVE r < q <=> r < pos \/ r = pos
    OBVIOUS
  <2>1. r \notin pos + 1 .. q - 1
    OBVIOUS
  <2> QED BY <1>1, <2>1
<1>3. pos \notin Faults => FaultsBefore(q) = FaultsBefore(pos)
  BY <1>2 DEF FaultsBefore
<1>4. ASSUME pos \in Faults PROVE FaultsBefore(q) = FaultsBefore(pos) \cup {pos}
  BY <1>2, <1>4 DEF FaultsBefore
<1>5. IsFiniteSet(FaultsBefore(pos)) /\ pos \notin FaultsBefore(pos)
  <2>1. FaultsBefore(pos) \subseteq Faults
    BY DEF FaultsBefore
  <2>2. pos \notin FaultsBefore(pos)
    BY <1>1 DEF FaultsBefore
  <2> QED BY <2>1, <2>2, FaultsFinite
<1>6. Cardinality(FaultsBefore(pos) \cup {pos}) = Cardinality(FaultsBefore(pos)) + 1
  BY <1>5, FS_AddElement
<1>7. ASSUME pos \in Faults PROVE Nth(Faults, pos) = Cardinality(FaultsBefore(pos) \cup {pos})
  <2>1. {r \in Faults : r <= pos} = FaultsBefore(pos) \cup {pos}
    <3>1. \A r \in Faults : r <= pos <=> r < pos \/ r = pos
      BY <1>1
    <3> QED BY <1>7, <3>1 DEF FaultsBefore
  <2> QED BY <2>1 DEF Nth
<1> QED BY <1>3, <1>4, <1>6, <1>7

LocatedAt(loc, p) == loc.line = LineOf(p) /\ loc.column = ColumnOf(p)
Reports(d, p) == /\ d.level = "error" /\ d.location.line = LineOf(p)
                 /\ Pair(p, "/", "*") => LocatedAt(d.location, p)
FaultsFound == \A p \in FaultsBefore(pos) : Reports(diag.diagnostics[Nth(Faults, p)], p)

Reporting ==
  /\ Sweeping /\ Pointing /\ SourceAsciiTicks
  /\ diag.errorCount = Len(diag.diagnostics)
  /\ Len(diag.diagnostics) = Cardinality(FaultsBefore(pos)) /\ FaultsFound

LEMMA ReportsStay ==
  ASSUME src' = src
  PROVE  /\ FaultsBefore(pos)' = FaultsBefore(pos')
         /\ (\A p \in FaultsBefore(pos') : Reports(diag'.diagnostics[Nth(Faults, p)], p))
              => FaultsFound'
<1> DEFINE L(s, p) == 1 + Cardinality({q \in 1 .. p - 1 : s[q] = "nl"})
           C(s, p) == p - (CHOOSE q \in 0 .. p - 1 :
                             /\ q = 0 \/ s[q] = "nl"
                             /\ \A r \in q + 1 .. p - 1 : s[r] # "nl")
           PeekOf(s, p) == IF p <= Len(s) THEN s[p] ELSE "end"
           Of(s, d, p) ==
             /\ d.level = "error" /\ d.location.line = L(s, p)
             /\ (PeekOf(s, p) = "/" /\ PeekOf(s, p + 1) = "*") =>
                  d.location.line = L(s, p) /\ d.location.column = C(s, p)
<1>1. Faults' = Faults
  BY FaultsStay
<1>2. FaultsBefore(pos)' = FaultsBefore(pos')
  BY <1>1 DEF FaultsBefore
<1>3. \A d, p : Reports(d, p) <=> Of(src, d, p)
  BY DEF Reports, LocatedAt, LineOf, ColumnOf, Pair, peek, Size
<1>4. FaultsFound' <=> \A p \in FaultsBefore(pos)' :
                         Of(src', diag'.diagnostics[Nth(Faults', p)], p)
  BY DEF FaultsFound, Reports, LocatedAt, LineOf, ColumnOf, Pair, peek, Size, Nth
<1> HIDE DEF Of
<1> QED BY <1>1, <1>2, <1>3, <1>4

(***************************************************************************)
(* What keeps Reporting: a round that reports nothing where there is no    *)
(* fault, and one that reports a fault.                                    *)
(***************************************************************************)
LEMMA QuietFaults ==
  ASSUME QuietInside
  PROVE  \A r \in pos + 1 .. pos' - 1 : r \notin Faults
  BY NoFault DEF QuietInside

LEMMA ReportingSilent ==
  ASSUME Reporting, Sweeping', Pointing', src' = src, diag' = diag, pos \in 1 .. Size,
         pos' \in pos + 1 .. Size + 1, QuietInside, pos \notin Faults
  PROVE  Reporting'
<1>1. SourceOK /\ SourceAsciiTicks'
  BY ReadStays DEF Reporting, Sweeping, Typed
<1>2. FaultsBefore(pos') = FaultsBefore(pos)
  BY <1>1, QuietFaults, FaultsGrow
<1>3. FaultsBefore(pos)' = FaultsBefore(pos)
  BY <1>2, ReportsStay
<1>4. FaultsFound'
  BY <1>2, ReportsStay DEF Reporting, FaultsFound
<1> QED BY <1>1, <1>3, <1>4 DEF Reporting

LEMMA ReportingError ==
  ASSUME Reporting, Sweeping', Pointing', src' = src, pos \in 1 .. Size,
         pos' \in pos + 1 .. Size + 1, QuietInside, pos \in Faults,
         NEW loc, loc.line = LineOf(pos), Pair(pos, "/", "*") => LocatedAt(loc, pos),
         diag' = emit(diag, "error", loc)
  PROVE  Reporting'
<1>1. SourceOK /\ SourceAsciiTicks' /\ pos \in Nat
  BY ReadStays, Characters DEF Reporting, Sweeping, Typed
<1> DEFINE d  == [level |-> "error", location |-> loc]
           ds == diag.diagnostics
           n  == Cardinality(FaultsBefore(pos))
<1>2. /\ FaultsBefore(pos') = FaultsBefore(pos) \cup {pos}
      /\ Cardinality(FaultsBefore(pos')) = n + 1
      /\ Nth(Faults, pos) = n + 1
  BY <1>1, QuietFaults, FaultsGrow
<1>3. FaultsBefore(pos)' = FaultsBefore(pos')
  BY ReportsStay
<1>4. /\ ds \in Seq(Diagnostic) /\ Len(ds) = n /\ n \in Nat
      /\ diag'.diagnostics = Append(ds, d) /\ diag'.errorCount = diag.errorCount + 1
      /\ diag.errorCount = n
  BY DEF Reporting, Sweeping, Typed, EngineTyped, emit
<1>5. Reports(d, pos)
  BY DEF Reports
<1> HIDE DEF d, n
<1>6. /\ Len(diag'.diagnostics) = n + 1 /\ diag'.diagnostics[n + 1] = d
      /\ \A i \in 1 .. n : diag'.diagnostics[i] = ds[i]
  <2> DEFINE es == Append(ds, d)
  <2>1. Len(es) = Len(ds) + 1 /\ es[Len(ds) + 1] = d /\ \A i \in 1 .. Len(ds) : es[i] = ds[i]
    <3>1. ds \in Seq(Diagnostic)
      BY <1>4
    <3> HIDE DEF ds
    <3> QED BY <3>1
  <2> HIDE DEF es
  <2>2. diag'.diagnostics = es /\ Len(ds) = n
    BY <1>4 DEF es
  <2> QED BY <2>1, <2>2
<1>7. ASSUME NEW p \in FaultsBefore(pos)
      PROVE  Reports(diag'.diagnostics[Nth(Faults, p)], p)
  <2>1. Nth(Faults, p) \in 1 .. n
    BY <1>1, NthIs DEF n
  <2>2. Reports(ds[Nth(Faults, p)], p)
    BY DEF Reporting, FaultsFound
  <2> QED BY <1>6, <2>1, <2>2
<1>8. FaultsFound'
  <2>1. \A p \in FaultsBefore(pos') : Reports(diag'.diagnostics[Nth(Faults, p)], p)
    BY <1>2, <1>5, <1>6, <1>7
  <2> QED BY <2>1, ReportsStay
<1>9. /\ diag'.errorCount = Len(diag'.diagnostics)
      /\ Len(diag'.diagnostics) = Cardinality(FaultsBefore(pos)')
  BY <1>2, <1>3, <1>4, <1>6
<1> QED BY <1>1, <1>8, <1>9 DEF Reporting

\* Where the lexer does not move.
LEMMA ReportingEnd ==
  ASSUME Reporting, Sweeping', Pointing', src' = src, diag' = diag, pos' = pos
  PROVE  Reporting'
<1>1. SourceAsciiTicks' /\ FaultsBefore(pos)' = FaultsBefore(pos)
  BY ReadStays, ReportsStay DEF Reporting
<1>2. FaultsFound'
  BY ReportsStay DEF Reporting, FaultsFound
<1> QED BY <1>1, <1>2 DEF Reporting

\* A token that Token() makes: in error if and only if its first character is
\* at fault.
LEMMA ReportingToken ==
  ASSUME Reporting, Sweeping', Pointing', QuietInside, pos \in 1 .. Size,
         NEW kind, NEW q \in pos + 1 .. Size + 1, Token(kind, q), ~Pair(pos, "/", "*"),
         kind = "error" <=> pos \in Faults
  PROVE  Reporting'
<1>1. /\ src' = src /\ pos' = q
      /\ diag' = IF kind = "error" THEN emit(diag, "error", openLoc) ELSE diag
  BY DEF Token, MoveTo
<1>2. openLoc.line = LineOf(pos)
  BY DEF openLoc, Reporting, Pointing, HereLocated
<1>3. CASE kind = "error"
  BY <1>1, <1>2, <1>3, ReportingError
<1>4. CASE kind # "error"
  BY <1>1, <1>4, ReportingSilent
<1> QED BY <1>3, <1>4

(***************************************************************************)
(* Where the lexer finds no end of a comment, of a string or of a          *)
(* character, there is none.                                               *)
(***************************************************************************)
LEMMA CommentFault ==
  ASSUME Sweeping, state = "scan", BlockComment
  PROVE  CommentEnd(pos + 2).depth > 0 <=> pos \in Faults
<1> DEFINE q == CommentEnd(pos + 2).to
           e == CommentEnd(pos + 2).depth
<1>1. /\ pos \in 1 .. Size /\ Size \in Nat /\ SourceOK
      /\ src[pos] = "/" /\ peek(pos) = src[pos]
      /\ pos + 1 \in 1 .. Size /\ src[pos + 1] = "*" /\ pos + 2 \in 1 .. Size + 1
      /\ q \in pos + 2 .. Size + 1 /\ e \in Nat
  BY BlockCommentAt DEF Sweeping
<1>2. InContext
  BY <1>1, ContextSteps DEF InContext
<1>3. Context[pos] = Code /\ Pair(pos, "/", "*")
  BY <1>1, BeginsInCode DEF Pair, BlockComment
<1>4. Context[pos + 1] = Open("block", 1, TRUE)
  <2>1. Context[pos + 1] = After(Context[pos], pos)
    BY <1>1, <1>2 DEF InContext
  <2> QED BY <1>1, <1>3, <2>1, AfterCode
<1>5. Nested(pos + 2, 1)
  <2>1. Context[(pos + 1) + 1] = After(Context[pos + 1], pos + 1) /\ (pos + 1) + 1 = pos + 2
    BY <1>1, <1>2 DEF InContext
  <2>2. After(Open("block", 1, TRUE), pos + 1) =
          IF "block" = "block" /\ 1 = 0 THEN Code ELSE Open("block", 1, FALSE)
    BY AfterSkip
  <2> QED BY <1>4, <2>1, <2>2 DEF Nested
<1>6. /\ \A r \in pos + 2 .. q - 1 : Context[r].in = "block"
      /\ Nested(q, e) /\ (q <= Size => e = 0)
  BY <1>1, <1>2, <1>5, CommentEnds
<1> HIDE DEF q, e
<1>7. e > 0 <=> ~CommentCloses(Context, pos)
  <2>1. CASE e = 0
    <3>1. Context[q].in # "block" /\ q \in pos + 1 .. Size + 1
      BY <1>1, <1>6, <2>1 DEF Nested, Code, Open
    <3> QED BY <2>1, <3>1 DEF CommentCloses
  <2>2. CASE e # 0
    <3>1. q = Size + 1 /\ e > 0 /\ Context[q].in = "block"
      BY <1>1, <1>6, <2>2 DEF Nested, Open
    <3>2. \A r \in pos + 1 .. Size + 1 : r = pos + 1 \/ r \in pos + 2 .. q - 1 \/ r = q
      BY <1>1, <3>1
    <3>3. \A r \in pos + 1 .. Size + 1 : Context[r].in = "block"
      BY <1>4, <1>6, <3>1, <3>2 DEF Open
    <3> QED BY <3>1, <3>3 DEF CommentCloses
  <2> QED BY <2>1, <2>2
<1>8. pos \in Faults <=> ~CommentCloses(Context, pos)
  <2>1. src[pos] \in Starts /\ src[pos] # "quote" /\ src[pos] # "tick"
    BY <1>1 DEF Starts
  <2> QED BY <1>1, <1>3, <2>1, FaultIs DEF FaultAt
<1> QED BY <1>7, <1>8 DEF e

LEMMA StringFault ==
  ASSUME Sweeping, lexString
  PROVE  StringEnd(pos + 1).kind = "error" <=> pos \in Faults
<1> DEFINE e == StringEnd(pos + 1).to
           k == StringEnd(pos + 1).kind
<1>1. /\ pos \in 1 .. Size /\ Size \in Nat /\ SourceOK /\ InContext /\ src[pos] = "quote"
      /\ peek(pos) = src[pos] /\ pos + 1 \in 1 .. Size + 1 /\ Context[pos] = Code
      /\ ~Pair(pos, "/", "*")
  <2>1. At({"quote"}) /\ "end" \notin {"quote"}
    BY DEF lexString
  <2> QED BY <2>1, TokenBegins
<1>2. Context[pos + 1] = Open("string", 0, FALSE)
  <2>1. Context[pos + 1] = After(Context[pos], pos)
    BY <1>1 DEF InContext
  <2> QED BY <1>1, <2>1, AfterCode
<1>3. /\ e \in pos + 1 .. Size + 1 /\ k \in {"string", "error"}
      /\ \A r \in pos + 1 .. e - 1 : Context[r].in = "string"
      /\ e <= Size => Context[e] = Code
      /\ StringEnded(e, k)
  BY <1>1, <1>2, StringEnds
<1> HIDE DEF e, k
<1>4. ASSUME k = "string" PROVE StringCloses(Context, pos)
  <2>1. src[e - 1] = "quote" /\ Context[e - 1] = Open("string", 0, FALSE)
    BY <1>3, <1>4 DEF StringEnded
  <2>2. e - 1 # pos
    BY <1>1, <2>1 DEF Code, Open
  <2>3. e - 1 \in pos + 1 .. Size
    BY <1>1, <1>3, <2>2
  <2>4. ~Context[e - 1].skip
    BY <2>1 DEF Open
  <2> QED BY <1>3, <2>1, <2>3, <2>4 DEF StringCloses
<1>5. ASSUME k = "error", StringCloses(Context, pos) PROVE FALSE
  <2>1. PICK q \in pos + 1 .. Size : /\ src[q] = "quote" /\ ~Context[q].skip
                                     /\ \A r \in pos + 1 .. q : Context[r].in = "string"
    BY <1>5 DEF StringCloses
  <2>2. q \in 1 .. Size /\ q \in pos + 1 .. q
    BY <1>1
  <2>3. Context[q + 1] = Code
    <3>1. Context[q].in = "string" /\ Context[q + 1] = After(Context[q], q)
      BY <1>1, <2>1, <2>2 DEF InContext
    <3> QED BY <2>1, <3>1 DEF After
  <2>4. ~(e <= q)
    <3> SUFFICES ASSUME e <= q PROVE FALSE
      OBVIOUS
    <3>1. e \in pos + 1 .. q /\ e <= Size
      BY <1>1, <1>3
    <3> QED BY <1>3, <2>1, <3>1 DEF Code, Open
  <2>5. ~(q < e - 1)
    <3> SUFFICES ASSUME q < e - 1 PROVE FALSE
      OBVIOUS
    <3>1. q + 1 \in pos + 1 .. e - 1
      BY <1>1, <1>3
    <3> QED BY <1>3, <2>3, <3>1 DEF Code, Open
  <2>6. q = e - 1 /\ q + 1 = e
    BY <1>1, <1>3, <2>4, <2>5
  <2>7. src[e - 1] = "nl" \/ Context[e] # Code
    BY <1>3, <1>5 DEF StringEnded
  <2> QED BY <2>1, <2>3, <2>6, <2>7
<1>6. pos \in Faults <=> ~StringCloses(Context, pos)
  BY <1>1, FaultIs DEF FaultAt
<1>7. k = "error" <=> pos \in Faults
  BY <1>3, <1>4, <1>5, <1>6
<1> QED BY <1>7 DEF k

LEMMA NextReporting ==
  ASSUME Reporting, [Next]_vars
  PROVE  Reporting'
<1>1. /\ Sweeping' /\ Pointing' /\ Sweeping /\ Pointing /\ Typed /\ Typed' /\ SourceAsciiTicks
      /\ line = LineOf(pos) /\ column = ColumnOf(pos) /\ SourceOK
  BY NextSweeps, NextPointing DEF Reporting, Sweeping, Pointing, HereLocated, Typed
<1>2. CASE SkipBlank
  <2>1. /\ pos \in 1 .. Size /\ src[pos] \in Blanks /\ pos + 1 \in pos + 1 .. Size + 1
        /\ src' = src /\ pos' = pos + 1 /\ diag' = diag
    <3>1. pos \in 1 .. Size /\ src[pos] \in Blanks /\ Size \in Nat
      BY <1>1, <1>2, AtPosition, NoEnd, Characters DEF SkipBlank
    <3>2. pos + 1 \in pos + 1 .. Size + 1
      BY <3>1
    <3> QED BY <1>2, <3>1, <3>2 DEF SkipBlank, MoveTo
  <2> QED BY <1>1, <1>2, <2>1, BlankSweeps, NoFault, ReportingSilent
<1>3. CASE skipLineComment
  <2>1. /\ pos \in 1 .. Size /\ Size \in Nat /\ src[pos] = "/" /\ peek(pos + 1) = "/"
        /\ pos + 1 \in 1 .. Size /\ src' = src /\ diag' = diag /\ pos \notin Faults
    <3>1. /\ pos \in 1 .. Size /\ Size \in Nat /\ src[pos] = "/" /\ peek(pos + 1) = "/"
          /\ pos + 1 \in 1 .. Size
      BY <1>1, <1>3, LineCommentAt DEF skipLineComment, Sweeping, SourceNoHash
    <3>2. src' = src /\ diag' = diag
      BY <1>3 DEF skipLineComment, MoveTo
    <3>3. ~Pair(pos, "/", "*")
      BY <3>1 DEF Pair
    <3> QED BY <3>1, <3>2, <3>3, NoFault
  <2>2. pos' \in pos + 1 .. Size + 1
    <3> DEFINE q == Past(pos + 2, Chars \ {"nl"})
    <3>1. pos + 2 \in 1 .. Size + 1 /\ "end" \notin Chars \ {"nl"} /\ ~(pos + 1 > Size)
      BY <1>1, <2>1, Characters
    <3>2. q \in pos + 2 .. Size + 1
      BY <1>1, <3>1, PastOK
    <3>3. pos' = q
      BY <1>3, <3>1 DEF skipLineComment, MoveTo
    <3> HIDE DEF q
    <3> QED BY <2>1, <3>2, <3>3
  <2> QED BY <1>1, <1>3, <2>1, <2>2, LineCommentSweeps, ReportingSilent
<1>4. CASE skipBlockComment
  <2> DEFINE q == CommentEnd(pos + 2).to
             e == CommentEnd(pos + 2).depth
             loc == [line |-> line, column |-> column]
  <2>1. /\ state = "scan" /\ BlockComment /\ src' = src /\ pos' = q
        /\ diag' = IF e > 0 THEN emit(diag, "error", loc) ELSE diag
    BY <1>4 DEF skipBlockComment, MoveTo
  <2>2. pos \in 1 .. Size /\ Size \in Nat /\ q \in pos + 2 .. Size + 1
    BY <1>1, <2>1, BlockCommentAt
  <2>3. e > 0 <=> pos \in Faults
    BY <1>1, <2>1, CommentFault
  <2>4. QuietInside
    BY <1>1, <1>4, BlockCommentSweeps
  <2>5. loc.line = LineOf(pos) /\ LocatedAt(loc, pos)
    BY <1>1 DEF LocatedAt
  <2> HIDE DEF q, e, loc
  <2>6. pos' \in pos + 1 .. Size + 1
    BY <2>1, <2>2
  <2>7. CASE e > 0
    BY <1>1, <2>1, <2>2, <2>3, <2>4, <2>5, <2>6, <2>7, ReportingError
  <2>8. CASE ~(e > 0)
    BY <1>1, <2>1, <2>2, <2>3, <2>4, <2>6, <2>8, ReportingSilent
  <2> QED BY <2>7, <2>8
<1>5. CASE Eof
  <2>1. src' = src /\ pos' = pos /\ diag' = diag
    BY <1>5 DEF Eof, MoveTo
  <2> QED BY <1>1, <2>1, ReportingEnd
<1>6. CASE lexIdentifierOrKeyword
  <2>1. /\ At(Letters) /\ "end" \notin Letters /\ pos \in 1 .. Size /\ src[pos] \in Inert
        /\ ~Pair(pos, "/", "*")
    <3>1. At(Letters) /\ "end" \notin Letters
      BY <1>6, NoEnd DEF lexIdentifierOrKeyword
    <3> QED BY <1>1, <3>1, TokenBegins DEF Inert
  <2>2. PICK q : Plainly(q) /\ Token("ident", q)
    BY <1>1, <1>6, IdentifierEnds
  <2>3. QuietInside
    BY <1>1, <2>1, <2>2, PlainSweeps
  <2>4. pos \notin Faults /\ q \in pos + 1 .. Size + 1
    BY <2>1, <2>2, NoFault DEF Plainly
  <2> QED BY <1>1, <2>1, <2>2, <2>3, <2>4, ReportingToken
<1>7. CASE lexNumber
  <2>1. /\ At(Digits) /\ "end" \notin Digits /\ pos \in 1 .. Size /\ src[pos] \in Inert
        /\ ~Pair(pos, "/", "*")
    <3>1. At(Digits) /\ "end" \notin Digits
      BY <1>7, NoEnd DEF lexNumber
    <3> QED BY <1>1, <3>1, TokenBegins DEF Inert
  <2>2. PICK q, kind : Plainly(q) /\ Token(kind, q) /\ kind \in {"int", "float"}
    BY <1>1, <1>7, NumberEnds
  <2>3. QuietInside
    BY <1>1, <2>1, <2>2, PlainSweeps
  <2>4. pos \notin Faults /\ q \in pos + 1 .. Size + 1 /\ kind # "error"
    BY <2>1, <2>2, NoFault DEF Plainly
  <2> QED BY <1>1, <2>1, <2>2, <2>3, <2>4, ReportingToken
<1>8. CASE lexString
  <2>1. pos \in 1 .. Size /\ ~Pair(pos, "/", "*")
    <3>1. At({"quote"}) /\ "end" \notin {"quote"}
      BY <1>8 DEF lexString
    <3> QED BY <1>1, <3>1, TokenBegins
  <2>2. StringEnd(pos + 1).to \in pos + 1 .. Size + 1
    BY <1>1, <1>8, StringToken
  <2>3. Token(StringEnd(pos + 1).kind, StringEnd(pos + 1).to)
    BY <1>8 DEF lexString
  <2>4. StringEnd(pos + 1).kind = "error" <=> pos \in Faults
    BY <1>1, <1>8, StringFault
  <2>5. QuietInside
    BY <1>1, <1>8, StringSweeps
  <2> QED BY <1>1, <2>1, <2>2, <2>3, <2>4, <2>5, ReportingToken
<1>9. CASE lexChar
  <2>1. pos \in 1 .. Size /\ Context[pos] = Code /\ ~Pair(pos, "/", "*") /\ src[pos] = "tick"
    <3>1. At({"tick"}) /\ "end" \notin {"tick"}
      BY <1>9 DEF lexChar
    <3> QED BY <1>1, <3>1, TokenBegins
  <2>2. PICK kind, q : /\ q \in pos + 1 .. Size + 1 /\ kind \in {"char", "error"}
                       /\ Token(kind, q) /\ (kind = "char" <=> CharLiteral(pos))
    BY <1>1, <1>9, CharRead
  <2>3. pos \in Faults <=> ~CharLiteral(pos)
    BY <2>1, FaultIs DEF FaultAt
  <2>4. kind = "error" <=> pos \in Faults
    BY <2>2, <2>3
  <2>5. QuietInside
    BY <1>1, <1>9, CharSweeps
  <2> QED BY <1>1, <2>1, <2>2, <2>4, <2>5, ReportingToken
<1>10. CASE Operator
  <2>1. /\ At(Starts) /\ "end" \notin Starts /\ pos \in 1 .. Size /\ src[pos] \in Inert \cup {"/"}
        /\ ~Pair(pos, "/", "*")
    <3>1. At(Starts) /\ "end" \notin Starts
      BY <1>10, NoEnd DEF Operator
    <3> QED BY <1>1, <3>1, TokenBegins DEF Inert
  <2>2. PICK q : Plainly(q) /\ Token("op", q)
    BY <1>1, <1>10, OperatorEnds
  <2>3. QuietInside
    BY <1>1, <2>1, <2>2, PlainSweeps
  <2>4. pos \notin Faults /\ q \in pos + 1 .. Size + 1
    BY <2>1, <2>2, NoFault DEF Plainly
  <2> QED BY <1>1, <2>1, <2>2, <2>3, <2>4, ReportingToken
<1>11. CASE Unexpected
  <2> DEFINE loc == [line |-> line', column |-> column']
             S   == Chars \ (Letters \cup Digits \cup Starts \cup {"quote", "tick"})
  <2>1. src' = src /\ pos' = pos + 1 /\ diag' = emit(diag, "error", loc)
    BY <1>11 DEF Unexpected, MoveTo
  <2>2. /\ pos \in 1 .. Size /\ Size \in Nat /\ src[pos] \in S /\ ~Skipping /\ peek(pos) = src[pos]
        /\ Context[pos] = Code /\ ~Pair(pos, "/", "*") /\ src[pos] # "#"
    <3>1. At(S) /\ "end" \notin S
      BY <1>11, LexerBounds DEF Unexpected, Chars
    <3> HIDE DEF S
    <3> QED BY <1>1, <3>1, TokenBegins DEF At
  <2>3. src[pos] \notin Blanks
    BY <2>2 DEF Skipping
  <2>4. pos \in Faults
    BY <2>2, <2>3, FaultIs DEF FaultAt
  <2>5. loc.line = LineOf(pos)
    <3>1. NewlinesIn(pos, pos + 1) = {}
      <4>1. \A r \in pos .. (pos + 1) - 1 : r = pos
        BY <2>2
      <4> QED BY <2>3, <4>1 DEF NewlinesIn, Blanks
    <3>2. line' = line + Cardinality(NewlinesIn(pos, pos + 1))
      BY <1>11 DEF Unexpected, MoveTo
    <3>3. Cardinality(NewlinesIn(pos, pos + 1)) = 0 /\ line \in Nat
      BY <1>1, <3>1, FS_EmptySet DEF Typed, Placed
    <3> QED BY <1>1, <3>2, <3>3
  <2>6. QuietInside /\ pos' \in pos + 1 .. Size + 1
    BY <1>1, <1>11, <2>1, <2>2, UnexpectedSweeps
  <2> HIDE DEF loc, S
  <2> QED BY <1>1, <2>1, <2>2, <2>4, <2>5, <2>6, ReportingError
<1>12. CASE UNCHANGED vars
  <2>1. src' = src /\ pos' = pos /\ diag' = diag
    BY <1>12 DEF vars
  <2> QED BY <1>1, <2>1, ReportingEnd
<1> QED BY <1>2, <1>3, <1>4, <1>5, <1>6, <1>7, <1>8, <1>9, <1>10, <1>11, <1>12 DEF Next, Finished

LEMMA InitReporting ==
  ASSUME NoHash, AsciiTicks, Init
  PROVE  Reporting
<1>1. Sweeping /\ Pointing /\ SourceAsciiTicks /\ SourceOK
  BY InitSweeping, InitPointing, InitForming DEF Forming, Sweeping, Typed
<1>2. pos = 1 /\ diag.diagnostics = <<>> /\ diag.errorCount = 0
  BY DEF Init, NoDiagnostics
<1>3. FaultsBefore(pos) = {}
  BY <1>2, FaultIs DEF FaultsBefore
<1>4. Cardinality(FaultsBefore(pos)) = 0
  BY <1>3, FS_EmptySet
<1>5. FaultsFound
  BY <1>3 DEF FaultsFound
<1>6. Len(diag.diagnostics) = 0
  BY <1>2
<1> QED BY <1>1, <1>2, <1>4, <1>5, <1>6 DEF Reporting

\* The lexer reports the faults of the source and nothing else: one error for
\* each, in their order, on the line of the fault, and for a comment without
\* end with the caret below the sign that opens it; so the phases after the
\* lexer see errors exactly when the source has a fault.  The faults are read
\* off the source: characters of no token, and strings, characters and
\* comments without end.
THEOREM LexerFaults == NoHash /\ AsciiTicks => (Spec => []FaultsReported)
<1>1. NoHash /\ AsciiTicks /\ Init => Reporting
  BY InitReporting
<1>2. Reporting /\ [Next]_vars => Reporting'
  BY NextReporting
<1>3. Reporting => FaultsReported
  <2> SUFFICES ASSUME Reporting, state = "done" PROVE FaultsReported
    BY DEF FaultsReported
  <2>1. pos = Size + 1 /\ Size \in Nat /\ SourceOK
    BY Characters DEF Reporting, Sweeping, Typed
  <2>2. FaultsBefore(pos) = Faults
    <3>1. \A p \in Faults : p < pos
      BY <2>1, FaultIs
    <3> QED BY <3>1 DEF FaultsBefore
  <2>3. Cardinality(Faults) \in Nat /\ (Cardinality(Faults) = 0 <=> Faults = {})
    BY <2>1, FaultsFinite
  <2>4. diag.errorCount = Cardinality(Faults) /\ Len(diag.diagnostics) = Cardinality(Faults)
    BY <2>2 DEF Reporting
  <2>5. hasErrors(diag) <=> Faults # {}
    BY <2>3, <2>4 DEF hasErrors
  <2>6. ASSUME NEW p \in Faults
        PROVE  /\ diag.diagnostics[Nth(Faults, p)].level = "error"
               /\ diag.diagnostics[Nth(Faults, p)].location.line = LineOf(p)
               /\ Pair(p, "/", "*") /\ AsciiBefore(p)
                    => PointsAt(diag.diagnostics[Nth(Faults, p)].location, p)
    <3>1. Reports(diag.diagnostics[Nth(Faults, p)], p)
      BY <2>2 DEF Reporting, FaultsFound
    <3>2. p \in 1 .. Size + 1
      BY <2>1, FaultIs
    <3> QED BY <2>1, <3>1, <3>2, LocatedPointsAt DEF Reports, LocatedAt
  <2> QED BY <2>4, <2>5, <2>6 DEF FaultsReported
<1> QED BY <1>1, <1>2, <1>3, PTL DEF Spec
=============================================================================
