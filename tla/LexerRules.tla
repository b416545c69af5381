----------------------------- MODULE LexerRules -----------------------------
(***************************************************************************)
(* What the tokens of a source should be, independently of how the lexer   *)
(* gets at them: docs/grammar.md section 7, docs/V_LANGUAGE_V01_PLAN.md    *)
(* section 3 on comments.                                                  *)
(***************************************************************************)
EXTENDS Lexer

(***************************************************************************)
(* Where each character is: in the program, in a string or character, or   *)
(* in a comment.  context[p] is what the characters before p leave open:   *)
(* "code", "line", "string", "char", or the depth of a block comment; skip *)
(* says that the character at p belongs to the pair that began before it.  *)
(* The depth of a character literal is what it awaits: 2 its character, 3  *)
(* the one after a backslash, 1 the closing tick, 0 the end of a literal   *)
(* that is too long.                                                       *)
(***************************************************************************)
Open(in, depth, skip) == [in |-> in, depth |-> depth, skip |-> skip]
Code == Open("code", 0, FALSE)
Pair(p, a, b) == peek(p) = a /\ peek(p + 1) = b

Context ==
  LET context[p \in 1 .. Size + 1] ==
        IF p = 1 THEN Code
        ELSE LET c == context[p - 1]
                 q == p - 1
             IN  CASE c.skip -> IF c.in = "block" /\ c.depth = 0 THEN Code
                                ELSE Open(c.in, c.depth, FALSE)
                   [] c.in = "code" /\ ~c.skip ->
                        CASE Pair(q, "/", "/") -> Open("line", 0, TRUE)
                          [] src[q] = "#"      -> Open("line", 0, FALSE)
                          [] Pair(q, "/", "*") -> Open("block", 1, TRUE)
                          [] src[q] = "quote"  -> Open("string", 0, FALSE)
                          [] src[q] = "tick"   -> Open("char", 2, FALSE)
                          [] OTHER -> Code
                   [] c.in = "line" /\ ~c.skip ->
                        IF src[q] = "nl" THEN Code ELSE c
                   [] c.in = "string" /\ ~c.skip ->
                        CASE src[q] = "esc" -> Open("string", 0, TRUE)
                          [] src[q] \in {"quote", "nl"} -> Code
                          [] OTHER -> c
                   [] c.in = "char" /\ ~c.skip ->
                        CASE c.depth = 2 /\ src[q] = "esc" -> Open("char", 3, FALSE)
                          [] c.depth = 3 \/ (c.depth = 2 /\ src[q] # "esc") ->
                               Open("char", 1, Pair(q, "lead", "cont"))
                          [] c.depth < 2 /\ src[q] \in {"tick", "nl"} -> Code
                          [] OTHER -> Open("char", 0, FALSE)
                   [] c.in = "block" /\ ~c.skip ->
                        CASE Pair(q, "/", "*") -> Open("block", c.depth + 1, TRUE)
                          [] Pair(q, "*", "/") -> Open("block", c.depth - 1, TRUE)
                          [] OTHER -> c
  IN  context

\* The characters that are part of a token.
Significant ==
  LET context == Context
  IN  {p \in 1 .. Size :
         \/ context[p].in = "string"
         \/ context[p].in = "char" /\ (context[p].depth < 2 => src[p] # "nl")
         \/ /\ context[p] = Code /\ src[p] \notin Blanks \cup {"#"}
            /\ ~Pair(p, "/", "/") /\ ~Pair(p, "/", "*")}
Spans == UNION {tokens[i].first .. tokens[i].last : i \in DOMAIN tokens}

\* No character of the program is lost in a comment or between two tokens,
\* and none of a comment gets into a token (skipLineComment,
\* skipBlockComment, which nest, and lexString and lexChar, which hide
\* comment signs and each other's quotes).
NothingSwallowed == state = "done" => Spans = Significant

(***************************************************************************)
(* The tokens of the grammar.                                              *)
(***************************************************************************)
All(p, q, S) == p <= q /\ \A r \in p .. q : src[r] \in S
Ident(p, q)  == src[p] \in Letters /\ All(p, q, Letters \cup Digits)
Decimal(p, q) == All(p, q, Digits) /\ (src[p] = "0" => p = q)
Prefixed(p, q) ==
  /\ q > p + 1 /\ src[p] = "0"
  /\ \/ src[p + 1] = "x" /\ All(p + 2, q, HexDigits)
     \/ src[p + 1] \in {"b", "o"} /\ All(p + 2, q, Digits)
Fraction(p, q) ==
  \E d \in p + 1 .. q - 1 : All(p, d - 1, Digits) /\ src[d] = "." /\ All(d + 1, q, Digits)
Exponent(p, q) ==
  \E s \in {1, 2} : /\ src[p] = "e" /\ (s = 2 => peek(p + 1) \in {"+", "-"})
                    /\ All(p + s, q, Digits)
Float(p, q) == Fraction(p, q)
               \/ \E e \in p .. q : Fraction(p, e - 1) /\ Exponent(e, q)
Symbol(p, q) ==
  SubSeq(src, p, q) \in
    {<<s>> : s \in Starts} \cup Pairs \cup {<<".", ".", ".">>}

Class(kind, p, q) ==
  CASE kind = "ident" -> Ident(p, q)
    [] kind = "int"   -> Decimal(p, q) \/ Prefixed(p, q)
    [] kind = "float" -> Float(p, q)
    [] kind = "op"    -> Symbol(p, q)
Plain == {"ident", "int", "float", "op"}

\* A token without quotes is of its class in the grammar (lexNumber,
\* lexIdentifierOrKeyword and the operators).
OfItsClass(t) == Class(t.kind, t.first, t.last)
\* A token without quotes is the longest that the source has there: none of
\* the lookaheads of lexNumber and lexOperatorOrPunct stops too early.
Longest(t) == \A q \in t.last + 1 .. Size, kind \in Plain : ~Class(kind, t.first, q)

\* What begins at p as a number and is none of the grammar's: a digit after
\* a leading zero, an exponent of an integer, a prefix or an exponent
\* without digits.  The lexer takes each for one token (README, divergences).
Malformed(p) ==
  \/ /\ src[p] = "0" /\ peek(p + 1) \in Digits
     /\ \A q \in p + 1 .. Size : ~Fraction(p, q)
  \/ /\ src[p] = "0" /\ peek(p + 1) \in {"x", "b", "o"}
     /\ \A q \in p + 1 .. Size : ~Prefixed(p, q)
  \/ \E q \in p .. Size : All(p, q, Digits) /\ peek(q + 1) = "e"
  \/ \E q \in p .. Size : /\ Fraction(p, q) /\ peek(q + 1) = "e"
                          /\ \A r \in q + 1 .. Size : ~Exponent(q + 1, r)

\* A character literal is one code point, or a backslash and one, between
\* ticks (lexChar: "character literal may only contain one codepoint"; the
\* type char is a Unicode scalar value).
CodePoint(p, q) == \/ p = q /\ src[p] \notin {"lead", "cont"}
                   \/ q = p + 1 /\ src[p] = "lead" /\ src[q] = "cont"
CharLiteral(p) ==
  \E q \in p + 1 .. Size - 1 :
    /\ src[q + 1] = "tick"
    /\ IF src[p + 1] = "esc" THEN q > p + 1 /\ CodePoint(p + 2, q) ELSE CodePoint(p + 1, q)
Utf8 == \A p \in 1 .. Size : /\ src[p] = "lead" => peek(p + 1) = "cont"
                             /\ src[p] = "cont" => p > 1 /\ src[p - 1] = "lead"
CharLiterals ==
  Utf8 => \A i \in DOMAIN tokens :
    peek(tokens[i].first) = "tick" =>
      (tokens[i].kind = "char" <=> CharLiteral(tokens[i].first))

\* Every token is one of the grammar's, and as long as the source allows.
WellFormed ==
  state # "scan" =>
    /\ \A i \in DOMAIN tokens :
         LET t == tokens[i]
         IN  t.kind \in Plain /\ ~Malformed(t.first) => OfItsClass(t) /\ Longest(t)
    /\ CharLiterals

\* grammar.md section 7, of every number: which is not so of those that are
\* malformed (README, divergences).
NumbersOfGrammar ==
  state # "scan" =>
    \A i \in DOMAIN tokens :
      tokens[i].kind \in {"int", "float"} => OfItsClass(tokens[i]) /\ Longest(tokens[i])

(***************************************************************************)
(* Locations.                                                              *)
(***************************************************************************)
LineOf(p) == 1 + Cardinality({q \in 1 .. p - 1 : src[q] = "nl"})
ColumnOf(p) == p - (CHOOSE q \in 0 .. p - 1 :
                      /\ q = 0 \/ src[q] = "nl"
                      /\ \A r \in q + 1 .. p - 1 : src[r] # "nl")
\* SourceLocation.h: "1-based UTF-8 column number".
CharacterColumn(p) ==
  1 + Cardinality({q \in p - ColumnOf(p) + 1 .. p - 1 : src[q] # "cont"})
Located(t) == t.line = LineOf(t.first) /\ t.column = ColumnOf(t.first)
OneLine(t) == \A p \in t.first .. t.last : src[p] # "nl"

\* makeToken: "column of the first character of the token", which is not so
\* for a token with a newline in it (README, divergences).
EveryTokenLocated ==
  state # "scan" => \A i \in DOMAIN tokens : tokens[i].kind # "error" => Located(tokens[i])

\* The column of a token counts the characters before it on its line, which
\* is not so behind a character of two bytes (README, divergences).
ColumnsCountCharacters ==
  state = "done" /\ Utf8 /\ ~hasErrors(diag) =>
    \A i \in DOMAIN tokens :
      OneLine(tokens[i]) => tokens[i].column = CharacterColumn(tokens[i].first)

\* Every source is tokenised: no round of the loop stays where it is, and
\* advance() is not called at the end of the source, which its assertion
\* forbids.
Tokenised == <>(state = "done")
=============================================================================
