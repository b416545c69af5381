------------------------------- MODULE Lexer --------------------------------
(***************************************************************************)
(* The tokeniser (src/lexer/Lexer.cpp): one action per round of the loop   *)
(* that skips white space and comments, and one per kind of token.         *)
(*                                                                         *)
(* A character is one of the classes that the lexer tells apart: "g" is a  *)
(* letter of no special meaning, "nl" a newline, "sp" and "tab" blanks,    *)
(* "quote" and "tick" open strings and characters, "esc" is a backslash,   *)
(* "$" a character that begins no token, "lead" and "cont" the two bytes   *)
(* of a code point outside ASCII.                                          *)
(***************************************************************************)
EXTENDS Integers, Sequences, FiniteSets, Diagnostics

CONSTANTS
  Alphabets, \* sets of characters: a source uses those of one set
  MaxLen,   \* bound on the length of a source
  Word      \* 2^32, or less for TLC: the column of a location is a uint32_t

ASSUME LexerBounds == MaxLen \in Nat /\ Word \in Nat /\ Word > MaxLen + 1
                      /\ \A A \in Alphabets : "end" \notin A

VARIABLES
  src,      \* source_
  pos,      \* pos_, counted from 1
  line,     \* line_
  column,   \* column_
  tokens,   \* the tokens so far
  diag,     \* diagnostics(): the engine
  state     \* "scan", "done", or "abort": an assertion failed

vars == <<src, pos, line, column, tokens, diag, state>>

Chars     == UNION Alphabets
Letters   == {"g", "e", "x", "b", "o"}
Digits    == {"0", "1"}
HexDigits == Digits \cup {"e", "b"}
Blanks    == {"sp", "tab", "nl"}

Size == Len(src)
peek(p) == IF p <= Size THEN src[p] ELSE "end"

\* The first position from p on that holds no character of S.
Past(p, S) == CHOOSE q \in p .. Size + 1 :
                peek(q) \notin S /\ \A r \in p .. q - 1 : src[r] \in S

(***************************************************************************)
(* advance(), up to position q, and the tokens.                            *)
(***************************************************************************)
NewlinesIn(p, q) == {r \in p .. q - 1 : src[r] = "nl"}
MoveTo(q) ==
  /\ pos' = q
  /\ LET nls == NewlinesIn(pos, q)
     IN  /\ line' = line + Cardinality(nls)
         /\ column' = IF nls = {} THEN column + (q - pos)
                      ELSE q - (CHOOSE r \in nls : \A s \in nls : s <= r)
  /\ src' = src

\* Mutation of makeToken: the column is the one after the token.
makeTokenAfter(kind, q) ==
  [kind |-> kind, first |-> pos, last |-> q - 1, line |-> line', column |-> column']
\* The token from pos to the position before q, made when the lexer is at q.
makeToken(kind, q) ==
  [kind |-> kind, first |-> pos, last |-> q - 1, line |-> line',
   column |-> (column' - (q - pos)) % Word]

\* Mutation of openLoc: the location when the token is over.
closeLoc == [line |-> line', column |-> column']
\* lexString and lexChar take the location after the quote that opens them.
openLoc == [line |-> line, column |-> column + 1]

Token(kind, q) ==
  /\ MoveTo(q) /\ tokens' = Append(tokens, makeToken(kind, q))
  /\ diag' = IF kind = "error" THEN emit(diag, "error", openLoc) ELSE diag
  /\ state' = state

Init ==
  /\ \E A \in Alphabets : src \in UNION {[1 .. n -> A] : n \in 0 .. MaxLen}
  /\ pos = 1 /\ line = 1 /\ column = 1 /\ tokens = <<>> /\ diag = NoDiagnostics /\ state = "scan"

(***************************************************************************)
(* White space and comments.                                               *)
(***************************************************************************)
\* Mutation of LineComment: one slash is enough.
OneSlash == peek(pos) = "#" \/ (peek(pos) = "/" /\ peek(pos + 1) # "*")
LineComment  == peek(pos) = "#" \/ (peek(pos) = "/" /\ peek(pos + 1) = "/")
BlockComment == peek(pos) = "/" /\ peek(pos + 1) = "*"
Skipping     == peek(pos) \in Blanks \/ LineComment \/ BlockComment

\* Mutation of SkipBlank: the blank is looked at, and not consumed.
SkipNothing ==
  /\ state = "scan" /\ peek(pos) \in Blanks
  /\ MoveTo(pos) /\ UNCHANGED <<tokens, diag, state>>
SkipBlank ==
  /\ state = "scan" /\ peek(pos) \in Blanks
  /\ MoveTo(pos + 1) /\ UNCHANGED <<tokens, diag, state>>

\* Two characters, then the rest of the line.  advance() asserts that there
\* is a character to consume.
skipLineComment ==
  /\ state = "scan" /\ LineComment
  /\ IF pos + 1 > Size
     THEN state' = "abort" /\ UNCHANGED <<src, pos, line, column>>
     ELSE MoveTo(Past(pos + 2, Chars \ {"nl"})) /\ UNCHANGED state
  /\ UNCHANGED <<tokens, diag>>

\* Mutation of CommentEnd: comments do not nest.
FirstEnd(p) ==
  LET ends == {q \in p .. Size - 1 : src[q] = "*" /\ src[q + 1] = "/"}
  IN  IF ends = {} THEN [to |-> Size + 1, depth |-> 1]
      ELSE [to |-> (CHOOSE q \in ends : \A r \in ends : q <= r) + 2, depth |-> 0]
\* Where the comment whose text begins at p ends, and its depth there.
CommentEnd(p) ==
  LET from[q \in p .. Size + 2] ==
        [depth \in Nat |->
           IF q > Size \/ depth = 0 THEN [to |-> q, depth |-> depth]
           ELSE IF src[q] = "*" /\ peek(q + 1) = "/" THEN from[q + 2][depth - 1]
           ELSE IF src[q] = "/" /\ peek(q + 1) = "*" THEN from[q + 2][depth + 1]
           ELSE from[q + 1][depth]]
  IN  from[p][1]

skipBlockComment ==
  /\ state = "scan" /\ BlockComment
  /\ LET end == CommentEnd(pos + 2)
     IN  /\ MoveTo(end.to)
         /\ diag' = IF end.depth > 0
                      THEN emit(diag, "error", [line |-> line, column |-> column]) ELSE diag
  /\ UNCHANGED <<tokens, state>>

(***************************************************************************)
(* Tokens.                                                                 *)
(***************************************************************************)
At(S) == state = "scan" /\ ~Skipping /\ peek(pos) \in S

Eof == At({"end"}) /\ MoveTo(pos) /\ state' = "done"
       /\ tokens' = Append(tokens, makeToken("eof", pos)) /\ UNCHANGED diag

lexIdentifierOrKeyword ==
  At(Letters) /\ Token("ident", Past(pos, Letters \cup Digits))

\* The prefixes 0x, 0b and 0o; then digits, a fraction, an exponent.
NumberEnd ==
  LET digits   == Past(pos, Digits)
      fraction == IF peek(digits) = "." /\ peek(digits + 1) \in Digits
                  THEN Past(digits + 1, Digits) ELSE digits
      sign     == IF peek(fraction + 1) \in {"+", "-"} THEN 2 ELSE 1
      exponent == IF peek(fraction) = "e" THEN Past(fraction + sign, Digits) ELSE fraction
  IN  [int |-> digits, all |-> exponent]
\* Mutation of lexNumber: any full stop after the digits is a fraction.
NumberWithDot ==
  At(Digits) /\ LET digits == Past(pos, Digits)
                IN  IF peek(digits) = "." THEN Token("float", Past(digits + 1, Digits))
                    ELSE Token("int", digits)
lexNumber ==
  /\ At(Digits)
  /\ CASE src[pos] = "0" /\ peek(pos + 1) = "x" -> Token("int", Past(pos + 2, HexDigits))
       [] src[pos] = "0" /\ peek(pos + 1) \in {"b", "o"} -> Token("int", Past(pos + 2, Digits))
       [] OTHER -> Token(IF NumberEnd.all > NumberEnd.int THEN "float" ELSE "int",
                         NumberEnd.all)

\* Mutation of StringEnd: a backslash is a character like any other.
PlainEnd(p) ==
  LET q == Past(p, Chars \ {"quote", "nl"})
  IN  [to |-> IF q > Size THEN q ELSE q + 1,
       kind |-> IF peek(q) = "quote" THEN "string" ELSE "error"]
\* Where the string whose text begins at p ends: a backslash takes the next
\* character with it, a newline ends the token.
StringEnd(p) ==
  LET from[q \in p .. Size + 2] ==
        IF q > Size THEN [to |-> Size + 1, kind |-> "error"]
        ELSE IF src[q] = "quote" THEN [to |-> q + 1, kind |-> "string"]
        ELSE IF src[q] = "esc" THEN from[q + 2]
        ELSE IF src[q] = "nl" THEN [to |-> q + 1, kind |-> "error"]
        ELSE from[q + 1]
  IN  from[p]

lexString == At({"quote"}) /\ LET end == StringEnd(pos + 1) IN Token(end.kind, end.to)

\* Mutation of lexChar: a backslash is the character.
lexCharPlain ==
  /\ At({"tick"})
  /\ LET close == IF pos + 1 <= Size THEN pos + 2 ELSE pos + 1
         over  == Past(close, Chars \ {"tick", "nl"})
     IN  IF peek(close) = "tick" THEN Token("char", close + 1)
         ELSE Token("error", IF peek(over) = "tick" THEN over + 1 ELSE over)
\* Not closed after one character, the token goes on to the next tick or
\* the end of the line.
lexChar ==
  /\ At({"tick"})
  /\ LET char  == IF peek(pos + 1) = "esc" THEN pos + 2 ELSE pos + 1
         close == IF char <= Size THEN char + 1 ELSE char
         over  == Past(close, Chars \ {"tick", "nl"})
     IN  CASE pos + 1 > Size        -> Token("error", pos + 1)
           [] peek(close) = "tick"  -> Token("char", close + 1)
           [] OTHER -> Token("error", IF peek(over) = "tick" THEN over + 1 ELSE over)

\* The pairs that match() completes.
Pairs == {<<c, "=">> : c \in {"+", "-", "*", "/", "%", "&", "|", "^", "<", ">", "=", "!"}}
         \cup {<<"-", ">">>, <<"=", ">">>, <<"&", "&">>, <<"|", "|">>, <<"<", "<">>,
               <<">", ">">>, <<":", ":">>, <<".", ".">>}
Starts == {"+", "-", "*", "/", "%", "&", "|", "^", "~", "<", ">", "=", "!", ":", ".", "(",
           ")", "{", "}", "[", "]", ",", ";", "@", "?"}
\* Mutation of OperatorEnd: three full stops are two tokens.
PairEnd == IF <<src[pos], peek(pos + 1)>> \in Pairs THEN pos + 2 ELSE pos + 1
OperatorEnd ==
  IF <<src[pos], peek(pos + 1)>> \notin Pairs THEN pos + 1
  ELSE IF src[pos] = "." /\ peek(pos + 2) = "." THEN pos + 3 ELSE pos + 2
Operator == At(Starts) /\ Token("op", OperatorEnd)

\* Mutation of Unexpected: the character is not consumed.
UnexpectedStays ==
  /\ At(Chars \ (Letters \cup Digits \cup Starts \cup {"quote", "tick"}))
  /\ MoveTo(pos) /\ diag' = emit(diag, "error", closeLoc) /\ state' = state
  /\ tokens' = Append(tokens, [kind |-> "error", first |-> pos, last |-> pos - 1,
                               line |-> line', column |-> column'])
\* errorToken: its location is the lexer's, after the character.
Unexpected ==
  /\ At(Chars \ (Letters \cup Digits \cup Starts \cup {"quote", "tick"}))
  /\ MoveTo(pos + 1) /\ state' = state
  /\ diag' = emit(diag, "error", [line |-> line', column |-> column'])
  /\ tokens' = Append(tokens, [kind |-> "error", first |-> pos, last |-> pos,
                               line |-> line', column |-> column'])

Finished == state # "scan" /\ UNCHANGED vars

Next == \/ SkipBlank \/ skipLineComment \/ skipBlockComment \/ Eof
        \/ lexIdentifierOrKeyword \/ lexNumber \/ lexString \/ lexChar
        \/ Operator \/ Unexpected \/ Finished

\* tokenize() runs until it has an Eof token.
Spec == Init /\ [][Next]_vars /\ WF_vars(Next)

(***************************************************************************)
(* Types: the lexer stays within the source, and a token is not empty.     *)
(***************************************************************************)
Kinds == {"ident", "int", "float", "string", "char", "op", "error", "eof"}
TokenOK(t) ==
  /\ t.kind \in Kinds /\ t.first \in 1 .. Size + 1 /\ t.line \in Nat \ {0}
  /\ t.column \in 0 .. Word - 1
  /\ t.last \in (IF t.kind = "eof" THEN {Size} ELSE t.first .. Size)
TypeOK ==
  /\ src \in Seq(Chars) /\ Size <= MaxLen /\ pos \in 1 .. Size + 1
  /\ line \in Nat \ {0} /\ column \in Nat \ {0} /\ EngineOK(diag)
  /\ state \in {"scan", "done", "abort"}
  /\ \A i \in DOMAIN tokens : TokenOK(tokens[i])
=============================================================================
