----------------------------- MODULE Rendering -----------------------------
(***************************************************************************)
(* What a reader of the rendered diagnostics of a source sees: the tokens  *)
(* give the parser and the analyser their locations, the lexer's own       *)
(* diagnostics have theirs.                                                *)
(***************************************************************************)
EXTENDS LexerRules

CONSTANT TabStop   \* the terminal's

ASSUME RenderingBounds == TabStop \in Nat \ {0}

\* Where a text of a panel ends on the screen: a character of two bytes takes
\* one column.  The two lines of a panel have gutters of one width: at least
\* four columns for the number, and three more.
Gutter == 7
Width(text) ==
  LET width[i \in 0 .. Len(text)] ==
        IF i = 0 THEN Gutter
        ELSE IF text[i] = "tab" THEN (width[i - 1] \div TabStop + 1) * TabStop
        ELSE IF text[i] = "cont" THEN width[i - 1]
        ELSE width[i - 1] + 1
  IN  width[Len(text)]

\* What the line of position p has before it.
Before(p) == SubSeq(src, p - ColumnOf(p) + 1, p - 1)
AsciiBefore(p) == \A i \in DOMAIN Before(p) : Before(p)[i] # "cont"

\* The panel of a diagnostic at loc shows the line of position p, and its
\* caret is below the character at p.
PointsAt(loc, p) ==
  LET lineText == extractLine(src, loc.line)
  IN  /\ isValid(loc)
      /\ SubSeq(lineText, 1, Len(Before(p))) = Before(p)
      /\ peek(p) \notin {"nl", "end"} => peek(p) = lineText[Len(Before(p)) + 1]
      /\ Width(indent(src, loc)) = Width(Before(p))

\* A diagnostic at a token points at the token's first character, whatever
\* lines and tabs come before it (Diagnostics.cpp:135-149, 186-218).  A
\* character of two bytes on its line moves the caret (README, divergences).
TokensPointedAt ==
  state = "done" => \A i \in DOMAIN tokens :
    tokens[i].kind # "error" /\ OneLine(tokens[i]) /\ AsciiBefore(tokens[i].first) =>
      PointsAt(tokens[i], tokens[i].first)

(***************************************************************************)
(* Where the source is at fault, read off the source alone.                *)
(***************************************************************************)
\* A string that begins at p ends on its line, or on one that a backslash
\* joins to it; a comment that begins at p ends.
StringCloses(context, p) ==
  \E q \in p + 1 .. Size : /\ src[q] = "quote" /\ ~context[q].skip
                           /\ \A r \in p + 1 .. q : context[r].in = "string"
CommentCloses(context, p) == \E q \in p + 1 .. Size + 1 : context[q].in # "block"

\* The characters of the program that begin nothing: no token (a character
\* of two bytes is two of them), no literal that ends, no comment that ends.
Faults ==
  LET context == Context
  IN  {p \in 1 .. Size :
         context[p] = Code /\
           \/ src[p] \notin Blanks \cup Letters \cup Digits \cup Starts
                            \cup {"#", "quote", "tick"}
           \/ src[p] = "quote" /\ ~StringCloses(context, p)
           \/ src[p] = "tick" /\ ~CharLiteral(p)
           \/ Pair(p, "/", "*") /\ ~CommentCloses(context, p)}

\* The diagnostics are in the order of the faults.
Nth(faults, p) == Cardinality({q \in faults : q <= p})

\* The lexer reports every fault of the source and nothing else, once and in
\* order, as an error on the line of the fault; a comment without end at the
\* sign that opens it (Lexer.cpp:176, 270, 293, 329).  So a source with a
\* fault, and no other, stops the phases after the lexer.
FaultsReported ==
  state = "done" =>
    LET faults == Faults
        found  == diag.diagnostics
    IN  /\ hasErrors(diag) <=> faults # {}
        /\ Len(found) = Cardinality(faults)
        /\ \A p \in faults :
             LET d == found[Nth(faults, p)]
             IN  /\ d.level = "error" /\ d.location.line = LineOf(p)
                 /\ Pair(p, "/", "*") /\ AsciiBefore(p) => PointsAt(d.location, p)

\* SourceLocation.h: "error messages can point to the exact character that
\* caused the problem", which is not so of the literals and of the characters
\* that begin no token (README, divergences).
FaultsPointedAt ==
  state = "done" =>
    LET faults == Faults
    IN  \A p \in faults : PointsAt(diag.diagnostics[Nth(faults, p)].location, p)
=============================================================================
