-------------------------- MODULE MCParserGrammar ---------------------------
(***************************************************************************)
(* ParserGrammar for TLC: the sources that a budget allows, for one part   *)
(* of the grammar at a time.                                               *)
(***************************************************************************)
EXTENDS ParserGrammar

From(root, cost, ws) == [root |-> root, budget |-> cost, words |-> ws]

Calls    == {"id", "(", ")"}
Blocks   == {"id", "{", "}"}
FnWords  == {"fn", "id", "(", ")", "{", "}", ":"}

Expressions == From("line", 3, Calls \cup {"int", "[", "]", ",", ".", "as", "=", "array", "+",
                                           "*", "-", "&&", "=="})
Constructs  == From("statements", 3, Calls \cup Blocks \cup
                 {"int", "_", "=", "=>", "<", "let", "if", "while",
                  "vloop", "for", "in", "match", "return", "break"})
Branches    == From("statement", 4, Calls \cup Blocks \cup
                 {"if", "else", "el", "ef", "vloop"})
Declarations == From("module", 4, FnWords \cup
                 {"int", "[", "]", ",", ";", ".", "::", "=", "*", "->", "pub", "mut", "let",
                  "struct", "enum", "type", "import", "as", "module", "main"})
MCSources == {Expressions, Constructs, Branches, Declarations}
MCTokens  == UNION {s.words : s \in MCSources}

\* What the parser and the grammar disagree on.
Suffixes  == {From("line", 2, Calls \cup {"-"})}
Targets   == {From("line", 2, {"id", "+", "="})}
Parens    == {From("statement", 3, Calls \cup Blocks \cup {"if", "=="})}
Lines     == {From("statements", 3, Calls \cup Blocks)}
Untyped   == {From("decl", 2, FnWords)}
Scripts   == {From("module", 3, FnWords \cup {"module", "main"})}
=============================================================================
