------------------------------ MODULE MCLexer -------------------------------
(***************************************************************************)
(* Rendering and LexerRules for TLC: every source over one of a few        *)
(* alphabets, each for a part of the lexer whose characters interact.      *)
(***************************************************************************)
EXTENDS Rendering

Trivia   == {"g", "/", "*", "quote", "esc", "nl"}   \* comments and strings
Munch    == {"g", "1", ".", "+", "=", ">"}          \* numbers and operators
Literals == {"g", "tick", "esc", "nl", "sp", "$"}   \* characters
Layout   == {"g", "tab", "nl", "quote", "$"}        \* lines and columns
Numbers  == {"0", "1", "x", "e", ".", "+"}          \* prefixes and exponents
Unicode  == {"g", "quote", "lead", "cont"}          \* characters of two bytes
Hidden   == {"tick", "quote", "/", "*", "g"}       \* signs within literals
MCAlphabets == {Trivia, Munch, Literals, Layout, Numbers, Unicode, Hidden}

\* Alphabets for what the lexer gets wrong.
Strays     == {{"g", "$"}}
Wide       == {Unicode}
Hashes     == {{"g", "#", "nl"}}
Digital    == {Numbers}
TwoBytes   == {{"tick", "esc", "lead", "cont"}}
TickLines  == {{"tick", "nl", "g"}}
=============================================================================
