---------------------------- MODULE Diagnostics ----------------------------
(***************************************************************************)
(* The diagnostics engine and its renderer (src/common/Diagnostics.cpp).   *)
(* A diagnostic is its level and its location; messages and colours are    *)
(* left out.  A text is a sequence of characters, "nl" and "tab" among     *)
(* them.                                                                   *)
(***************************************************************************)
LOCAL INSTANCE Integers
LOCAL INSTANCE Sequences
LOCAL INSTANCE FiniteSets

(***************************************************************************)
(* The engine: every diagnostic in the order of the calls, and the counts. *)
(***************************************************************************)
Levels == {"note", "warning", "error", "fatal"}

NoDiagnostics ==
  [diagnostics |-> <<>>, errorCount |-> 0, warningCount |-> 0, hasFatal |-> FALSE]

\* Mutation of emit: what is not fatal does not count.
emitFatal(engine, level, loc) ==
  [engine EXCEPT !.diagnostics = Append(@, [level |-> level, location |-> loc]),
                 !.errorCount = IF level = "fatal" THEN @ + 1 ELSE @]

emit(engine, level, loc) ==
  [diagnostics  |-> Append(engine.diagnostics, [level |-> level, location |-> loc]),
   errorCount   |-> engine.errorCount + (IF level \in {"error", "fatal"} THEN 1 ELSE 0),
   warningCount |-> engine.warningCount + (IF level = "warning" THEN 1 ELSE 0),
   hasFatal     |-> engine.hasFatal \/ level = "fatal"]

hasErrors(engine) == engine.errorCount > 0

EngineOK(engine) ==
  /\ engine.errorCount \in Nat /\ engine.warningCount \in Nat
  /\ engine.errorCount + engine.warningCount <= Len(engine.diagnostics)
  /\ engine.hasFatal => engine.errorCount > 0
  /\ \A i \in DOMAIN engine.diagnostics : engine.diagnostics[i].level \in Levels

(***************************************************************************)
(* The renderer's panel: the line of the source, and below it the blanks   *)
(* that the caret comes after.                                             *)
(***************************************************************************)
isValid(loc) == loc.line # 0

LineStarts(text) == {1} \cup {p + 1 : p \in {q \in DOMAIN text : text[q] = "nl"}}
StartOf(text, number) ==
  CHOOSE p \in LineStarts(text) :
    number = 1 + Cardinality({q \in 1 .. p - 1 : text[q] = "nl"})
EndOf(text, p) == CHOOSE q \in p - 1 .. Len(text) :
                    /\ q = Len(text) \/ text[q + 1] = "nl"
                    /\ \A r \in p .. q : text[r] # "nl"

extractLine(text, number) ==
  LET p == StartOf(text, number) IN SubSeq(text, p, EndOf(text, p))

\* Mutation of indent: a tab is one blank.
indentBlank(text, loc) == [i \in 1 .. loc.column - 1 |-> "sp"]
\* Up to the column or the end of the line, a tab for each tab.
indent(text, loc) ==
  LET lineText == extractLine(text, loc.line)
      col      == IF loc.column > 0 THEN loc.column - 1 ELSE 0
      upTo     == IF col < Len(lineText) THEN col ELSE Len(lineText)
  IN  [i \in 1 .. upTo |-> IF lineText[i] = "tab" THEN "tab" ELSE "sp"]
=============================================================================
