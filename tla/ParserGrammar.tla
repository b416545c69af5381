--------------------------- MODULE ParserGrammar ----------------------------
(***************************************************************************)
(* The parser on the sources that the grammar derives.  The derivation     *)
(* runs ahead of the parser by the token that the parser is about to look  *)
(* at, and collects the nodes that the source means.                       *)
(***************************************************************************)
EXTENDS Parser

CONSTANTS
  Lang,     \* the freedoms of the grammar that are allowed
  Sources   \* what to derive: a root, the tokens to use and a budget

ASSUME GrammarBounds == \A s \in Sources : s.budget \in Nat /\ s.words \subseteq Tokens

VARIABLES
  words,    \* the tokens of the derivation
  goal,     \* what is left to derive
  derived,  \* the nodes derived
  budget    \* what the derivation may still spend

G == INSTANCE Grammar

allVars == <<vars, words, goal, derived, budget>>

DerivingInit ==
  /\ Init /\ derived = {}
  /\ \E s \in Sources : goal = <<G!N(s.root)>> /\ words = s.words /\ budget = s.budget

Deriving(is) == todo # <<>> /\ ~Seen /\ goal # <<>> /\ goal[1].is = is

Derive ==
  /\ Deriving("rule")
  /\ \E p \in G!Productions(goal[1], Len(toks) + 1, words) :
       /\ p.cost <= budget
       /\ goal' = p.items \o Tail(goal) /\ budget' = budget - p.cost
  /\ UNCHANGED <<vars, words, derived>>

Complete ==
  /\ Deriving("node")
  /\ derived' = derived \cup {<<goal[1].sym, goal[1].from, Len(toks)>>}
  /\ goal' = Tail(goal)
  /\ UNCHANGED <<vars, words, budget>>

Yield == Deriving("token") /\ Scan(goal[1].sym) /\ goal' = Tail(goal)
         /\ UNCHANGED <<words, derived, budget>>
YieldEnd == goal = <<>> /\ Scan("eof") /\ UNCHANGED <<words, goal, derived, budget>>

Parse == (Step \/ Parsed) /\ UNCHANGED <<words, goal, derived, budget>>

DerivingSpec == DerivingInit /\ [][Derive \/ Complete \/ Yield \/ YieldEnd \/ Parse]_allVars

\* Every source of the grammar is accepted.
AcceptsGrammar == Done => ~failed

\* The tree of an accepted source is the derivation's: every operand, body
\* and statement belongs to the construct that the grammar gives it to.
SameTree == Done /\ ~failed => tree = derived

\* The parser parses the grammar: every source that it derives is accepted,
\* and as it is derived.
ParsesGrammar == AcceptsGrammar /\ SameTree
=============================================================================
