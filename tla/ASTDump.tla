------------------------------ MODULE ASTDump ------------------------------
(***************************************************************************)
(* The dumper of the syntax tree (src/ast/ASTDumper.cpp), which --ast      *)
(* runs.  visit prints the line of a node and its children after it, so    *)
(* the calls under way are a stack, one for each node on the path from the *)
(* module to the node being printed; every call appends a segment to the   *)
(* one string prefix_ and puts the former one back when it returns.  The   *)
(* tree is made up as it is walked, in classes of one of the Families.     *)
(***************************************************************************)
EXTENDS AST

CONSTANTS
  Families,   \* sets of classes that a tree may use
  MaxNodes,   \* bound on the nodes of a tree
  Lang        \* "fntype": ChildrenReadBack is about function types as well

ASSUME DumpBounds == MaxNodes \in Nat \ {0}

VARIABLES
  classes,   \* the family
  prefix,    \* prefix_
  calls,     \* the visits under way: line, children to print, prefix to restore
  out,       \* the lines printed: the prefix, the connector and the label
  nodes      \* the nodes visited, which no part of the dumper reads

vars == <<classes, prefix, calls, out, nodes>>

(***************************************************************************)
(* The visits: the children of a node in the order in which they are       *)
(* printed, by the slots that hold them.                                   *)
(***************************************************************************)
visitDecl ==
  [ModuleDecl |-> <<"decls">>, ImportDecl |-> <<>>,
   FunctionDecl |-> <<"params", "returnType", "body">>, ParameterDecl |-> <<"type">>,
   VarDecl |-> <<"type", "initializer">>, StructDecl |-> <<"fields">>,
   FieldDecl |-> <<"type">>, EnumDecl |-> <<"variants">>,
   EnumVariantDecl |-> <<"fields">>, TypeAliasDecl |-> <<"aliased">>]

visitStmt ==
  [BlockStmt |-> <<"stmts">>, ExprStmt |-> <<"expr">>, ReturnStmt |-> <<"value">>,
   IfStmt |-> <<"condition", "thenBranch", "elseBranch">>,
   WhileStmt |-> <<"condition", "body">>, VloopStmt |-> <<"condition", "body">>,
   ForStmt |-> <<"iterable", "body">>, BreakStmt |-> <<>>, ContinueStmt |-> <<>>,
   MatchStmt |-> <<"subject", "arms">>]

visitExpr ==
  [BinaryExpr |-> <<"lhs", "rhs">>, UnaryExpr |-> <<"operand">>,
   AssignExpr |-> <<"target", "value">>, CallExpr |-> <<"callee", "args">>,
   IndexExpr |-> <<"base", "index">>, MemberExpr |-> <<"object">>,
   CastExpr |-> <<"expr", "targetType">>, IdentExpr |-> <<>>, LiteralExpr |-> <<>>,
   ArrayLiteralExpr |-> <<"elements">>]

visitType ==
  [NamedTypeNode |-> <<>>, PointerTypeNode |-> <<"inner">>,
   SliceTypeNode |-> <<"element">>, ArrayTypeNode |-> <<"element", "size">>,
   FunctionTypeNode |-> <<"params", "returnType">>]

visit(c) ==
  CASE c \in DOMAIN visitDecl -> visitDecl[c]
    [] c \in DOMAIN visitStmt -> visitStmt[c]
    [] c \in DOMAIN visitExpr -> visitExpr[c]
    [] c \in DOMAIN visitType -> visitType[c]

\* Mutation of Children: the else branch of an if is not printed.
ChildrenNoElse(c, content) ==
  FlattenSeq([i \in DOMAIN visit(c) |->
                IF visit(c)[i] = "elseBranch" THEN <<>> ELSE content[visit(c)[i]]])

Children(c, content) == FlattenSeq([i \in DOMAIN visit(c) |-> content[visit(c)[i]]])

\* The visit of a node of class c: its line, and the call that prints its
\* children.
Line(c, joint)      == [prefix |-> prefix, joint |-> joint, label |-> c]
Visit(c, content, saved) ==
  [line |-> Len(out) + 1, todo |-> Children(c, content), saved |-> saved]
Node(c, content, parent) == [class |-> c, content |-> content, parent |-> parent]

(***************************************************************************)
(* The nodes that the calls under way still have to print, at the least.   *)
(***************************************************************************)
NodesOf(kinds) == FoldLeft(LAMBDA n, k : n + LeastNodes(k), 0, kinds)
Owed == FoldLeft(LAMBDA n, call : n + NodesOf(call.todo), 0, calls)
Fits(c, content, replaced) ==
  Len(out) + 1 + Owed - replaced + NodesOf(Children(c, content)) <= MaxNodes

DumpInit ==
  /\ classes \in Families
  /\ prefix = <<>>
  /\ calls = <<>>
  /\ out = <<>>
  /\ nodes = <<>>

\* dump: prefix_ is cleared and the module visited.
dump ==
  /\ out = <<>>
  /\ \E content \in Contents("ModuleDecl") :
       /\ Fits("ModuleDecl", content, 0)
       /\ out' = <<[Line("ModuleDecl", "none") EXCEPT !.prefix = <<>>]>>
       /\ nodes' = <<Node("ModuleDecl", content, 0)>>
       /\ calls' = <<Visit("ModuleDecl", content, <<>>)>>
  /\ prefix' = <<>>
  /\ UNCHANGED classes

\* Mutation of Segment: the segments of the two connectors are swapped.
SegmentOfOther(isLast) == IF isLast THEN "bar" ELSE "gap"

\* The loop of printChildren goes on with the next child.
NextChild(call) == [call EXCEPT !.todo = Tail(@)]

\* printChild: the connector, and the segment for what is below the child, are
\* those of the last sibling or of another.
Connector(isLast) == IF isLast THEN "elbow" ELSE "tee"
Segment(isLast)   == IF isLast THEN "gap" ELSE "bar"

printChild ==
  /\ calls # <<>>
  /\ LET d      == Len(calls)
         call   == calls[d]
         isLast == Len(call.todo) = 1
     IN  /\ call.todo # <<>>
         /\ \E c \in ClassesOf(Head(call.todo)) \cap classes : \E content \in Contents(c) :
              /\ Fits(c, content, LeastNodes(Head(call.todo)))
              /\ out' = Append(out, Line(c, Connector(isLast)))
              /\ nodes' = Append(nodes, Node(c, content, call.line))
              /\ calls' = Append([calls EXCEPT ![d] = NextChild(@)], Visit(c, content, prefix))
         /\ prefix' = Append(prefix, Segment(isLast))
  /\ UNCHANGED classes

\* Mutation of Restored: no segment stays.
PrefixCleared == <<>>

\* The visit returns to printChild, which restores the prefix.
Restored == calls[Len(calls)].saved
return ==
  /\ calls # <<>>
  /\ calls[Len(calls)].todo = <<>>
  /\ prefix' = Restored
  /\ calls' = SubSeq(calls, 1, Len(calls) - 1)
  /\ UNCHANGED <<classes, out, nodes>>

DumpNext == dump \/ printChild \/ return
DumpSpec == DumpInit /\ [][DumpNext]_vars

-----------------------------------------------------------------------------
(***************************************************************************)
(* What a reader makes of the text.  The depth of a line is the number of  *)
(* columns before its label; a line is the parent of the later lines one   *)
(* deeper, up to the next line that is not deeper than itself.             *)
(***************************************************************************)
Depth(l) == IF out[l].joint = "none" THEN 0 ELSE Len(out[l].prefix) + 1
ReadsParent(k, l) ==
  /\ k < l
  /\ Depth(l) = Depth(k) + 1
  /\ \A j \in k+1..l-1 : Depth(j) > Depth(k)

(***************************************************************************)
(* The indentation of a line alone says whose child its node is, at every  *)
(* depth and after every subtree: printChild leaves prefix_ as it found it *)
(* (ASTDumper.cpp:34-40).                                                  *)
(***************************************************************************)
ParentsReadBack ==
  \A l \in DOMAIN out : \A k \in DOMAIN out : k = nodes[l].parent <=> ReadsParent(k, l)

(***************************************************************************)
(* No child is left out and none takes the place of another: from the      *)
(* labels below a line that is complete, the slots of its node are known   *)
(* (the visits, ASTDumper.cpp:51-341), but for the parameters and the      *)
(* result of a function type.                                              *)
(***************************************************************************)
Complete(l) == \A i \in DOMAIN calls : calls[i].line # l
Below(l) == SelectSeq([k \in DOMAIN out |-> k], LAMBDA k : ReadsParent(l, k))
Reads(l, content) ==
  LET kinds == Children(out[l].label, content)
      below == Below(l)
  IN  /\ Len(kinds) = Len(below)
      /\ \A i \in DOMAIN kinds : out[below[i]].label \in ClassesOf(kinds[i])
ChildrenReadBack ==
  \A l \in DOMAIN out :
    Complete(l) /\ (out[l].label # "FunctionTypeNode" \/ "fntype" \in Lang) =>
      \A content \in Contents(out[l].label) :
        Reads(l, content) <=> content = nodes[l].content

(***************************************************************************)
(* The lines are drawn as ASTDumper.cpp:27-32 says: a tee is joined by     *)
(* bars to its next sibling's connector, and below an elbow the column is  *)
(* empty to the end of its subtree, after which no sibling follows.        *)
(***************************************************************************)
WellDrawn ==
  out # <<>> /\ calls = <<>> =>
    \A l \in 2..Len(out) :
      LET d     == Depth(l)
          after == {j \in l+1..Len(out) : Depth(j) <= d}
          end   == IF after = {} THEN Len(out) + 1 ELSE CHOOSE j \in after : \A i \in after : j <= i
          drawn(segment) == \A k \in l+1..end-1 : out[k].prefix[d] = segment
      IN  IF out[l].joint = "tee"
            THEN end <= Len(out) /\ Depth(end) = d /\ drawn("bar")
            ELSE (end <= Len(out) => Depth(end) < d) /\ drawn("gap")
=============================================================================
