--------------------------- MODULE ASTDumpProofs ---------------------------
(***************************************************************************)
(* Proofs about ASTDump: whatever the classes, their slots and the size of *)
(* the tree, the indentation of the dump determines the tree's shape.      *)
(***************************************************************************)
EXTENDS ASTDump, WellFoundedInduction, TLAPS

(***************************************************************************)
(* Sequences of which nothing but the length matters.                      *)
(***************************************************************************)
IsSeq(s) == Len(s) \in Nat /\ s = [i \in 1..Len(s) |-> s[i]]

LEMMA SeqIsSeq ==
  ASSUME NEW S, NEW t \in Seq(S)
  PROVE  IsSeq(t) /\ (Len(t) # 0 => t # <<>>)
  BY DEF IsSeq

\* What the parts of a sequence are a sequence of.
LEMMA SeqOfItems ==
  ASSUME NEW s, IsSeq(s), NEW e
  PROVE  /\ s \in Seq({s[i] : i \in 1..Len(s)} \cup {e})
         /\ DOMAIN s = 1..Len(s)
<1> DEFINE S == {s[i] : i \in 1..Len(s)} \cup {e}
<1>1. [i \in 1..Len(s) |-> s[i]] \in [1..Len(s) -> S]
  OBVIOUS
<1>2. s \in [1..Len(s) -> S] /\ Len(s) \in Nat
  BY <1>1 DEF IsSeq
<1> QED
  BY <1>2

\* Append leaves the elements that there were, and puts one after them.
LEMMA Appended ==
  ASSUME NEW s, IsSeq(s), NEW e
  PROVE  /\ IsSeq(Append(s, e)) /\ Len(Append(s, e)) = Len(s) + 1
         /\ Append(s, e) # <<>>
         /\ \A i \in 1..Len(s) : Append(s, e)[i] = s[i]
         /\ Append(s, e)[Len(s) + 1] = e
<1> DEFINE S == {s[i] : i \in 1..Len(s)} \cup {e}
<1>1. s \in Seq(S) /\ e \in S
  BY SeqOfItems
<1> HIDE DEF S
<1>2. Append(s, e) \in Seq(S) /\ Len(Append(s, e)) = Len(s) + 1
  BY <1>1
<1>3. /\ \A i \in 1..Len(s) : Append(s, e)[i] = s[i]
      /\ Append(s, e)[Len(s) + 1] = e
  BY <1>1
<1>4. Len(Append(s, e)) # 0
  BY <1>1, <1>2
<1>5. IsSeq(Append(s, e)) /\ Append(s, e) # <<>>
  BY <1>2, <1>4, SeqIsSeq
<1> QED
  BY <1>2, <1>3, <1>5

\* The sequence without its last element.
LEMMA Shortened ==
  ASSUME NEW s, IsSeq(s), s # <<>>
  PROVE  LET t == SubSeq(s, 1, Len(s) - 1)
         IN  /\ IsSeq(t) /\ Len(t) = Len(s) - 1
             /\ \A i \in 1..Len(s)-1 : t[i] = s[i]
<1> DEFINE S == {s[i] : i \in 1..Len(s)} \cup {0}
<1>1. s \in Seq(S)
  BY SeqOfItems
<1> HIDE DEF S
<1>2. Len(s) \in Nat \ {0}
  BY <1>1
<1>3. SubSeq(s, 1, Len(s) - 1) \in Seq(S)
  BY <1>1, <1>2
<1> QED
  BY <1>1, <1>2, <1>3 DEF IsSeq

\* A sequence's length is its domain's.
LEMMA SameDomain ==
  ASSUME NEW s, IsSeq(s), NEW t, DOMAIN t = DOMAIN s, t = [i \in DOMAIN t |-> t[i]]
  PROVE  IsSeq(t) /\ Len(t) = Len(s)
<1> DEFINE S == {t[i] : i \in DOMAIN t}
<1>1. DOMAIN t = 1..Len(s) /\ Len(s) \in Nat
  BY SeqOfItems DEF IsSeq
<1>2. [i \in DOMAIN t |-> t[i]] \in [1..Len(s) -> S]
  BY <1>1
<1>3. t \in [1..Len(s) -> S]
  BY <1>2
<1> HIDE DEF S
<1>4. t \in Seq(S) /\ Len(t) = Len(s)
  BY <1>1, <1>3
<1> QED
  BY <1>4, SeqIsSeq

(***************************************************************************)
(* The inductive invariant.  The i-th visit under way has printed its line *)
(* at depth i - 1, every line since then is deeper, and the prefix that    *)
(* its printChild puts back has a segment for each visit before that of    *)
(* the node's parent.                                                      *)
(***************************************************************************)
SequencesOK == IsSeq(prefix) /\ IsSeq(out) /\ IsSeq(nodes) /\ IsSeq(calls)

Lengths ==
  /\ Len(out) = Len(nodes)
  /\ Len(prefix) = IF calls = <<>> THEN 0 ELSE Len(calls) - 1
  /\ out = <<>> => calls = <<>>
  /\ \A l \in 1..Len(out) : Depth(l) \in Nat /\ nodes[l].parent \in 0..l-1

Path ==
  \A i \in 1..Len(calls) :
    /\ calls[i] = [line |-> calls[i].line, todo |-> calls[i].todo, saved |-> calls[i].saved]
    /\ IsSeq(calls[i].saved)
    /\ Len(calls[i].saved) = IF i = 1 THEN 0 ELSE i - 2
    /\ calls[i].line \in 1..Len(out)
    /\ Depth(calls[i].line) = i - 1
    /\ \A j \in calls[i].line+1..Len(out) : Depth(j) >= i

IInv == SequencesOK /\ Lengths /\ Path /\ ParentsReadBack

LEMMA InitIInv == DumpInit => IInv
<1> SUFFICES ASSUME DumpInit PROVE IInv
  OBVIOUS
<1>1. /\ IsSeq(<<>>) /\ Len(<<>>) = 0 /\ DOMAIN <<>> = {}
  BY DEF IsSeq
<1> QED
  BY <1>1 DEF DumpInit, IInv, SequencesOK, Lengths, Path, ParentsReadBack

\* The lines that there are keep their depth when one is printed.
LEMMA DepthsKept ==
  ASSUME IsSeq(out), NEW n, n = Len(out), NEW e, out' = Append(out, e)
  PROVE  /\ IsSeq(out') /\ Len(out') = n + 1 /\ DOMAIN out' = 1..n+1
         /\ \A l \in 1..n : Depth(l)' = Depth(l)
         /\ Depth(n + 1)' = IF e.joint = "none" THEN 0 ELSE Len(e.prefix) + 1
<1>1. /\ IsSeq(out') /\ Len(out') = n + 1
      /\ \A l \in 1..n : out'[l] = out[l]
      /\ out'[n + 1] = e
  BY Appended
<1>2. DOMAIN out' = 1..n+1
  BY <1>1 DEF IsSeq
<1> QED
  BY <1>1, <1>2 DEF Depth

LEMMA LastOrBefore == \A n \in Nat : \A k \in 1..n+1 : k \in 1..n \/ k = n + 1
  OBVIOUS

(***************************************************************************)
(* A line at the depth of the visits under way is read as a child of the   *)
(* innermost visit's line, and the parents of the others stay.             *)
(***************************************************************************)
LEMMA NewLineReadsBack ==
  ASSUME IsSeq(out), IsSeq(nodes), NEW n, n = Len(out), n = Len(nodes), ParentsReadBack,
         \A l \in 1..n : Depth(l) \in Nat /\ nodes[l].parent \in 0..l-1,
         NEW e, out' = Append(out, e), NEW m, nodes' = Append(nodes, m),
         NEW p, p = m.parent, p \in 1..n,
         Depth(n + 1)' = Depth(p) + 1,
         \A j \in p+1..n : Depth(j) > Depth(p)
  PROVE  ParentsReadBack'
<1>1. n \in Nat /\ DOMAIN out = 1..n /\ DOMAIN out' = 1..n+1
  BY DepthsKept DEF IsSeq
<1>2. \A l \in 1..n : Depth(l)' = Depth(l)
  BY DepthsKept
<1>3. (\A l \in 1..n : nodes'[l] = nodes[l]) /\ nodes'[n + 1] = m
  BY Appended
<1>4. \A k, l \in 1..n : ReadsParent(k, l)' <=> ReadsParent(k, l)
  <2> SUFFICES ASSUME NEW k \in 1..n, NEW l \in 1..n
               PROVE  ReadsParent(k, l)' <=> ReadsParent(k, l)
    OBVIOUS
  <2>1. \A j \in k+1..l-1 : Depth(j)' = Depth(j)
    BY <1>1, <1>2
  <2>2. Depth(k)' = Depth(k) /\ Depth(l)' = Depth(l)
    BY <1>2
  <2> QED
    BY <2>1, <2>2 DEF ReadsParent
<1>5. ASSUME NEW k \in 1..n+1, NEW l \in 1..n
      PROVE  k = nodes'[l].parent <=> ReadsParent(k, l)'
  <2>1. CASE k \in 1..n
    BY <2>1, <1>1, <1>3, <1>4 DEF ParentsReadBack
  <2>2. CASE k = n + 1
    <3>a. nodes'[l] = nodes[l]
      BY <1>3
    <3>b. \A q \in 0..l-1 : q # k
      BY <2>2, <1>1
    <3>1. nodes'[l].parent # k
      BY <3>a, <3>b
    <3>2. ~ ReadsParent(k, l)'
      BY <2>2, <1>1 DEF ReadsParent
    <3> QED
      BY <3>1, <3>2
  <2>3. k \in 1..n \/ k = n + 1
    BY <1>1, LastOrBefore
  <2> QED
    BY <2>1, <2>2, <2>3
<1>6. ASSUME NEW k \in 1..n+1
      PROVE  k = p <=> ReadsParent(k, n + 1)'
  <2>1. CASE k = p
    <3>1. Depth(k)' = Depth(p) /\ \A j \in k+1..n : Depth(j)' = Depth(j)
      BY <2>1, <1>1, <1>2
    <3>2. \A j \in k+1..(n+1)-1 : Depth(j)' > Depth(k)'
      BY <3>1, <2>1, <1>1
    <3> QED
      BY <3>1, <3>2, <2>1, <1>1 DEF ReadsParent
  <2>2. CASE k < p
    <3>1. Depth(p)' = Depth(p) /\ Depth(p) \in Nat /\ Depth(k)' \in Nat
      BY <2>2, <1>1, <1>2
    <3>2. ASSUME ReadsParent(k, n + 1)' PROVE FALSE
      <4>1. Depth(p)' > Depth(k)' /\ Depth(n + 1)' = Depth(k)' + 1
        BY <3>2, <2>2, <1>1 DEF ReadsParent
      <4> QED
        BY <4>1, <3>1
    <3> QED
      BY <3>2, <2>2, <1>1
  <2>3. CASE k \in p+1..n
    <3>1. /\ Depth(k)' = Depth(k) /\ Depth(k) \in Nat /\ Depth(p) \in Nat
          /\ Depth(k) > Depth(p)
      BY <2>3, <1>1, <1>2
    <3>2. ~ ReadsParent(k, n + 1)'
      BY <3>1 DEF ReadsParent
    <3> QED
      BY <3>2, <2>3, <1>1
  <2>4. CASE k = n + 1
    <3>1. ~ ReadsParent(k, n + 1)'
      BY <2>4, <1>1 DEF ReadsParent
    <3> QED
      BY <3>1, <2>4, <1>1
  <2> QED
    BY <2>1, <2>2, <2>3, <2>4, <1>1
<1> QED
  BY <1>1, <1>3, <1>5, <1>6 DEF ParentsReadBack

-----------------------------------------------------------------------------
LEMMA DumpStep == IInv /\ dump => IInv'
<1> SUFFICES ASSUME IInv, dump PROVE IInv'
  OBVIOUS
<1>1. PICK content, e :
        /\ e.joint = "none" /\ out' = <<e>>
        /\ nodes' = <<Node("ModuleDecl", content, 0)>>
        /\ calls' = <<Visit("ModuleDecl", content, <<>>)>>
        /\ prefix' = <<>>
  BY DEF dump, Line
<1>2. PICK todo : calls' = <<[line |-> 1, todo |-> todo, saved |-> <<>>]>>
  <2>1. out = <<>>
    BY DEF dump
  <2>2. calls' = <<[line |-> 1, todo |-> Children("ModuleDecl", content), saved |-> <<>>]>>
    BY <2>1, <1>1 DEF Visit
  <2> QED
    BY <2>2
<1>3. \A x : IsSeq(<<x>>) /\ Len(<<x>>) = 1 /\ <<x>>[1] = x /\ <<x>> # <<>>
  BY DEF IsSeq
<1>4. IsSeq(<<>>) /\ Len(<<>>) = 0
  BY DEF IsSeq
<1>5. /\ Len(out') = 1 /\ Len(nodes') = 1 /\ Len(calls') = 1 /\ Len(prefix') = 0
      /\ out'[1] = e /\ nodes'[1].parent = 0
      /\ calls'[1] = [line |-> 1, todo |-> todo, saved |-> <<>>]
  BY <1>1, <1>2, <1>3, <1>4 DEF Node
<1>6. Depth(1)' = 0
  BY <1>1, <1>5 DEF Depth
<1>7. SequencesOK'
  BY <1>1, <1>2, <1>3, <1>4 DEF SequencesOK
<1>8. Lengths'
  BY <1>1, <1>2, <1>3, <1>5, <1>6 DEF Lengths
<1>9. Path'
  BY <1>4, <1>5, <1>6 DEF Path
<1>10. ParentsReadBack'
  <2>1. DOMAIN out' = {1}
    BY <1>1, <1>3
  <2> QED
    BY <2>1, <1>5 DEF ParentsReadBack, ReadsParent
<1> QED
  BY <1>7, <1>8, <1>9, <1>10 DEF IInv

\* The prefix, the line and the visits after a child is printed.
LEMMA PrintStep == IInv /\ printChild => IInv'
<1> SUFFICES ASSUME IInv, printChild PROVE IInv'
  OBVIOUS
<1> USE DEF IInv
<1>1. PICK n, d : n = Len(out) /\ d = Len(calls)
  OBVIOUS
<1>2. /\ n \in Nat /\ d \in Nat \ {0} /\ Len(prefix) = d - 1 /\ Len(nodes) = n
      /\ calls # <<>>
  BY <1>1 DEF SequencesOK, Lengths, IsSeq, printChild
<1>3. PICK p, old, adv, seg, e, m, v :
        /\ p = calls[d].line /\ old = prefix /\ adv = [calls EXCEPT ![d] = NextChild(@)]
        /\ e.joint # "none" /\ e.prefix = prefix /\ out' = Append(out, e)
        /\ m.parent = p /\ nodes' = Append(nodes, m)
        /\ v = [line |-> n + 1, todo |-> v.todo, saved |-> old]
        /\ calls' = Append(adv, v)
        /\ prefix' = Append(prefix, seg)
  <2>1. PICK isLast, c, content :
          /\ out' = Append(out, Line(c, Connector(isLast)))
          /\ nodes' = Append(nodes, Node(c, content, calls[d].line))
          /\ calls' = Append([calls EXCEPT ![d] = NextChild(@)], Visit(c, content, prefix))
          /\ prefix' = Append(prefix, Segment(isLast))
    BY <1>1 DEF printChild
  <2>2. /\ Line(c, Connector(isLast)).joint # "none"
        /\ Line(c, Connector(isLast)).prefix = prefix
    BY DEF Line, Connector
  <2>3. Node(c, content, calls[d].line).parent = calls[d].line
    BY DEF Node
  <2>4. Visit(c, content, prefix) = [line |-> n + 1, todo |-> Visit(c, content, prefix).todo,
                                     saved |-> prefix]
    BY <1>1 DEF Visit
  <2> WITNESS calls[d].line, prefix, [calls EXCEPT ![d] = NextChild(@)], Segment(isLast),
              Line(c, Connector(isLast)), Node(c, content, calls[d].line),
              Visit(c, content, prefix)
  <2> QED
    BY <2>1, <2>2, <2>3, <2>4
<1>4. /\ p \in 1..n /\ Depth(p) = d - 1
      /\ \A j \in p+1..n : Depth(j) >= d
      /\ \A l \in 1..n : Depth(l) \in Nat /\ nodes[l].parent \in 0..l-1
  <2>1. d \in 1..Len(calls)
    BY <1>1, <1>2
  <2>2. /\ p \in 1..n /\ Depth(p) = d - 1
        /\ \A j \in p+1..n : Depth(j) >= d
    BY <2>1, <1>1, <1>3 DEF Path
  <2>3. \A l \in 1..n : Depth(l) \in Nat /\ nodes[l].parent \in 0..l-1
    BY <1>1 DEF Lengths
  <2> QED
    BY <2>2, <2>3
<1>5. /\ IsSeq(out') /\ Len(out') = n + 1 /\ DOMAIN out' = 1..n+1
      /\ \A l \in 1..n : Depth(l)' = Depth(l)
      /\ Depth(n + 1)' = d
  BY <1>1, <1>2, <1>3, DepthsKept DEF SequencesOK
<1>6. /\ IsSeq(nodes') /\ Len(nodes') = n + 1
      /\ \A l \in 1..n : nodes'[l] = nodes[l]
      /\ nodes'[n + 1] = m
  <2>1. IsSeq(nodes) /\ Len(nodes) = n
    BY <1>2 DEF SequencesOK
  <2>2. nodes' = Append(nodes, m)
    BY <1>3
  <2> QED
    BY <2>1, <2>2, Appended
<1>7. IsSeq(prefix') /\ Len(prefix') = d
  <2>1. IsSeq(prefix) /\ Len(prefix) + 1 = d
    BY <1>2 DEF SequencesOK
  <2>2. prefix' = Append(prefix, seg)
    BY <1>3
  <2> QED
    BY <2>1, <2>2, Appended
<1>8. /\ IsSeq(adv) /\ Len(adv) = d
      /\ \A i \in 1..d : i # d => adv[i] = calls[i]
      /\ adv[d] = [line |-> calls[d].line, todo |-> Tail(calls[d].todo),
                   saved |-> calls[d].saved]
  <2>1. d \in 1..Len(calls) /\ IsSeq(calls) /\ DOMAIN calls = 1..d
    BY <1>1, <1>2 DEF SequencesOK, IsSeq
  <2>2. adv = [calls EXCEPT ![d] = NextChild(@)]
    BY <1>3
  <2>0. calls[d] = [line |-> calls[d].line, todo |-> calls[d].todo, saved |-> calls[d].saved]
    BY <2>1 DEF Path
  <2>c. adv[d] = NextChild(calls[d])
    BY <2>1, <2>2
  <2>d. \A call, x : call = [line |-> call.line, todo |-> call.todo, saved |-> call.saved] =>
          [call EXCEPT !.todo = x] = [line |-> call.line, todo |-> x, saved |-> call.saved]
    OBVIOUS
  <2>3. adv[d] = [line |-> calls[d].line, todo |-> Tail(calls[d].todo),
                  saved |-> calls[d].saved]
    BY <2>0, <2>c, <2>d DEF NextChild
  <2>a. DOMAIN adv = DOMAIN calls /\ adv = [i \in DOMAIN adv |-> adv[i]]
    BY <2>2
  <2>b. \A i \in 1..d : i # d => adv[i] = calls[i]
    BY <2>1, <2>2
  <2>4. IsSeq(adv) /\ Len(adv) = Len(calls)
    BY <2>1, <2>a, SameDomain
  <2> QED
    BY <2>3, <2>b, <2>4, <1>1
<1>9. /\ IsSeq(calls') /\ Len(calls') = d + 1 /\ calls' # <<>>
      /\ \A i \in 1..d : calls'[i] = adv[i]
      /\ calls'[d + 1] = v
  BY <1>3, <1>8, Appended
<1>10. SequencesOK'
  BY <1>5, <1>6, <1>7, <1>9 DEF SequencesOK
<1>11. Lengths'
  <2>1. out' # <<>>
    BY <1>2, <1>3, Appended DEF SequencesOK
  <2>2. ASSUME NEW l \in 1..n+1
        PROVE  Depth(l)' \in Nat /\ nodes'[l].parent \in 0..l-1
    <3>1. l \in 1..n \/ l = n + 1
      BY <1>2, LastOrBefore
    <3>2. CASE l \in 1..n
      BY <3>2, <1>4, <1>5, <1>6
    <3>3. CASE l = n + 1
      BY <3>3, <1>2, <1>3, <1>4, <1>5, <1>6
    <3> QED
      BY <3>1, <3>2, <3>3
  <2> QED
    BY <2>1, <2>2, <1>2, <1>5, <1>6, <1>7, <1>9 DEF Lengths
<1>12. Path'
  <2>1. ASSUME NEW i \in 1..d
        PROVE  /\ calls'[i] = [line |-> calls'[i].line, todo |-> calls'[i].todo,
                               saved |-> calls'[i].saved]
               /\ calls'[i].line = calls[i].line /\ calls'[i].saved = calls[i].saved
    <3>1. calls[i] = [line |-> calls[i].line, todo |-> calls[i].todo,
                      saved |-> calls[i].saved]
      BY <1>1 DEF Path
    <3>2. CASE i # d
      BY <3>1, <3>2, <1>8, <1>9
    <3>3. CASE i = d
      BY <3>1, <3>3, <1>8, <1>9
    <3> QED
      BY <3>2, <3>3
  <2>2. ASSUME NEW i \in 1..d, NEW q, q = calls[i].line
        PROVE  /\ IsSeq(calls[i].saved) /\ Len(calls[i].saved) = IF i = 1 THEN 0 ELSE i - 2
               /\ q \in 1..n /\ Depth(q)' = i - 1
               /\ \A j \in q+1..n+1 : Depth(j)' >= i
    <3>2. /\ IsSeq(calls[i].saved) /\ Len(calls[i].saved) = IF i = 1 THEN 0 ELSE i - 2
          /\ q \in 1..n /\ Depth(q) = i - 1 /\ \A j \in q+1..n : Depth(j) >= i
      BY <2>2, <1>1 DEF Path
    <3>3. \A j \in 1..n+1 : j \in 1..n \/ j = n + 1
      BY <1>2, LastOrBefore
    <3>4. \A j \in q+1..n+1 : Depth(j)' >= i
      BY <3>2, <3>3, <1>2, <1>5
    <3>5. Depth(q)' = i - 1
      BY <3>2, <1>5
    <3> QED
      BY <3>2, <3>4, <3>5
  <2>3. /\ IsSeq(v.saved) /\ Len(v.saved) = d - 1 /\ v.line = n + 1
        /\ v = [line |-> v.line, todo |-> v.todo, saved |-> v.saved]
    BY <1>2, <1>3 DEF SequencesOK
  <2>4. SUFFICES ASSUME NEW i \in 1..d+1, NEW q, q = calls'[i].line
                 PROVE  /\ calls'[i] = [line |-> calls'[i].line, todo |-> calls'[i].todo,
                                         saved |-> calls'[i].saved]
                        /\ IsSeq(calls'[i].saved)
                        /\ Len(calls'[i].saved) = IF i = 1 THEN 0 ELSE i - 2
                        /\ q \in 1..n+1
                        /\ Depth(q)' = i - 1
                        /\ \A j \in q+1..n+1 : Depth(j)' >= i
    BY <1>5, <1>9 DEF Path
  <2>5. i \in 1..d \/ i = d + 1
    BY <1>2, LastOrBefore
  <2>6. CASE i \in 1..d
    <3>1. q = calls[i].line
      BY <2>1, <2>4, <2>6
    <3>2. 1..n \subseteq 1..n+1
      BY <1>2
    <3>3. /\ IsSeq(calls[i].saved) /\ Len(calls[i].saved) = IF i = 1 THEN 0 ELSE i - 2
          /\ q \in 1..n /\ Depth(q)' = i - 1
          /\ \A j \in q+1..n+1 : Depth(j)' >= i
      BY <3>1, <2>2, <2>6
    <3> QED
      BY <3>2, <3>3, <2>1, <2>6
  <2>7. CASE i = d + 1
    <3>1. calls'[i] = v /\ q = n + 1
      BY <2>3, <2>4, <2>7, <1>9
    <3>2. \A j \in q+1..n+1 : FALSE
      BY <3>1, <1>2
    <3> QED
      BY <3>1, <3>2, <2>3, <2>7, <1>2, <1>5
  <2> QED
    BY <2>5, <2>6, <2>7
<1>13. ParentsReadBack'
  <2>1. /\ IsSeq(out) /\ IsSeq(nodes) /\ n = Len(out) /\ n = Len(nodes)
        /\ out' = Append(out, e) /\ nodes' = Append(nodes, m) /\ p = m.parent
    BY <1>1, <1>2, <1>3 DEF SequencesOK
  <2>2. /\ Depth(n + 1)' = Depth(p) + 1
        /\ \A j \in p+1..n : Depth(j) > Depth(p)
    BY <1>2, <1>4, <1>5
  <2> QED
    BY <2>1, <2>2, <1>4, NewLineReadsBack
<1> QED
  BY <1>10, <1>11, <1>12, <1>13

\* The visits under way after one returns are those before it was made.
LEMMA ReturnStep == IInv /\ return => IInv'
<1> SUFFICES ASSUME IInv, return PROVE IInv'
  OBVIOUS
<1> USE DEF IInv
<1>1. PICK n, d : n = Len(out) /\ d = Len(calls)
  OBVIOUS
<1>2. /\ n \in Nat /\ d \in Nat \ {0} /\ d \in 1..Len(calls) /\ calls # <<>>
      /\ IsSeq(calls)
  BY <1>1 DEF SequencesOK, IsSeq, return
<1>3. /\ prefix' = calls[d].saved /\ calls' = SubSeq(calls, 1, d - 1)
      /\ out' = out /\ nodes' = nodes
  BY <1>1 DEF return, Restored
<1>4. /\ IsSeq(calls') /\ Len(calls') = d - 1
      /\ \A i \in 1..d-1 : calls'[i] = calls[i]
  BY <1>1, <1>2, <1>3, Shortened
<1>5. IsSeq(prefix') /\ Len(prefix') = IF d = 1 THEN 0 ELSE d - 2
  BY <1>2, <1>3 DEF Path
<1>6. \A l : Depth(l)' = Depth(l)
  BY <1>3 DEF Depth
<1>7. SequencesOK'
  BY <1>3, <1>4, <1>5 DEF SequencesOK
<1>8. Lengths'
  <2>1. calls' = <<>> <=> d = 1
    <3>1. \A s : IsSeq(s) => (s = <<>> <=> Len(s) = 0)
      BY DEF IsSeq
    <3> QED
      BY <3>1, <1>2, <1>4
  <2>2. Len(prefix') = IF calls' = <<>> THEN 0 ELSE Len(calls') - 1
    BY <2>1, <1>2, <1>4, <1>5
  <2>3. out # <<>>
    BY <1>2 DEF Lengths
  <2>4. \A l \in 1..Len(out') : Depth(l)' \in Nat /\ nodes'[l].parent \in 0..l-1
    BY <1>3, <1>6 DEF Lengths
  <2>5. Len(out') = Len(nodes')
    BY <1>3 DEF Lengths
  <2> QED
    BY <2>2, <2>3, <2>4, <2>5, <1>3 DEF Lengths
<1>9. Path'
  <2>1. SUFFICES ASSUME NEW i \in 1..d-1, NEW q, q = calls'[i].line
                 PROVE  /\ calls'[i] = [line |-> calls'[i].line, todo |-> calls'[i].todo,
                                         saved |-> calls'[i].saved]
                        /\ IsSeq(calls'[i].saved)
                        /\ Len(calls'[i].saved) = IF i = 1 THEN 0 ELSE i - 2
                        /\ q \in 1..n
                        /\ Depth(q)' = i - 1
                        /\ \A j \in q+1..n : Depth(j)' >= i
    BY <1>1, <1>3, <1>4 DEF Path
  <2>2. i \in 1..Len(calls) /\ calls'[i] = calls[i] /\ q = calls[i].line
    BY <2>1, <1>1, <1>2, <1>4
  <2>3. /\ calls[i] = [line |-> calls[i].line, todo |-> calls[i].todo,
                       saved |-> calls[i].saved]
        /\ IsSeq(calls[i].saved)
        /\ Len(calls[i].saved) = IF i = 1 THEN 0 ELSE i - 2
        /\ q \in 1..n /\ Depth(q) = i - 1
        /\ \A j \in q+1..n : Depth(j) >= i
    BY <2>2, <1>1 DEF Path
  <2> QED
    BY <2>2, <2>3, <1>6
<1>10. ParentsReadBack'
  BY <1>3 DEF ParentsReadBack, ReadsParent, Depth
<1> QED
  BY <1>7, <1>8, <1>9, <1>10

LEMMA StutterStep == IInv /\ UNCHANGED vars => IInv'
  BY DEF vars, IInv, SequencesOK, Lengths, Path, ParentsReadBack, ReadsParent, Depth

(***************************************************************************)
(* At every moment of every dump the indentation of each line tells whose  *)
(* child its node is (ASTDumper.cpp:34-40).                                *)
(***************************************************************************)
THEOREM DumpReadsBack == DumpSpec => []ParentsReadBack
<1>1. DumpInit => IInv
  BY InitIInv
<1>2. IInv /\ [DumpNext]_vars => IInv'
  BY DumpStep, PrintStep, ReturnStep, StutterStep DEF DumpNext
<1>3. IInv => ParentsReadBack
  BY DEF IInv
<1> QED
  BY <1>1, <1>2, <1>3, PTL DEF DumpSpec

-----------------------------------------------------------------------------
(***************************************************************************)
(* The children of a node are a sequence of kinds.  FlattenSeq is defined  *)
(* by recursion, so that there is something to show.                       *)
(***************************************************************************)
LEMMA LeastExists ==
  ASSUME NEW T, T \subseteq Nat, T # {}
  PROVE  \E m \in T : \A k \in T : m <= k
<1> DEFINE R == OpToRel(<, Nat)
<1>1. IsWellFoundedOn(R, Nat)
  BY NatLessThanWellFounded
<1>2. \A x, y \in Nat : x < y => <<x, y>> \in R
  BY DEF OpToRel
<1> HIDE DEF R
<1>3. PICK m \in T : \A y \in T : ~ (<<y, m>> \in R)
  BY <1>1, WFMin
<1>4. \A k \in T : k \in Nat /\ m \in Nat /\ ~(k < m)
  BY <1>2, <1>3
<1>5. \A k \in T : m <= k
  BY <1>4
<1> QED BY <1>5

\* f puts the first sequences of ss after each other, as FlattenSeq does.
Flattens(f, ss, n) ==
  f = [i \in 1..n |-> IF i = 1 THEN ss[i] ELSE f[i-1] \o ss[i]]

\* The recursion of FlattenSeq has a solution, by the least length that would
\* have none.
LEMMA Flattened ==
  ASSUME NEW S, NEW ss \in Seq(Seq(S)), NEW n \in Nat, n <= Len(ss)
  PROVE  \E f : Flattens(f, ss, n) /\ f \in [1..n -> Seq(S)]
<1> DEFINE T == {m \in Nat : m <= Len(ss) /\ ~ \E f \in [1..m -> Seq(S)] : Flattens(f, ss, m)}
<1>0. \A i \in 1..Len(ss) : ss[i] \in Seq(S)
  OBVIOUS
<1>1. ASSUME T # {} PROVE FALSE
  <2>1. PICK m \in T : \A k \in T : m <= k
    BY <1>1, LeastExists
  <2>2. m \in Nat /\ m <= Len(ss) /\ Len(ss) \in Nat
    BY <2>1
  <2>3. m # 0
    <3>1. SUFFICES ASSUME m = 0 PROVE FALSE
      OBVIOUS
    <3> DEFINE g == [i \in 1..0 |-> <<>>]
    <3>2. g \in [1..0 -> Seq(S)] /\ Flattens(g, ss, 0)
      BY DEF Flattens
    <3> QED BY <2>1, <3>1, <3>2
  <2>4. m - 1 \in Nat /\ m - 1 <= Len(ss) /\ m - 1 \notin T
    <3>1. m - 1 \in Nat /\ m - 1 <= Len(ss) /\ ~(m <= m - 1)
      BY <2>2, <2>3
    <3>2. m - 1 \notin T
      BY <2>1, <3>1
    <3> QED BY <3>1, <3>2
  <2>5. PICK f \in [1..m-1 -> Seq(S)] : Flattens(f, ss, m - 1)
    BY <2>4
  <2> DEFINE last == IF m = 1 THEN ss[m] ELSE f[m-1] \o ss[m]
             g == [i \in 1..m |-> IF i = m THEN last ELSE f[i]]
  <2>6. last \in Seq(S)
    <3>1. m \in 1..Len(ss)
      BY <2>2, <2>3
    <3>2. ss[m] \in Seq(S)
      BY <1>0, <3>1
    <3>3. CASE m = 1
      BY <3>2, <3>3
    <3>4. CASE m # 1
      <4>1. m - 1 \in 1..m-1
        BY <2>2, <2>3, <3>4
      <4>2. f[m-1] \in Seq(S)
        BY <4>1
      <4> QED BY <3>2, <3>4, <4>2
    <3> QED BY <3>3, <3>4
  <2> HIDE DEF last
  <2>7. g \in [1..m -> Seq(S)]
    <3>1. ASSUME NEW i \in 1..m, i # m PROVE i \in 1..m-1
      BY <2>2, <3>1
    <3>2. \A i \in 1..m : i # m => f[i] \in Seq(S)
      BY <3>1
    <3> QED BY <2>6, <3>2
  <2>8. Flattens(g, ss, m)
    <3>1. ASSUME NEW i \in 1..m
          PROVE  g[i] = IF i = 1 THEN ss[i] ELSE g[i-1] \o ss[i]
      <4>1. CASE i = m
        <5>1. i # 1 => i - 1 \in 1..m /\ i - 1 # m
          BY <2>2, <4>1
        <5>2. g[i] = last /\ (i # 1 => g[i-1] = f[i-1])
          BY <4>1, <5>1
        <5> QED BY <4>1, <5>2 DEF last
      <4>2. CASE i # m
        <5>1. i \in 1..m-1 /\ (i # 1 => i - 1 \in 1..m /\ i - 1 # m)
          BY <2>2, <4>2
        <5>2. g[i] = f[i] /\ (i # 1 => g[i-1] = f[i-1])
          BY <4>2, <5>1
        <5>3. f[i] = IF i = 1 THEN ss[i] ELSE f[i-1] \o ss[i]
          BY <2>5, <5>1 DEF Flattens
        <5> QED BY <5>2, <5>3
      <4> QED BY <4>1, <4>2
    <3>2. g = [i \in 1..m |-> g[i]]
      OBVIOUS
    <3> HIDE DEF g
    <3> QED BY <3>1, <3>2 DEF Flattens
  <2> HIDE DEF g
  <2> QED BY <2>1, <2>7, <2>8
<1>2. n \notin T
  BY <1>1
<1> QED BY <1>2

LEMMA FlattenSeqOK ==
  ASSUME NEW S, NEW ss \in Seq(Seq(S))
  PROVE  FlattenSeq(ss) \in Seq(S)
<1>1. CASE Len(ss) = 0
  <2>1. ss = <<>>
    BY <1>1
  <2> QED BY <1>1, <2>1 DEF FlattenSeq
<1>2. CASE Len(ss) # 0
  <2> DEFINE N == Len(ss)
             h == CHOOSE f : f = [i \in 1..N |-> IF i = 1 THEN ss[i] ELSE f[i-1] \o ss[i]]
  <2>1. N \in Nat \ {0}
    BY <1>2
  <2>2. FlattenSeq(ss) = h[N]
    BY <1>2 DEF FlattenSeq
  <2>3. \E f : Flattens(f, ss, N)
    <3>1. N <= Len(ss) /\ N \in Nat
      BY <2>1
    <3> HIDE DEF N
    <3> QED BY <3>1, Flattened
  <2>4. Flattens(h, ss, N)
    BY <2>3 DEF Flattens
  <2> HIDE DEF h
  <2> DEFINE T == {i \in 1..N : h[i] \notin Seq(S)}
  <2>5. T = {}
    <3>1. SUFFICES ASSUME T # {} PROVE FALSE
      OBVIOUS
    <3>2. T \subseteq Nat
      OBVIOUS
    <3>3. PICK m \in T : \A k \in T : m <= k
      BY <3>1, <3>2, LeastExists
    <3>4. h[m] = IF m = 1 THEN ss[m] ELSE h[m-1] \o ss[m]
      BY <2>4 DEF Flattens
    <3>5. ss[m] \in Seq(S)
      OBVIOUS
    <3>6. ASSUME m # 1 PROVE h[m-1] \in Seq(S)
      <4>1. m - 1 \in 1..N /\ ~(m <= m - 1)
        BY <2>1, <3>6
      <4>2. m - 1 \notin T
        BY <3>3, <4>1
      <4> QED BY <4>1, <4>2
    <3>7. h[m] \in Seq(S)
      <4>1. CASE m = 1
        BY <3>4, <3>5, <4>1
      <4>2. CASE m # 1
        <5>1. h[m] = h[m-1] \o ss[m] /\ h[m-1] \in Seq(S)
          BY <3>4, <3>6, <4>2
        <5> QED BY <3>5, <5>1
      <4> QED BY <4>1, <4>2
    <3> QED BY <3>3, <3>7
  <2> QED BY <2>1, <2>2, <2>5
<1> QED BY <1>1, <1>2

Kinds == {"top", "param", "field", "variant", "block", "stmt", "expr", "type"}

SlotOK(slot) == slot.kind \in Kinds \cup {"arm"} /\ slot.least \in Nat /\ slot.most \in Nat

\* Declarations, statements, expressions and types are classes of their own.
LEMMA ClassesApart ==
  /\ \A c \in DOMAIN Declarations :
       c \notin DOMAIN Statements /\ c \notin DOMAIN Expressions /\ c \notin DOMAIN Types
  /\ \A c \in DOMAIN Statements : c \notin DOMAIN Expressions /\ c \notin DOMAIN Types
  /\ \A c \in DOMAIN Expressions : c \notin DOMAIN Types
  /\ DOMAIN visitDecl = DOMAIN Declarations /\ DOMAIN visitStmt = DOMAIN Statements
  /\ DOMAIN visitExpr = DOMAIN Expressions /\ DOMAIN visitType = DOMAIN Types
<1>1. /\ DOMAIN visitDecl = DOMAIN Declarations /\ DOMAIN visitStmt = DOMAIN Statements
      /\ DOMAIN visitExpr = DOMAIN Expressions /\ DOMAIN visitType = DOMAIN Types
  BY DEF Declarations, Statements, Expressions, Types, visitDecl, visitStmt, visitExpr, visitType
<1>2. \A c \in DOMAIN Declarations :
        c \notin DOMAIN Statements /\ c \notin DOMAIN Expressions /\ c \notin DOMAIN Types
  BY DEF Declarations, Statements, Expressions, Types
<1>3. \A c \in DOMAIN Statements : c \notin DOMAIN Expressions /\ c \notin DOMAIN Types
  BY DEF Statements, Expressions, Types
<1>4. \A c \in DOMAIN Expressions : c \notin DOMAIN Types
  BY DEF Expressions, Types
<1> QED BY <1>1, <1>2, <1>3, <1>4

LEMMA SlotsOK ==
  ASSUME NEW c \in Classes, NEW s \in DOMAIN SlotsOf(c)
  PROVE  SlotOK(SlotsOf(c)[s])
<1>1. /\ \A k \in Kinds \cup {"arm"} : SlotOK(One(k)) /\ SlotOK(Opt(k)) /\ SlotOK(Many(k))
      /\ DOMAIN None = {}
  BY ASTBounds DEF One, Opt, Many, None, SlotOK
<1>2. CASE c \in DOMAIN Declarations
  <2>1. \A x \in DOMAIN Declarations : \A y \in DOMAIN Declarations[x] : SlotOK(Declarations[x][y])
    BY <1>1 DEF Declarations, Kinds
  <2>2. SlotsOf(c) = Declarations[c]
    BY <1>2, ClassesApart DEF SlotsOf
  <2> QED BY <1>2, <2>1, <2>2
<1>3. CASE c \in DOMAIN Statements
  <2>1. \A x \in DOMAIN Statements : \A y \in DOMAIN Statements[x] : SlotOK(Statements[x][y])
    BY <1>1 DEF Statements, Kinds
  <2>2. SlotsOf(c) = Statements[c]
    BY <1>3, ClassesApart DEF SlotsOf
  <2> QED BY <1>3, <2>1, <2>2
<1>4. CASE c \in DOMAIN Expressions
  <2>1. \A x \in DOMAIN Expressions : \A y \in DOMAIN Expressions[x] : SlotOK(Expressions[x][y])
    BY <1>1 DEF Expressions, Kinds
  <2>2. SlotsOf(c) = Expressions[c]
    BY <1>4, ClassesApart DEF SlotsOf
  <2> QED BY <1>4, <2>1, <2>2
<1>5. CASE c \in DOMAIN Types
  <2>1. \A x \in DOMAIN Types : \A y \in DOMAIN Types[x] : SlotOK(Types[x][y])
    BY <1>1 DEF Types, Kinds
  <2>2. SlotsOf(c) = Types[c]
    BY <1>5, ClassesApart DEF SlotsOf
  <2> QED BY <1>5, <2>1, <2>2
<1> QED BY <1>2, <1>3, <1>4, <1>5 DEF Classes

Tuple(t) == t = <<>> \/ t = <<t[1]>> \/ t = <<t[1], t[2]>> \/ t = <<t[1], t[2], t[3]>>

LEMMA TupleIsSeq ==
  ASSUME NEW t, Tuple(t), NEW S, \A i \in DOMAIN t : t[i] \in S
  PROVE  t \in Seq(S)
<1>1. CASE t = <<>>
  BY <1>1
<1>2. CASE t = <<t[1]>>
  <2>1. PICK a : t = <<a>>
    BY <1>2
  <2>2. 1 \in DOMAIN t /\ t[1] = a
    BY <2>1
  <2> QED BY <2>1, <2>2
<1>3. CASE t = <<t[1], t[2]>>
  <2>1. PICK a, b : t = <<a, b>>
    BY <1>3
  <2>2. 1 \in DOMAIN t /\ t[1] = a /\ 2 \in DOMAIN t /\ t[2] = b
    BY <2>1
  <2> QED BY <2>1, <2>2
<1>4. CASE t = <<t[1], t[2], t[3]>>
  <2>1. PICK a, b, c : t = <<a, b, c>>
    BY <1>4
  <2>2. /\ 1 \in DOMAIN t /\ t[1] = a /\ 2 \in DOMAIN t /\ t[2] = b
        /\ 3 \in DOMAIN t /\ t[3] = c
    BY <2>1
  <2> QED BY <2>1, <2>2
<1> QED BY <1>1, <1>2, <1>3, <1>4 DEF Tuple

\* A visit prints slots that its class has.
LEMMA VisitOK ==
  ASSUME NEW c \in Classes
  PROVE  visit(c) \in Seq(DOMAIN SlotsOf(c))
<1>1. CASE c \in DOMAIN Declarations
  <2>1. \A x \in DOMAIN Declarations :
          x \in DOMAIN visitDecl /\ \A i \in DOMAIN visitDecl[x] : visitDecl[x][i] \in DOMAIN Declarations[x]
    BY DEF Declarations, visitDecl
  <2>2. \A x \in DOMAIN visitDecl : Tuple(visitDecl[x])
    BY DEF visitDecl, Tuple
  <2>3. visit(c) = visitDecl[c] /\ SlotsOf(c) = Declarations[c]
    BY <1>1, ClassesApart DEF visit, SlotsOf
  <2> QED BY <1>1, <2>1, <2>2, <2>3, TupleIsSeq
<1>2. CASE c \in DOMAIN Statements
  <2>1. \A x \in DOMAIN Statements :
          x \in DOMAIN visitStmt /\ \A i \in DOMAIN visitStmt[x] : visitStmt[x][i] \in DOMAIN Statements[x]
    BY DEF Statements, visitStmt
  <2>2. \A x \in DOMAIN visitStmt : Tuple(visitStmt[x])
    BY DEF visitStmt, Tuple
  <2>3. visit(c) = visitStmt[c] /\ SlotsOf(c) = Statements[c]
    BY <1>2, ClassesApart DEF visit, SlotsOf
  <2> QED BY <1>2, <2>1, <2>2, <2>3, TupleIsSeq
<1>3. CASE c \in DOMAIN Expressions
  <2>1. \A x \in DOMAIN Expressions :
          x \in DOMAIN visitExpr /\ \A i \in DOMAIN visitExpr[x] : visitExpr[x][i] \in DOMAIN Expressions[x]
    BY DEF Expressions, visitExpr
  <2>2. \A x \in DOMAIN visitExpr : Tuple(visitExpr[x])
    BY DEF visitExpr, Tuple
  <2>3. visit(c) = visitExpr[c] /\ SlotsOf(c) = Expressions[c]
    BY <1>3, ClassesApart DEF visit, SlotsOf
  <2> QED BY <1>3, <2>1, <2>2, <2>3, TupleIsSeq
<1>4. CASE c \in DOMAIN Types
  <2>1. \A x \in DOMAIN Types :
          x \in DOMAIN visitType /\ \A i \in DOMAIN visitType[x] : visitType[x][i] \in DOMAIN Types[x]
    BY DEF Types, visitType
  <2>2. \A x \in DOMAIN visitType : Tuple(visitType[x])
    BY DEF visitType, Tuple
  <2>3. visit(c) = visitType[c] /\ SlotsOf(c) = Types[c]
    BY <1>4, ClassesApart DEF visit, SlotsOf
  <2> QED BY <1>4, <2>1, <2>2, <2>3, TupleIsSeq
<1> QED BY <1>1, <1>2, <1>3, <1>4 DEF Classes

LEMMA FillOK ==
  ASSUME NEW slot, SlotOK(slot), NEW f \in Fill(slot)
  PROVE  f \in Seq(Kinds)
<1> DEFINE item == IF slot.kind = "arm" THEN MatchArm ELSE {<<slot.kind>>}
<1>1. item \subseteq Seq(Kinds)
  <2>1. CASE slot.kind = "arm"
    <3>1. <<"expr", "stmt">> \in Seq(Kinds) /\ <<"stmt">> \in Seq(Kinds)
      BY DEF Kinds
    <3> QED BY <2>1, <3>1 DEF MatchArm
  <2>2. CASE slot.kind # "arm"
    <3>1. slot.kind \in Kinds
      BY <2>2 DEF SlotOK
    <3>2. <<slot.kind>> \in Seq(Kinds)
      BY <3>1
    <3> QED BY <2>2, <3>2
  <2> QED BY <2>1, <2>2
<1> HIDE DEF item
<1>2. PICK n \in slot.least..slot.most : \E items \in [1..n -> item] : f = FlattenSeq(items)
  BY DEF Fill, item
<1>3. n \in Nat
  BY DEF SlotOK
<1>a. PICK items \in [1..n -> item] : f = FlattenSeq(items)
  BY <1>2
<1>4. items \in [1..n -> Seq(Kinds)]
  BY <1>1
<1>5. items \in Seq(Seq(Kinds))
  BY <1>3, <1>4
<1> QED BY <1>a, <1>5, FlattenSeqOK

LEMMA ChildrenOK ==
  ASSUME NEW c \in Classes, NEW content \in Contents(c)
  PROVE  Children(c, content) \in Seq(Kinds)
<1> DEFINE parts == [i \in DOMAIN visit(c) |-> content[visit(c)[i]]]
<1>1. visit(c) \in Seq(DOMAIN SlotsOf(c))
  BY VisitOK
<1>2. \A s \in DOMAIN SlotsOf(c) : content[s] \in Seq(Kinds)
  BY SlotsOK, FillOK DEF Contents
<1>3. \A i \in DOMAIN visit(c) : visit(c)[i] \in DOMAIN SlotsOf(c)
  BY <1>1
<1>4. parts \in [1..Len(visit(c)) -> Seq(Kinds)] /\ Len(visit(c)) \in Nat
  BY <1>1, <1>2, <1>3
<1>5. parts \in Seq(Seq(Kinds))
  BY <1>4
<1>6. Children(c, content) = FlattenSeq(parts)
  BY DEF Children
<1> QED BY <1>5, <1>6, FlattenSeqOK

LEMMA ClassesOfKinds ==
  ASSUME NEW kind \in Kinds
  PROVE  ClassesOf(kind) \subseteq Classes
<1>1. {"ImportDecl", "FunctionDecl", "VarDecl", "StructDecl", "EnumDecl", "TypeAliasDecl",
       "ParameterDecl", "FieldDecl", "EnumVariantDecl"} \subseteq DOMAIN Declarations
  BY DEF Declarations
<1>2. "BlockStmt" \in DOMAIN Statements
  BY DEF Statements
<1>3. /\ DOMAIN Declarations \subseteq Classes /\ DOMAIN Statements \subseteq Classes
      /\ DOMAIN Expressions \subseteq Classes /\ DOMAIN Types \subseteq Classes
  BY DEF Classes
<1> QED BY <1>1, <1>2, <1>3 DEF Kinds, ClassesOf, DeclStmt

-----------------------------------------------------------------------------
(***************************************************************************)
(* How the lines are drawn.  A line is open as long as all those after it  *)
(* are deeper: below it the column of its connector is its segment, the    *)
(* line that closes it is a sibling if and only if it is a tee, and while  *)
(* it is open its parent has a child to print if and only if it is.        *)
(***************************************************************************)
LineSegment(l) == Segment(out[l].joint = "elbow")
OpenUntil(l, k) == \A j \in l+1..k : Depth(j) > Depth(l)

Joined ==
  \A l \in 2..Len(out) : out[l].joint \in {"tee", "elbow"} /\ Depth(l) >= 1

Columns ==
  \A l \in 2..Len(out) : \A k \in l+1..Len(out) :
    OpenUntil(l, k) => out[k].prefix[Depth(l)] = LineSegment(l)

Closed ==
  \A l \in 2..Len(out) : \A k \in l+1..Len(out) :
    OpenUntil(l, k - 1) /\ Depth(k) <= Depth(l) =>
      IF out[l].joint = "tee" THEN Depth(k) = Depth(l) ELSE Depth(k) < Depth(l)

HasSibling(l) == Depth(l) <= Len(calls) /\ calls[Depth(l)].todo # <<>>
Awaited ==
  \A l \in 2..Len(out) : OpenUntil(l, Len(out)) => (out[l].joint = "tee" <=> HasSibling(l))

\* The prefix is made of the segments of the lines of the visits under way.
Pending ==
  /\ \A i \in 1..Len(calls) : calls[i].todo \in Seq(Kinds)
  /\ \A i \in 2..Len(calls) :
       /\ prefix[i - 1] = LineSegment(calls[i].line)
       /\ \A j \in 1..i-2 : calls[i].saved[j] = prefix[j]

Drawing == Joined /\ Columns /\ Closed /\ Awaited /\ Pending

LEMMA InitDraws == DumpInit => Drawing
<1> SUFFICES ASSUME DumpInit PROVE Drawing
  OBVIOUS
<1>1. Len(<<>>) = 0
  OBVIOUS
<1> QED
  BY <1>1 DEF DumpInit, Drawing, Joined, Columns, Closed, Awaited, Pending

LEMMA DumpDraws == IInv /\ dump => Drawing'
<1> SUFFICES ASSUME IInv, dump PROVE Drawing'
  OBVIOUS
<1>1. PICK content \in Contents("ModuleDecl") :
        calls' = <<Visit("ModuleDecl", content, <<>>)>> /\ \E e : out' = <<e>>
  BY DEF dump
<1>2. Len(out') = 1 /\ Len(calls') = 1
  BY <1>1
<1>3. calls'[1].todo \in Seq(Kinds)
  <2>1. "ModuleDecl" \in Classes
    BY DEF Classes, Declarations
  <2>2. calls'[1].todo = Children("ModuleDecl", content)
    BY <1>1 DEF Visit
  <2> QED BY <2>1, <2>2, ChildrenOK
<1>4. (2..Len(out') = {}) /\ (2..Len(calls') = {}) /\ (1..Len(calls') = {1})
  BY <1>2
<1> QED
  BY <1>3, <1>4 DEF Drawing, Joined, Columns, Closed, Awaited, Pending

LEMMA OneLeft ==
  ASSUME NEW t \in Seq(Kinds), t # <<>>
  PROVE  Tail(t) \in Seq(Kinds) /\ Head(t) \in Kinds /\ (Len(t) = 1 <=> Tail(t) = <<>>)
<1>1. Tail(t) \in Seq(Kinds) /\ Head(t) \in Kinds /\ Len(Tail(t)) = Len(t) - 1 /\ Len(t) \in Nat
  OBVIOUS
<1>2. \A s \in Seq(Kinds) : s = <<>> <=> Len(s) = 0
  OBVIOUS
<1>3. Len(t) = 1 <=> Len(Tail(t)) = 0
  BY <1>1
<1>4. Len(t) = 1 <=> Tail(t) = <<>>
  BY <1>1, <1>2, <1>3
<1> QED BY <1>1, <1>4

\* An open line at depth i is that of the visit i + 1 under way, if there is
\* one.
LEMMA OpenIsUnderWay ==
  ASSUME IInv, NEW l \in 2..Len(out), Depth(l) >= 1, Depth(l) < Len(calls), OpenUntil(l, Len(out))
  PROVE  Depth(l) + 1 \in 2..Len(calls) /\ calls[Depth(l) + 1].line = l
<1> DEFINE D == Depth(l)
           q == calls[D + 1].line
<1>1. Len(out) \in Nat /\ Len(calls) \in Nat /\ l \in 1..Len(out) /\ D \in Nat /\ D >= 1
      /\ D < Len(calls)
  <2>1. Len(out) \in Nat /\ Len(calls) \in Nat
    BY DEF IInv, SequencesOK, IsSeq
  <2>2. l \in 1..Len(out)
    BY <2>1
  <2>3. Depth(l) \in Nat
    BY <2>2 DEF IInv, Lengths
  <2> QED BY <2>1, <2>2, <2>3
<1> HIDE DEF D
<1>2. D + 1 \in 2..Len(calls) /\ D + 1 \in 1..Len(calls)
  BY <1>1
<1>3. /\ q \in 1..Len(out) /\ Depth(q) = D
      /\ \A j \in q+1..Len(out) : Depth(j) >= D + 1
  <2>1. Path
    BY DEF IInv
  <2>2. /\ q \in 1..Len(out) /\ Depth(q) = (D + 1) - 1
        /\ \A j \in q+1..Len(out) : Depth(j) >= D + 1
    BY <1>2, <2>1 DEF Path
  <2> QED BY <1>1, <2>2
<1> HIDE DEF q
<1>4. ~(l < q)
  <2>1. SUFFICES ASSUME l < q PROVE FALSE
    OBVIOUS
  <2>2. q \in l+1..Len(out)
    BY <1>1, <1>3, <2>1
  <2>3. Depth(q) > Depth(l)
    BY <2>2 DEF OpenUntil
  <2> QED BY <1>1, <1>3, <2>3 DEF D
<1>5. ~(q < l)
  <2>1. SUFFICES ASSUME q < l PROVE FALSE
    OBVIOUS
  <2>2. l \in q+1..Len(out)
    BY <1>1, <1>3, <2>1
  <2>3. Depth(l) >= D + 1
    BY <1>3, <2>2
  <2> QED BY <1>1, <2>3 DEF D
<1>6. q = l
  BY <1>1, <1>3, <1>4, <1>5
<1> QED BY <1>2, <1>6 DEF D, q

LEMMA PrintDraws == IInv /\ Drawing /\ printChild => Drawing'
<1> SUFFICES ASSUME IInv, Drawing, printChild PROVE Drawing'
  OBVIOUS
<1>1. PICK n, d : n = Len(out) /\ d = Len(calls)
  OBVIOUS
<1>2. /\ n \in Nat /\ d \in Nat \ {0} /\ Len(prefix) = d - 1 /\ calls # <<>>
      /\ IsSeq(out) /\ IsSeq(calls) /\ IsSeq(prefix) /\ d \in 1..d /\ DOMAIN calls = 1..d
  <2>1. /\ n \in Nat /\ d \in Nat \ {0} /\ Len(prefix) = d - 1 /\ calls # <<>>
        /\ IsSeq(out) /\ IsSeq(calls) /\ IsSeq(prefix)
    BY <1>1 DEF IInv, SequencesOK, Lengths, IsSeq, printChild
  <2> QED BY <1>1, <2>1 DEF IsSeq
<1>3. PICK t, isLast, c : \E content \in Contents(c) :
        /\ t = calls[d].todo /\ isLast = (Len(t) = 1) /\ t # <<>>
        /\ c \in ClassesOf(Head(t))
        /\ out' = Append(out, Line(c, Connector(isLast)))
        /\ calls' = Append([calls EXCEPT ![d] = NextChild(@)], Visit(c, content, prefix))
        /\ prefix' = Append(prefix, Segment(isLast))
  BY <1>1 DEF printChild
<1>4. PICK content \in Contents(c) :
        calls' = Append([calls EXCEPT ![d] = NextChild(@)], Visit(c, content, prefix))
  BY <1>3
<1>5. /\ t \in Seq(Kinds) /\ Tail(t) \in Seq(Kinds) /\ (isLast <=> Tail(t) = <<>>)
      /\ Children(c, content) \in Seq(Kinds)
  <2>1. t \in Seq(Kinds) /\ t # <<>>
    BY <1>1, <1>2, <1>3 DEF Drawing, Pending
  <2>2. c \in Classes
    BY <1>3, <2>1, OneLeft, ClassesOfKinds
  <2> QED BY <1>3, <2>1, <2>2, OneLeft, ChildrenOK
<1> DEFINE e == Line(c, Connector(isLast))
           v == Visit(c, content, prefix)
           adv == [calls EXCEPT ![d] = NextChild(@)]
<1>6. /\ e.prefix = prefix /\ e.joint = Connector(isLast) /\ e.joint # "none"
      /\ e.joint \in {"tee", "elbow"} /\ (e.joint = "elbow" <=> isLast)
      /\ (e.joint = "tee" <=> ~isLast)
  BY DEF Line, Connector
<1>7. v.line = n + 1 /\ v.todo = Children(c, content) /\ v.saved = prefix
  BY <1>1 DEF Visit
<1> HIDE DEF e, v
<1>8. /\ Len(out') = n + 1 /\ out'[n + 1] = e
      /\ \A l \in 1..n : out'[l] = out[l] /\ Depth(l)' = Depth(l)
      /\ Depth(n + 1)' = d
  <2>1. out' = Append(out, e)
    BY <1>3 DEF e
  <2>2. /\ Len(out') = n + 1 /\ out'[n + 1] = e /\ \A l \in 1..n : out'[l] = out[l]
    BY <1>1, <1>2, <2>1, Appended
  <2>3. /\ \A l \in 1..n : Depth(l)' = Depth(l)
        /\ Depth(n + 1)' = IF e.joint = "none" THEN 0 ELSE Len(e.prefix) + 1
    BY <1>1, <1>2, <2>1, DepthsKept
  <2> QED BY <1>2, <1>6, <2>2, <2>3
<1>9. /\ IsSeq(adv) /\ Len(adv) = d
      /\ \A i \in 1..d : adv[i].line = calls[i].line /\ adv[i].saved = calls[i].saved
      /\ \A i \in 1..d : i # d => adv[i].todo = calls[i].todo
      /\ adv[d].todo = Tail(t)
  <2>1. DOMAIN adv = DOMAIN calls /\ adv = [i \in DOMAIN adv |-> adv[i]]
    OBVIOUS
  <2>2. calls[d] = [line |-> calls[d].line, todo |-> calls[d].todo, saved |-> calls[d].saved]
    BY <1>1, <1>2 DEF IInv, Path
  <2>3. \A i \in 1..d : i # d => adv[i] = calls[i]
    BY <1>2
  <2>4. adv[d] = NextChild(calls[d])
    BY <1>2
  <2>5. \A call, x : call = [line |-> call.line, todo |-> call.todo, saved |-> call.saved] =>
          [call EXCEPT !.todo = x] = [line |-> call.line, todo |-> x, saved |-> call.saved]
    OBVIOUS
  <2>6. adv[d] = [line |-> calls[d].line, todo |-> Tail(t), saved |-> calls[d].saved]
    <3>1. NextChild(calls[d]) = [calls[d] EXCEPT !.todo = Tail(t)]
      BY <1>3 DEF NextChild
    <3> QED BY <2>2, <2>4, <2>5, <3>1
  <2>7. IsSeq(adv) /\ Len(adv) = d
    BY <1>1, <1>2, <2>1, SameDomain
  <2> HIDE DEF adv
  <2> QED BY <2>3, <2>6, <2>7
<1> HIDE DEF adv
<1>10. /\ Len(calls') = d + 1 /\ calls'[d + 1] = v
       /\ \A i \in 1..d : calls'[i] = adv[i]
  <2>1. calls' = Append(adv, v)
    BY <1>4 DEF adv, v
  <2> QED BY <1>9, <2>1, Appended
<1>11. /\ \A j \in 1..d-1 : prefix'[j] = prefix[j]
       /\ prefix'[d] = Segment(isLast)
  <2>1. Len(prefix) + 1 = d /\ 1..Len(prefix) = 1..d-1
    BY <1>2
  <2>2. /\ \A j \in 1..Len(prefix) : prefix'[j] = prefix[j]
        /\ prefix'[Len(prefix) + 1] = Segment(isLast)
    BY <1>2, <1>3, Appended
  <2> QED BY <2>1, <2>2
<1>12. \A l \in 2..n+1 : l \in 2..n \/ l = n + 1
  BY <1>2
<1>13. /\ \A l \in 2..n : l \in 1..n /\ Depth(l) \in Nat /\ Depth(l) >= 1
       /\ \A l \in 2..n : out[l].joint \in {"tee", "elbow"}
  BY <1>1, <1>2 DEF IInv, Lengths, Drawing, Joined
\* Which lines are open before a line of before, and after the new one.
<1>14. \A l \in 2..n : \A k \in l..n : OpenUntil(l, k)' <=> OpenUntil(l, k)
  <2>1. SUFFICES ASSUME NEW l \in 2..n, NEW k \in l..n
                 PROVE  OpenUntil(l, k)' <=> OpenUntil(l, k)
    OBVIOUS
  <2>2. \A j \in l+1..k : j \in 1..n
    BY <1>2
  <2>3. l \in 1..n
    BY <1>2
  <2> QED BY <1>8, <2>2, <2>3 DEF OpenUntil
<1>15. \A l \in 2..n : OpenUntil(l, n + 1)' <=> OpenUntil(l, n) /\ Depth(l) < d
  <2>1. SUFFICES ASSUME NEW l \in 2..n
                 PROVE  OpenUntil(l, n + 1)' <=> OpenUntil(l, n) /\ Depth(l) < d
    OBVIOUS
  <2>2. \A j \in l+1..n+1 : j \in l+1..n \/ j = n + 1
    BY <1>2
  <2>3. n + 1 \in l+1..n+1 /\ (\A j \in l+1..n : j \in l+1..n+1 /\ j \in 1..n)
    BY <1>2
  <2>4. Depth(l)' = Depth(l) /\ Depth(l) \in Nat
    BY <1>8, <1>13
  <2>5. ASSUME OpenUntil(l, n + 1)' PROVE OpenUntil(l, n) /\ Depth(l) < d
    <3>1. \A j \in l+1..n+1 : Depth(j)' > Depth(l)'
      BY <2>5 DEF OpenUntil
    <3>2. \A j \in l+1..n : Depth(j) > Depth(l)
      BY <1>8, <2>3, <2>4, <3>1
    <3>3. d > Depth(l)
      BY <1>8, <2>3, <2>4, <3>1
    <3> QED BY <1>2, <2>4, <3>2, <3>3 DEF OpenUntil
  <2>6. ASSUME OpenUntil(l, n), Depth(l) < d PROVE OpenUntil(l, n + 1)'
    <3>1. \A j \in l+1..n : Depth(j)' > Depth(l)'
      BY <1>8, <2>3, <2>4, <2>6 DEF OpenUntil
    <3>2. Depth(n + 1)' > Depth(l)'
      BY <1>2, <1>8, <2>4, <2>6
    <3>3. \A j \in l+1..n+1 : Depth(j)' > Depth(l)'
      BY <2>2, <3>1, <3>2
    <3> QED BY <3>3 DEF OpenUntil
  <2> QED BY <2>5, <2>6
<1>16. \A l \in 2..n : LineSegment(l)' = LineSegment(l)
  BY <1>8, <1>13 DEF LineSegment
<1>17. Joined'
  <2>1. \A l \in 2..n : out'[l].joint \in {"tee", "elbow"} /\ Depth(l)' >= 1
    BY <1>8, <1>13
  <2>2. out'[n + 1].joint \in {"tee", "elbow"} /\ Depth(n + 1)' >= 1
    BY <1>2, <1>6, <1>8
  <2> QED BY <1>8, <1>12, <2>1, <2>2 DEF Joined
<1>18. Columns'
  <2>1. SUFFICES ASSUME NEW l \in 2..n+1, NEW k \in l+1..n+1, OpenUntil(l, k)'
                 PROVE  out'[k].prefix[Depth(l)'] = LineSegment(l)'
    BY <1>8 DEF Columns
  <2>2. l \in 2..n /\ (k \in l+1..n \/ k = n + 1)
    BY <1>2
  <2>3. CASE k \in l+1..n
    <3>1. k \in l..n /\ k \in 1..n
      BY <1>2, <2>2, <2>3
    <3>2. OpenUntil(l, k)
      BY <1>14, <2>1, <2>2, <3>1
    <3>3. out[k].prefix[Depth(l)] = LineSegment(l)
      BY <1>1, <2>2, <2>3, <3>2 DEF Drawing, Columns
    <3> QED BY <1>8, <1>13, <1>16, <2>2, <3>1, <3>3
  <2>4. CASE k = n + 1
    <3>1. OpenUntil(l, n) /\ Depth(l) < d
      BY <1>15, <2>1, <2>2, <2>4
    <3>2. Depth(l) + 1 \in 2..d /\ calls[Depth(l) + 1].line = l
      BY <1>1, <1>13, <2>2, <3>1, OpenIsUnderWay
    <3>3. prefix[(Depth(l) + 1) - 1] = LineSegment(l)
      BY <1>1, <3>2 DEF Drawing, Pending
    <3>4. prefix[Depth(l)] = LineSegment(l)
      BY <1>13, <2>2, <3>3
    <3> QED BY <1>6, <1>8, <1>13, <1>16, <2>2, <2>4, <3>4
  <2> QED BY <2>2, <2>3, <2>4
<1>19. Closed'
  <2>1. SUFFICES ASSUME NEW l \in 2..n+1, NEW k \in l+1..n+1, OpenUntil(l, k - 1)',
                        Depth(k)' <= Depth(l)'
                 PROVE  IF out'[l].joint = "tee" THEN Depth(k)' = Depth(l)' ELSE Depth(k)' < Depth(l)'
    BY <1>8 DEF Closed
  <2>2. l \in 2..n /\ (k \in l+1..n \/ k = n + 1) /\ k - 1 \in l..n
    BY <1>2
  <2>3. OpenUntil(l, k - 1)
    BY <1>14, <2>1, <2>2
  <2>4. out'[l] = out[l] /\ Depth(l)' = Depth(l) /\ Depth(l) \in Nat /\ Depth(l) >= 1
    BY <1>8, <1>13, <2>2
  <2>5. CASE k \in l+1..n
    <3>1. k \in 1..n
      BY <1>2, <2>2, <2>5
    <3>2. Depth(k)' = Depth(k)
      BY <1>8, <3>1
    <3>3. Depth(k) <= Depth(l)
      BY <2>1, <2>4, <3>2
    <3>4. IF out[l].joint = "tee" THEN Depth(k) = Depth(l) ELSE Depth(k) < Depth(l)
      BY <1>1, <2>2, <2>3, <2>5, <3>3 DEF Drawing, Closed
    <3> QED BY <2>4, <3>2, <3>4
  <2>6. CASE k = n + 1
    <3>1. OpenUntil(l, n) /\ d <= Depth(l) /\ Depth(k)' = d
      <4>1. k - 1 = n
        BY <1>2, <2>6
      <4> QED BY <1>8, <2>1, <2>3, <2>4, <2>6, <4>1
    <3>2. out[l].joint = "tee" <=> HasSibling(l)
      BY <1>1, <2>2, <3>1 DEF Drawing, Awaited
    <3>3. CASE Depth(l) = d
      <4>1. HasSibling(l)
        BY <1>1, <1>2, <1>3, <3>3 DEF HasSibling
      <4> QED BY <2>4, <3>1, <3>2, <3>3, <4>1
    <3>4. CASE Depth(l) # d
      <4>1. Depth(l) > d
        BY <1>2, <2>4, <3>1, <3>4
      <4>2. ~HasSibling(l)
        BY <1>1, <1>2, <2>4, <4>1 DEF HasSibling
      <4>3. out'[l].joint # "tee" /\ Depth(k)' < Depth(l)'
        BY <1>2, <2>4, <3>1, <3>2, <4>1, <4>2
      <4> QED BY <4>3
    <3> QED BY <3>3, <3>4
  <2> QED BY <2>2, <2>5, <2>6
<1>20. Awaited'
  <2>1. SUFFICES ASSUME NEW l \in 2..n+1, OpenUntil(l, n + 1)'
                 PROVE  out'[l].joint = "tee" <=> HasSibling(l)'
    BY <1>8 DEF Awaited
  <2>2. CASE l \in 2..n
    <3>1. OpenUntil(l, n) /\ Depth(l) < d
      BY <1>15, <2>1, <2>2
    <3>2. out[l].joint = "tee" <=> HasSibling(l)
      BY <1>1, <2>2, <3>1 DEF Drawing, Awaited
    <3>3. /\ Depth(l) \in 1..d /\ Depth(l) # d /\ Depth(l) <= Len(calls)
          /\ Depth(l) <= d + 1
      BY <1>1, <1>2, <1>13, <2>2, <3>1
    <3>4. calls'[Depth(l)].todo = calls[Depth(l)].todo
      BY <1>9, <1>10, <3>3
    <3>5. out'[l] = out[l] /\ Depth(l)' = Depth(l)
      BY <1>8, <1>13, <2>2
    <3> QED BY <1>10, <3>2, <3>3, <3>4, <3>5 DEF HasSibling
  <2>3. CASE l = n + 1
    <3>1. Depth(l)' = d /\ out'[l] = e /\ Len(calls') = d + 1 /\ calls'[d].todo = Tail(t)
      BY <1>2, <1>8, <1>9, <1>10, <2>3
    <3>2. HasSibling(l)' <=> Tail(t) # <<>>
      BY <1>2, <3>1 DEF HasSibling
    <3> QED BY <1>5, <1>6, <3>1, <3>2
  <2> QED BY <1>12, <2>2, <2>3
<1>21. Pending'
  <2>1. \A i \in 1..d+1 : i \in 1..d \/ i = d + 1
    BY <1>2
  <2>2. ASSUME NEW i \in 1..d+1 PROVE calls'[i].todo \in Seq(Kinds)
    <3>1. CASE i = d + 1
      BY <1>5, <1>7, <1>10, <3>1
    <3>2. CASE i = d
      BY <1>2, <1>5, <1>9, <1>10, <3>2
    <3>3. CASE i \in 1..d /\ i # d
      BY <1>1, <1>9, <1>10, <3>3 DEF Drawing, Pending
    <3> QED BY <2>1, <3>1, <3>2, <3>3
  <2>3. ASSUME NEW i \in 2..d+1
        PROVE  /\ prefix'[i - 1] = Segment(out'[calls'[i].line].joint = "elbow")
               /\ \A j \in 1..i-2 : calls'[i].saved[j] = prefix'[j]
    <3>1. CASE i \in 2..d
      <4>1. i \in 1..d /\ i - 1 \in 1..d-1 /\ (\A j \in 1..i-2 : j \in 1..d-1)
        BY <1>2, <3>1
      <4>2. calls'[i].line = calls[i].line /\ calls'[i].saved = calls[i].saved
        BY <1>9, <1>10, <4>1
      <4>3. /\ prefix[i - 1] = LineSegment(calls[i].line)
            /\ \A j \in 1..i-2 : calls[i].saved[j] = prefix[j]
        BY <1>1, <3>1 DEF Drawing, Pending
      <4>4. calls[i].line \in 1..n
        BY <1>1, <4>1 DEF IInv, Path
      <4>5. Segment(out'[calls'[i].line].joint = "elbow") = LineSegment(calls[i].line)
        BY <1>8, <4>2, <4>4 DEF LineSegment
      <4> QED BY <1>11, <4>1, <4>2, <4>3, <4>5
    <3>2. CASE i = d + 1
      <4>1. calls'[i].line = n + 1 /\ calls'[i].saved = prefix /\ i - 1 = d /\ i - 2 = d - 1
        BY <1>2, <1>7, <1>10, <3>2
      <4>2. Segment(out'[calls'[i].line].joint = "elbow") = Segment(isLast)
        BY <1>6, <1>8, <4>1 DEF Segment
      <4> QED BY <1>11, <4>1, <4>2
    <3> QED BY <1>2, <3>1, <3>2
  <2> QED BY <1>10, <2>2, <2>3 DEF Pending, LineSegment
<1> QED BY <1>17, <1>18, <1>19, <1>20, <1>21 DEF Drawing

\* A visit returns when it has printed the last child, so that its own line
\* is an elbow's or waits for a sibling of its own.
LEMMA ReturnDraws == IInv /\ Drawing /\ return => Drawing'
<1> SUFFICES ASSUME IInv, Drawing, return PROVE Drawing'
  OBVIOUS
<1>1. PICK n, d : n = Len(out) /\ d = Len(calls)
  OBVIOUS
<1>2. n \in Nat /\ d \in Nat \ {0} /\ d \in 1..Len(calls) /\ calls # <<>> /\ IsSeq(calls)
  BY <1>1 DEF IInv, SequencesOK, IsSeq, return
<1>3. /\ prefix' = calls[d].saved /\ calls' = SubSeq(calls, 1, d - 1)
      /\ out' = out /\ calls[d].todo = <<>>
  BY <1>1 DEF return, Restored
<1>4. Len(calls') = d - 1 /\ \A i \in 1..d-1 : calls'[i] = calls[i]
  BY <1>1, <1>2, <1>3, Shortened
<1>5. /\ \A l : Depth(l)' = Depth(l)
      /\ \A l : LineSegment(l)' = LineSegment(l)
  BY <1>3 DEF Depth, LineSegment
<1>6. \A l, k : OpenUntil(l, k)' <=> OpenUntil(l, k)
  BY <1>5 DEF OpenUntil
<1>7. Joined'
  BY <1>3, <1>5 DEF Drawing, Joined
<1>8. Columns'
  BY <1>3, <1>5, <1>6 DEF Drawing, Columns
<1>9. Closed'
  BY <1>3, <1>5, <1>6 DEF Drawing, Closed
<1>10. Awaited'
  <2>1. SUFFICES ASSUME NEW l \in 2..n, OpenUntil(l, n)'
                 PROVE  out'[l].joint = "tee" <=> HasSibling(l)'
    BY <1>1, <1>3 DEF Awaited
  <2>2. out[l].joint = "tee" <=> HasSibling(l)
    BY <1>1, <1>6, <2>1 DEF Drawing, Awaited
  <2>3. l \in 1..n /\ Depth(l) \in Nat /\ Depth(l) >= 1
    BY <1>1, <1>2 DEF IInv, Lengths, Drawing, Joined
  <2>4. CASE Depth(l) \in 1..d-1
    <3>1. calls'[Depth(l)] = calls[Depth(l)] /\ Depth(l) <= Len(calls) /\ Depth(l) <= Len(calls')
      BY <1>1, <1>2, <1>4, <2>4
    <3>2. HasSibling(l)' <=> HasSibling(l)
      BY <1>5, <3>1 DEF HasSibling
    <3> QED BY <1>3, <2>2, <3>2
  <2>5. CASE Depth(l) = d
    <3>1. ~HasSibling(l)
      BY <1>3, <2>5 DEF HasSibling
    <3>2. ~(d <= d - 1)
      BY <1>2
    <3>3. ~HasSibling(l)'
      BY <1>4, <1>5, <2>5, <3>2 DEF HasSibling
    <3> QED BY <1>3, <2>2, <3>1, <3>3
  <2>6. CASE Depth(l) > d
    <3>1. ~(Depth(l) <= d) /\ ~(Depth(l) <= d - 1)
      BY <1>2, <2>3, <2>6
    <3>2. ~HasSibling(l) /\ ~HasSibling(l)'
      BY <1>1, <1>4, <1>5, <3>1 DEF HasSibling
    <3> QED BY <1>3, <2>2, <3>2
  <2>7. Depth(l) \in 1..d-1 \/ Depth(l) = d \/ Depth(l) > d
    BY <1>2, <2>3
  <2> QED BY <2>4, <2>5, <2>6, <2>7
<1>11. Pending'
  <2>1. \A i \in 1..d-1 : calls'[i].todo \in Seq(Kinds)
    BY <1>1, <1>2, <1>4 DEF Drawing, Pending
  <2>2. ASSUME NEW i \in 2..d-1
        PROVE  /\ prefix'[i - 1] = Segment(out'[calls'[i].line].joint = "elbow")
               /\ \A j \in 1..i-2 : calls'[i].saved[j] = prefix'[j]
    <3>1. i \in 2..d /\ i \in 1..d-1 /\ d \in 2..d /\ i - 1 \in 1..d-2
          /\ (\A j \in 1..i-2 : j \in 1..d-2)
      BY <1>2
    <3>2. \A j \in 1..d-2 : calls[d].saved[j] = prefix[j]
      BY <1>1, <3>1 DEF Drawing, Pending
    <3>3. /\ prefix[i - 1] = Segment(out[calls[i].line].joint = "elbow")
          /\ \A j \in 1..i-2 : calls[i].saved[j] = prefix[j]
      BY <1>1, <3>1 DEF Drawing, Pending, LineSegment
    <3> QED BY <1>3, <1>4, <3>1, <3>2, <3>3
  <2> QED BY <1>4, <2>1, <2>2 DEF Pending, LineSegment
<1> QED BY <1>7, <1>8, <1>9, <1>10, <1>11 DEF Drawing

LEMMA StutterDraws == Drawing /\ UNCHANGED vars => Drawing'
  BY DEF vars, Drawing, Joined, Columns, Closed, Awaited, Pending, LineSegment, OpenUntil,
         HasSibling, Depth

\* When no visit is under way every line has been closed as its joint says.
LEMMA DrawingDraws == IInv /\ Drawing => WellDrawn
<1> SUFFICES ASSUME IInv, Drawing, calls = <<>>, NEW l \in 2..Len(out)
             PROVE  LET d     == Depth(l)
                        after == {j \in l+1..Len(out) : Depth(j) <= d}
                        end   == IF after = {} THEN Len(out) + 1
                                 ELSE CHOOSE j \in after : \A i \in after : j <= i
                        drawn(segment) == \A k \in l+1..end-1 : out[k].prefix[d] = segment
                    IN  IF out[l].joint = "tee"
                          THEN end <= Len(out) /\ Depth(end) = d /\ drawn("bar")
                          ELSE (end <= Len(out) => Depth(end) < d) /\ drawn("gap")
  BY DEF WellDrawn
<1> DEFINE d     == Depth(l)
           after == {j \in l+1..Len(out) : Depth(j) <= d}
           end   == IF after = {} THEN Len(out) + 1
                    ELSE CHOOSE j \in after : \A i \in after : j <= i
<1>a. after \subseteq l+1..Len(out) /\ \A j \in l+1..Len(out) : j \in after <=> Depth(j) <= d
  OBVIOUS
<1>b. after = {} => end = Len(out) + 1
  OBVIOUS
<1>c. after # {} => end \in after /\ \A i \in after : end <= i
  <2>1. l \in Nat
    OBVIOUS
  <2>2. after \subseteq Nat
    BY <1>a, <2>1
  <2> HIDE DEF after
  <2> QED BY <2>2, LeastExists
<1>d. d = Depth(l)
  OBVIOUS
<1> HIDE DEF end, after, d
<1>1. Len(out) \in Nat /\ Len(calls) = 0 /\ l \in Nat /\ l >= 2
  BY DEF IInv, SequencesOK, IsSeq
<1>2. \A j \in 1..Len(out) : Depth(j) \in Nat
  BY DEF IInv, Lengths
<1>3. d \in Nat /\ d >= 1 /\ out[l].joint \in {"tee", "elbow"}
  <2>1. l \in 1..Len(out)
    BY <1>1
  <2> QED BY <1>2, <1>d, <2>1 DEF Drawing, Joined
<1>4. LineSegment(l) = IF out[l].joint = "tee" THEN "bar" ELSE "gap"
  BY <1>3 DEF LineSegment, Segment
\* The lines between are below l.
<1>5. /\ end \in l+1..Len(out)+1
      /\ after # {} => end \in after
      /\ OpenUntil(l, end - 1)
  <2>1. CASE after = {}
    <3>1. end = Len(out) + 1 /\ end - 1 = Len(out)
      BY <1>1, <1>b, <2>1
    <3>2. ASSUME NEW j \in l+1..Len(out) PROVE Depth(j) > d
      <4>1. j \notin after /\ j \in 1..Len(out)
        BY <1>1, <2>1
      <4> QED BY <1>2, <1>3, <1>a, <4>1
    <3>3. end \in l+1..Len(out)+1
      BY <1>1, <3>1
    <3> QED BY <1>d, <2>1, <3>1, <3>2, <3>3 DEF OpenUntil
  <2>2. CASE after # {}
    <3>2. end \in after /\ \A i \in after : end <= i
      BY <1>c, <2>2
    <3>3. end \in l+1..Len(out) /\ end \in l+1..Len(out)+1
      BY <1>1, <1>a, <3>2
    <3>4. ASSUME NEW j \in l+1..end-1 PROVE Depth(j) > d
      <4>1. j \in l+1..Len(out) /\ ~(end <= j) /\ j \in 1..Len(out)
        BY <1>1, <3>3
      <4>2. j \notin after
        BY <3>2, <4>1
      <4> QED BY <1>2, <1>3, <1>a, <4>1, <4>2
    <3>5. OpenUntil(l, end - 1)
      BY <1>d, <3>4 DEF OpenUntil
    <3> QED BY <3>2, <3>3, <3>5
  <2> QED BY <2>1, <2>2
<1>6. ASSUME NEW k \in l+1..end-1 PROVE out[k].prefix[d] = LineSegment(l)
  <2>1. k \in l+1..Len(out) /\ \A j \in l+1..k : j \in l+1..end-1
    BY <1>1, <1>5
  <2>2. OpenUntil(l, k)
    BY <1>5, <2>1 DEF OpenUntil
  <2> QED BY <1>d, <2>1, <2>2 DEF Drawing, Columns
<1>7. CASE after = {}
  <2>1. end = Len(out) + 1 /\ end - 1 = Len(out)
    BY <1>1, <1>7, <1>b
  <2>2. OpenUntil(l, Len(out))
    BY <1>5, <2>1
  <2>3. ~HasSibling(l)
    BY <1>1, <1>3, <1>d DEF HasSibling
  <2>4. out[l].joint # "tee"
    BY <2>2, <2>3 DEF Drawing, Awaited
  <2>5. ~(end <= Len(out))
    BY <1>1, <2>1
  <2>6. \A k \in l+1..end-1 : out[k].prefix[d] = "gap"
    BY <1>4, <1>6, <2>4
  <2> QED BY <2>4, <2>5, <2>6 DEF end, after, d
<1>8. CASE after # {}
  <2>1. end \in l+1..Len(out) /\ Depth(end) <= d
    BY <1>5, <1>8, <1>a
  <2>2. IF out[l].joint = "tee" THEN Depth(end) = d ELSE Depth(end) < d
    BY <1>5, <1>d, <2>1 DEF Drawing, Closed
  <2>3. end <= Len(out)
    BY <1>1, <2>1
  <2>4. \A k \in l+1..end-1 : out[k].prefix[d] = IF out[l].joint = "tee" THEN "bar" ELSE "gap"
    BY <1>4, <1>6
  <2> QED BY <2>2, <2>3, <2>4 DEF end, after, d
<1> QED BY <1>7, <1>8

(***************************************************************************)
(* Every finished dump is drawn as ASTDumper.cpp:27-32 says: bars join the *)
(* siblings, and nothing is below the last of them in its column.          *)
(***************************************************************************)
THEOREM DumpWellDrawn == DumpSpec => []WellDrawn
<1>1. DumpInit => IInv /\ Drawing
  BY InitIInv, InitDraws
<1>2. IInv /\ Drawing /\ [DumpNext]_vars => (IInv /\ Drawing)'
  BY DumpStep, PrintStep, ReturnStep, StutterStep, DumpDraws, PrintDraws, ReturnDraws,
     StutterDraws DEF DumpNext
<1>3. IInv /\ Drawing => WellDrawn
  BY DrawingDraws
<1> QED
  BY <1>1, <1>2, <1>3, PTL DEF DumpSpec
=============================================================================
