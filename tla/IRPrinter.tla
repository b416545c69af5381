------------------------------ MODULE IRPrinter ------------------------------
(***************************************************************************)
(* The text of a function's IR (src/ir/IRPrinter.cpp): what --dump-ir      *)
(* shows of the code that ExprGen generates.  A line is a sequence of      *)
(* words.                                                                  *)
(***************************************************************************)
EXTENDS ExprGen

LOCAL INSTANCE TLC

\* Mutation of buildNameMap: every labelled result is named by its label.
nameMapOfLabels(code) ==
  LET results == {k \in DOMAIN code : code[k].dest # NoReg}
      plain   == {k \in results : code[k].sym = ""}
  IN  [r \in {code[k].dest : k \in results} |->
         LET k == CHOOSE j \in results : code[j].dest = r
         IN  IF code[k].sym # "" THEN code[k].sym
             ELSE "t" \o ToString(Cardinality({j \in plain : j <= k}))]

\* A stack slot has its variable's name, any other result the next of t1, t2,
\* and so on.
buildNameMap(code) ==
  LET results == {k \in DOMAIN code : code[k].dest # NoReg}
      slot(k) == code[k].op = "alloca" /\ code[k].sym # ""
      temps   == {k \in results : ~slot(k)}
  IN  [r \in {code[k].dest : k \in results} |->
         LET k == CHOOSE j \in results : code[j].dest = r
         IN  IF slot(k) THEN code[k].sym
             ELSE "t" \o ToString(Cardinality({j \in temps : j <= k}))]

regStr(r, names) ==
  IF r = NoReg THEN "_" ELSE IF r \in DOMAIN names THEN names[r] ELSE "%" \o ToString(r)

\* printInstr
printInstr(i, names) ==
  LET result   == IF i.dest = NoReg THEN <<>> ELSE <<regStr(i.dest, names), "=">>
      operands == [a \in DOMAIN i.args |-> regStr(i.args[a], names)]
      label    == IF i.sym = "" THEN <<>> ELSE <<i.sym>>
  IN  CASE i.op = "block"  -> label
        [] i.op = "alloca" -> result \o <<i.op>>
        [] i.op = "param"  -> result \o <<i.op, ToString(i.args[1] - 1)>>
        [] i.op = "call"   -> result \o <<i.op>> \o label \o operands
        [] i.op = "load"   -> result \o <<i.op>> \o (IF operands = <<>> THEN label ELSE operands)
        [] i.op = "copy"   -> result \o <<i.op, i.sym>>
        [] OTHER -> result \o <<i.op>> \o operands
                      \o (IF label = <<>> THEN <<>> ELSE <<";">> \o label)
print(code) ==
  LET names == buildNameMap(code) IN [k \in DOMAIN code |-> printInstr(code[k], names)]

(***************************************************************************)
(* The text tells the values of a function apart: no two lines define the  *)
(* same name, but for the slots of array elements, which every literal     *)
(* numbers from 0; and no name that a line defines is that of a global     *)
(* which the function loads.                                               *)
(***************************************************************************)
Defines(line) == IF Len(line) > 1 /\ line[2] = "=" THEN {line[1]} ELSE {}
PrintedApart ==
  \A k \in DOMAIN done :
    LET code == done[k].code
        text == print(code)
    IN  /\ \A i, j \in DOMAIN text : 
             i # j => Defines(text[i]) \cap Defines(text[j]) \subseteq InSeq(Element)
        /\ \A i, j \in DOMAIN text :
             code[i].op = "load" /\ code[i].args = <<>> => code[i].sym \notin Defines(text[j])
=============================================================================
