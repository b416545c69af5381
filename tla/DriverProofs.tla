---------------------------- MODULE DriverProofs ----------------------------
(***************************************************************************)
(* Proofs about Driver, for every set of paths and of command lines.       *)
(***************************************************************************)
EXTENDS Driver, TLAPS

(***************************************************************************)
(* What makes the driver's promises inductive: the phases behind the lexer *)
(* run only while no error is on record, for this file or an earlier one.  *)
(***************************************************************************)
CleanStages == {"parse", "sema", "irgen", "emit", "llc", "gcc", "clean"}
Stages == CleanStages \cup {"args", "read", "lex", "report", "exit"}

IInv ==
  /\ stage \in Stages /\ errors \in Nat /\ passed \in Seq(BOOLEAN)
  /\ stage \in CleanStages => errors = 0
  /\ stage = "args" => passed = <<>>
  /\ stage # "exit" => exit = Running

\* compileFile ends with result ok, and the error count is up to date.
Verdict(ok) ==
  /\ ok \in BOOLEAN /\ passed' = Append(passed, ok)
  /\ stage' \in {"read", "report"}
  /\ errors' \in Nat /\ errors' >= errors
  /\ ok => errors' = 0
  /\ exit' = exit

\* A step inside a file, of main before the first, or after the last.
Progress ==
  /\ passed' = passed /\ errors' = errors /\ exit' = exit
  /\ stage' \in Stages \ {"exit"}
  /\ stage' \in CleanStages => errors = 0
  /\ stage' = "args" => stage = "args"

Exiting ==
  /\ passed' = passed /\ errors' = errors /\ stage' = "exit"
  /\ exit' \in {0, 1}
  /\ passed # <<>> => (exit' = 0 <=> \A i \in DOMAIN passed : passed[i])

Kinds == (stage # "exit" /\ (Verdict(TRUE) \/ Verdict(FALSE) \/ Progress \/ Exiting))
         \/ UNCHANGED vars

\* A phase ends either by returning from compileFile or by going on.
LEMMA Returns ==
  ASSUME IInv, NEW s \in Stages \ {"exit"}, At(s), NEW ok \in BOOLEAN, Return(ok),
         errors' \in Nat, errors' >= errors, ok => errors' = 0
  PROVE  Kinds
<1>1. stage # "exit" /\ exit' = exit
  BY DEF At
<1>2. passed' = Append(passed, ok) /\ stage' \in {"read", "report"}
  BY DEF Return
<1>3. Verdict(ok)
  BY <1>1, <1>2 DEF Verdict
<1>4. CASE ok = TRUE
  BY <1>1, <1>3, <1>4 DEF Kinds
<1>5. CASE ok = FALSE
  BY <1>1, <1>3, <1>5 DEF Kinds
<1> QED BY <1>4, <1>5

LEMMA GoesOn ==
  ASSUME IInv, NEW s \in Stages \ {"exit"}, At(s), NEW t \in CleanStages \cup {"lex"},
         Go(t), errors' = errors, t \in CleanStages => errors = 0
  PROVE  Kinds
BY DEF At, Go, Kinds, Progress, Stages, CleanStages

\* Every step of the driver is one of the three, or a stutter.
LEMMA StepKinds ==
  ASSUME IInv, [Next]_vars
  PROVE  Kinds
<1>0. /\ {"read", "lex"} \cup CleanStages \subseteq Stages \ {"exit"}
      /\ errors \in Nat /\ errors >= errors
  BY DEF IInv, Stages, CleanStages
<1>1. CASE ReadArg
  <2>1. /\ stage = "args" /\ passed' = passed /\ errors' = errors
        /\ (stage' = stage /\ exit' = exit) \/ Quit(0) \/ Quit(1)
    BY <1>1 DEF ReadArg, Skip
  <2>2. CASE stage' = stage /\ exit' = exit
    BY <2>1, <2>2 DEF Kinds, Progress, Stages, CleanStages
  <2>3. CASE Quit(0) \/ Quit(1)
    BY <2>1, <2>3 DEF IInv, Kinds, Exiting, Quit
  <2> QED BY <2>1, <2>2, <2>3
<1>2. CASE Start
  BY <1>2 DEF Start, Quit, IInv, Kinds, Progress, Exiting, Stages, CleanStages
<1>3. ASSUME NEW readable \in BOOLEAN, Read(readable) PROVE Kinds
  <2>1. CASE readable
    BY <1>0, <1>3, <2>1, GoesOn DEF Read, CleanStages
  <2>2. CASE ~readable
    <3>1. errors' = errors + 1 /\ Return(FALSE) /\ At("read")
      BY <1>3, <2>2, Zenon DEF Read
    <3>2. errors' \in Nat /\ errors' >= errors
      BY <1>0, <3>1
    <3> QED BY <1>0, <3>1, <3>2, Returns
  <2> QED BY <2>1, <2>2
<1>4. ASSUME NEW found \in 0 .. 1, Lex(found) PROVE Kinds
  <2>1. At("lex") /\ errors' \in Nat /\ errors' >= errors /\ (errors' = 0) \in BOOLEAN
    BY <1>0, <1>4 DEF Lex
  <2>2. CASE Return(errors' = 0)
    <3>1. CASE errors' = 0
      <4>1. Return(TRUE)
        BY <2>2, <3>1
      <4> QED BY <1>0, <2>1, <3>1, <4>1, Returns
    <3>2. CASE errors' # 0
      <4>1. Return(FALSE)
        BY <2>2, <3>2
      <4> QED BY <1>0, <2>1, <4>1, Returns
    <3> QED BY <3>1, <3>2
  <2>3. CASE Return(FALSE)
    BY <1>0, <2>1, <2>3, Returns
  <2>4. CASE ~(errors' > 0) /\ Go("parse")
    <3>1. errors' = 0 /\ errors = 0
      BY <1>0, <2>1, <2>4
    <3> QED BY <1>0, <2>1, <2>4, <3>1, GoesOn DEF CleanStages
  <2> QED BY <1>4, <2>2, <2>3, <2>4 DEF Lex
<1>5. ASSUME NEW found \in 0 .. 1, Parse(found) PROVE Kinds
  <2>1. At("parse") /\ errors' \in Nat /\ errors' >= errors
    BY <1>0, <1>5 DEF Parse
  <2>2. CASE Return(FALSE)
    BY <1>0, <2>1, <2>2, Returns DEF CleanStages
  <2>3. CASE ~(errors' > 0) /\ (Return(TRUE) \/ Go("sema"))
    <3>1. errors' = 0 /\ errors = 0
      BY <1>0, <2>1, <2>3
    <3>2. "parse" \in Stages \ {"exit"} /\ "sema" \in CleanStages
      BY DEF Stages, CleanStages
    <3> QED BY <1>0, <2>1, <2>3, <3>1, <3>2, Returns, GoesOn
  <2> QED BY <1>5, <2>2, <2>3 DEF Parse
<1>6. ASSUME NEW found \in 0 .. 1, Sema(found) PROVE Kinds
  <2>1. At("sema") /\ errors' \in Nat /\ errors' >= errors /\ errors = 0
    BY <1>0, <1>6 DEF Sema, IInv, At, CleanStages
  <2>2. "sema" \in Stages \ {"exit"} /\ "irgen" \in CleanStages
    BY DEF Stages, CleanStages
  <2>3. CASE Return(FALSE)
    BY <2>1, <2>2, <2>3, Returns
  <2>4. CASE errors' = errors /\ (Return(TRUE) \/ Go("irgen"))
    BY <2>1, <2>2, <2>4, Returns, GoesOn
  <2> QED BY <1>6, <2>3, <2>4 DEF Sema
<1>7. ASSUME NEW s \in CleanStages, At(s), UNCHANGED errors,
             \/ Return(TRUE) \/ Return(FALSE) \/ \E t \in CleanStages : Go(t)
      PROVE  Kinds
  <2>1. /\ s \in Stages \ {"exit"} /\ errors = 0 /\ errors' = 0
        /\ errors' \in Nat /\ errors' >= errors
    BY <1>0, <1>7 DEF IInv, At
  <2> QED BY <1>7, <2>1, Returns, GoesOn
<1>8. ASSUME NEW s \in CleanStages, At(s), errors' = errors + 1, Return(FALSE)
      PROVE  Kinds
  <2>1. s \in Stages \ {"exit"} /\ errors' \in Nat /\ errors' >= errors
    BY <1>0, <1>8
  <2> QED BY <1>8, <2>1, Returns
<1>9. CASE GenerateIR
  BY <1>7, <1>9 DEF GenerateIR, CleanStages
<1>10. ASSUME NEW written \in BOOLEAN, EmitIR(written) PROVE Kinds
  BY <1>7, <1>10 DEF EmitIR, CleanStages
<1>11. ASSUME NEW ok \in BOOLEAN, Llc(ok) PROVE Kinds
  BY <1>7, <1>8, <1>11 DEF Llc, CleanStages
<1>12. ASSUME NEW ok \in BOOLEAN, Gcc(ok) PROVE Kinds
  BY <1>7, <1>8, <1>12 DEF Gcc, CleanStages
<1>13. CASE CleanUp
  BY <1>7, <1>13 DEF CleanUp, CleanStages
<1>14. CASE Report
  <2> DEFINE all == \A i \in DOMAIN passed : passed[i]
  <2>1. /\ stage = "report" /\ passed' = passed /\ errors' = errors
        /\ stage' = "exit" /\ exit' = IF all THEN 0 ELSE 1
    BY <1>14 DEF Report, Quit
  <2> HIDE DEF all
  <2>2. exit' \in {0, 1} /\ (exit' = 0 <=> all)
    BY <2>1
  <2>3. Exiting
    BY <2>1, <2>2, Zenon DEF Exiting, all
  <2> QED BY <2>1, <2>3 DEF Kinds
<1>15. CASE UNCHANGED vars
  BY <1>15 DEF Kinds
<1> QED
  BY <1>1, <1>2, <1>3, <1>4, <1>5, <1>6, <1>9, <1>10, <1>11, <1>12, <1>13, <1>14,
     <1>15 DEF Next, Terminated

LEMMA InitIInv == Init => IInv
BY DEF Init, IInv, Stages, CleanStages

LEMMA NextIInv == IInv /\ [Next]_vars => IInv'
<1> SUFFICES ASSUME IInv, Kinds PROVE IInv'
  BY StepKinds
<1> USE DEF IInv, Stages, CleanStages
<1>1. ASSUME NEW ok \in BOOLEAN, stage # "exit", Verdict(ok) PROVE IInv'
  BY <1>1 DEF Verdict
<1>2. CASE stage # "exit" /\ Progress
  BY <1>2 DEF Progress
<1>3. CASE stage # "exit" /\ Exiting
  BY <1>3 DEF Exiting
<1>4. CASE UNCHANGED vars
  BY <1>4 DEF vars
<1> QED BY <1>1, <1>2, <1>3, <1>4 DEF Kinds

LEMMA Invariant == Spec => []IInv
BY InitIInv, NextIInv, PTL DEF Spec

\* The driver implements Batch: exit code 0 only when every file passed, and
\* no file passes once an error is on record.
THEOREM DriverImplementsBatch == Spec => ImplementsBatch
<1>1. Init => B!Init
  BY DEF Init, B!Init, Running, B!Running
<1>2. IInv /\ [Next]_vars => [B!Next]_(B!batchVars)
  <2> SUFFICES ASSUME IInv, Kinds PROVE [B!Next]_(B!batchVars)
    BY StepKinds
  <2>1. ASSUME NEW ok \in BOOLEAN, stage # "exit", Verdict(ok)
        PROVE  B!Next
    <3>1. (errors' > 0) \in BOOLEAN
      OBVIOUS
    <3>2. B!CompileFile(ok, errors' > 0)
      BY <2>1 DEF IInv, Verdict, B!CompileFile, Running, B!Running
    <3> QED BY <3>1, <3>2 DEF B!Next
  <2>2. CASE stage # "exit" /\ Progress
    BY <2>2 DEF Progress, B!batchVars
  <2>3. CASE stage # "exit" /\ Exiting
    <3>1. B!Finish(exit')
      BY <2>3 DEF IInv, Exiting, B!Finish, B!AllPassed, Running, B!Running
    <3> QED BY <2>3, <3>1 DEF Exiting, B!Next
  <2>4. CASE UNCHANGED vars
    BY <2>4 DEF vars, B!batchVars
  <2> QED BY <2>1, <2>2, <2>3, <2>4 DEF Kinds
<1> QED
  BY <1>1, <1>2, Invariant, PTL DEF Spec, ImplementsBatch, B!Spec

\* Once an error is on record, for this file or an earlier one, nothing is
\* written, removed or reported any more.
THEOREM FailStop == Spec => NoOutputAfterError
<1>1. IInv /\ [Next]_vars => [errors > 0 => UNCHANGED <<fs, stdout>>]_vars
  <2> SUFFICES ASSUME IInv, Next, errors > 0 PROVE UNCHANGED <<fs, stdout>>
    OBVIOUS
  <2>1. stage \notin {"emit", "llc", "gcc", "clean"}
    BY DEF IInv, CleanStages
  <2> QED
    BY <2>1 DEF Next, At, ReadArg, Start, Read, Lex, Parse, Sema, GenerateIR, EmitIR,
       Llc, Gcc, CleanUp, Report, Terminated, vars
<1> QED
  BY <1>1, Invariant, PTL DEF Spec, NoOutputAfterError

-----------------------------------------------------------------------------
(***************************************************************************)
(* What main has made of the arguments before pos.                         *)
(***************************************************************************)
Operand(i) == IF argv[i].kind = "-o" THEN argv[i + 1].path ELSE argv[i].path
Names == {i \in DOMAIN argv : argv[i].kind \in {"-o", "-ofile"}}
LastName(i, n) == \A j \in Names : j < n => j <= i
Apart(s, o) ==
  /\ SourcesApart => \A k \in DOMAIN s : /\ s[k][3] \notin {"", "ll", "o"}
                                         /\ o = DefaultOut \/ s[k] # o
  /\ OneNameEach => \A k, l \in DOMAIN s : s[k][1] = "." /\ (k # l => s[k][2] # s[l][2])

Reading ==
  /\ argv \in Argvs /\ pos \in Nat \ {0}
  /\ flags \subseteq Flags /\ out \in Path /\ inputs \in Seq(Path)
  /\ \A k \in DOMAIN inputs : \E i \in DOMAIN argv :
       i < pos /\ argv[i].kind = "file" /\ argv[i].path = inputs[k]
  /\ out # DefaultOut =>
       \E i \in DOMAIN argv : i < pos /\ Naming(argv, i) /\ argv[i].path = out
  /\ \A i \in DOMAIN argv :
       i < pos /\ argv[i].kind \in Flags /\ ~Naming(argv, i) => argv[i].kind \in flags
  /\ (\A i \in Names : i >= pos) => out = DefaultOut
  /\ NamesKept(argv) => \/ \A i \in Names : i >= pos
                        \/ \E i \in Names : i < pos /\ LastName(i, pos) /\ out = Operand(i)
                                            /\ out # DefaultOut
  /\ Apart(inputs, out)
  /\ stage = "args" \/ pos > Len(argv) \/ (stage = "exit" /\ passed = <<>>)

(***************************************************************************)
(* Where compileFile is, and what it may have left.                        *)
(***************************************************************************)
FileStages == CleanStages \cup {"read", "lex"}
Barred(s) ==
  CASE s = "parse" -> {"tokens"}
    [] s = "sema"  -> {"tokens", "ast"}
    [] s = "irgen" -> {"tokens", "ast", "nocodegen"}
    [] s = "emit"  -> {"tokens", "ast", "nocodegen", "ir"}
    [] s \in {"llc", "gcc", "clean"} -> Flags
    [] OTHER -> {}

Contents == {Absent} \cup {Source(p) : p \in Path} \cup Artefact
Bin == resolveBinaryPath(Cur)
Ll  == WithExt(Bin, "ll")
Obj == WithExt(Bin, "o")
AllPassed == \A i \in DOMAIN passed : passed[i]
Leftovers == CASE stage = "llc" -> {Ll}
               [] stage \in {"gcc", "clean"} -> {Ll, Obj}
               [] OTHER -> {}

Placed ==
  /\ fs \in [Path -> Contents]
  /\ stage \in FileStages => Len(passed) < Len(inputs)
  /\ Len(passed) <= Len(inputs)
  /\ flags \cap Barred(stage) = {}

Clean == stdout = <<>> /\ \A p \in Path : fs[p] \notin Artefact
Untouched ==
  /\ Clean
  /\ \A i \in DOMAIN argv : argv[i].kind = "file" => fs[argv[i].path] = Source(argv[i].path)

Made3 ==
  /\ stage = "llc"   => fs[Ll] = Made("ir", Cur)
  /\ stage = "gcc"   => fs[Obj] = Made("obj", Cur)
  /\ stage = "clean" => fs[Bin] = Made("bin", Cur) /\ Bin # Obj

Swept == flags = {} /\ AllPassed =>
           \A p \in Path : fs[p][1] \in {"ir", "obj"} => p \in Leftovers
Honoured ==
  OutputsApart /\ flags = {} /\ passed # <<>> /\ AllPassed /\ out # DefaultOut
    /\ stage \notin {"llc", "gcc", "clean"} => fs[out][1] = "bin"
Owned ==
  OneNameEach /\ flags = {} /\ out = DefaultOut =>
    \A i \in DOMAIN passed :
      passed[i] => fs[WithExt(inputs[i], "")] = Made("bin", inputs[i])

Ended == stage = "exit" /\ passed # <<>> => (exit = 0 <=> AllPassed)
Survive == SourcesApart => SourcesSurvive

FInv ==
  /\ IInv /\ Reading /\ Placed
  /\ stage = "args" => Untouched
  /\ Inspecting => Clean
  /\ Made3 /\ Swept /\ Honoured /\ Owned /\ Survive /\ Ended

LEMMA Argument ==
  ASSUME Reading, NEW i \in DOMAIN argv
  PROVE  argv[i].path \in Path /\ argv[i].kind \in ArgKind /\ i \in Nat /\ i >= 1
<1>1. argv \in Seq(Arg)
  BY ArgvAssumption DEF Reading
<1>2. argv[i] \in Arg /\ i \in Nat /\ i >= 1
  BY <1>1
<1> QED BY <1>2 DEF Arg

LEMMA Lengths ==
  ASSUME Reading
  PROVE  Len(argv) \in Nat /\ DOMAIN argv = 1 .. Len(argv) /\ argv \in Seq(Arg)
<1>1. argv \in Seq(Arg)
  BY ArgvAssumption DEF Reading
<1> QED BY <1>1

\* The clauses of Reading, for what one argument changes.
Found(s, n) ==
  /\ s \in Seq(Path)
  /\ \A k \in DOMAIN s : \E i \in DOMAIN argv :
       i < n /\ argv[i].kind = "file" /\ argv[i].path = s[k]
Named(o, n) ==
  /\ o \in Path
  /\ o # DefaultOut =>
       \E i \in DOMAIN argv : i < n /\ Naming(argv, i) /\ argv[i].path = o
  /\ (\A i \in Names : i >= n) => o = DefaultOut
  /\ NamesKept(argv) => \/ \A i \in Names : i >= n
                        \/ \E i \in Names : i < n /\ LastName(i, n) /\ o = Operand(i)
                                            /\ o # DefaultOut
Flagged(f, n) ==
  /\ f \subseteq Flags
  /\ \A i \in DOMAIN argv :
       i < n /\ argv[i].kind \in Flags /\ ~Naming(argv, i) => argv[i].kind \in f

LEMMA ReadingParts ==
  Reading <=> /\ argv \in Argvs /\ pos \in Nat \ {0}
              /\ Flagged(flags, pos) /\ Named(out, pos) /\ Found(inputs, pos)
              /\ Apart(inputs, out)
              /\ stage = "args" \/ pos > Len(argv) \/ (stage = "exit" /\ passed = <<>>)
BY DEF Reading, Flagged, Named, Found

LEMMA FoundLater ==
  ASSUME Reading, NEW s, NEW n \in Nat, NEW m \in Nat, n <= m, Found(s, n)
  PROVE  Found(s, m)
<1>1. ASSUME NEW i \in DOMAIN argv, i < n PROVE i < m
  BY <1>1, Argument
<1> QED BY <1>1 DEF Found

LEMMA FoundNext ==
  ASSUME Reading, NEW n \in DOMAIN argv, argv[n].kind = "file", Found(inputs, n)
  PROVE  Found(Append(inputs, argv[n].path), n + 1)
<1> DEFINE s == Append(inputs, argv[n].path)
<1>1. inputs \in Seq(Path) /\ argv[n].path \in Path /\ n \in Nat
  BY Argument DEF Found
<1>2. /\ s \in Seq(Path) /\ Len(inputs) \in Nat /\ DOMAIN s = 1 .. Len(inputs) + 1
      /\ DOMAIN inputs = 1 .. Len(inputs)
      /\ s[Len(inputs) + 1] = argv[n].path /\ \A k \in 1 .. Len(inputs) : s[k] = inputs[k]
  BY <1>1
<1> HIDE DEF s
<1>3. ASSUME NEW k \in DOMAIN s
      PROVE  \E i \in DOMAIN argv : i < n + 1 /\ argv[i].kind = "file" /\ argv[i].path = s[k]
  <2>1. CASE k \in 1 .. Len(inputs)
    <3>1. PICK i \in DOMAIN argv : i < n /\ argv[i].kind = "file" /\ argv[i].path = inputs[k]
      BY <1>2, <2>1 DEF Found
    <3>2. i < n + 1
      BY <1>1, <3>1, Argument
    <3> QED BY <1>2, <2>1, <3>1, <3>2
  <2>2. CASE k \notin 1 .. Len(inputs)
    <3>1. k = Len(inputs) + 1 /\ n < n + 1
      BY <1>1, <1>2, <2>2
    <3> QED BY <1>2, <3>1
  <2> QED BY <2>1, <2>2
<1> QED BY <1>2, <1>3 DEF Found, s

\* An argument that is no output path of its own.
LEMMA NamedLater ==
  ASSUME Reading, NEW n \in DOMAIN argv, n \notin Names, NEW o, Named(o, n)
  PROVE  Named(o, n + 1)
<1>1. n \in Nat /\ \A i \in DOMAIN argv : i \in Nat /\ (i < n + 1 <=> i < n \/ i = n)
  BY Argument
<1>2. Names \subseteq DOMAIN argv
  BY DEF Names
<1>3. \A i \in Names : i < n + 1 <=> i < n
  BY <1>1, <1>2
<1>4. \A i \in Names : (i >= n + 1 <=> ~(i < n + 1)) /\ (i >= n <=> ~(i < n))
  BY <1>1, <1>2
<1>5. \A i \in DOMAIN argv : i < n => i < n + 1
  BY <1>1
<1>6. \A i \in Names : i < n => i < n + 1
  BY <1>3
<1>7. \A i \in Names : LastName(i, n) => LastName(i, n + 1)
  BY <1>3 DEF LastName
<1>8. (\A i \in Names : i >= n + 1) <=> (\A i \in Names : i >= n)
  BY <1>3, <1>4
<1>9. /\ o \in Path
      /\ o # DefaultOut =>
           \E i \in DOMAIN argv : i < n + 1 /\ Naming(argv, i) /\ argv[i].path = o
  BY <1>5 DEF Named
<1>10. NamesKept(argv) =>
         \/ \A i \in Names : i >= n + 1
         \/ \E i \in Names : i < n + 1 /\ LastName(i, n + 1) /\ o = Operand(i) /\ o # DefaultOut
  BY <1>6, <1>7, <1>8 DEF Named
<1> QED BY <1>8, <1>9, <1>10 DEF Named

\* -o path and -opath: the last one so far.
LEMMA NamedNext ==
  ASSUME Reading, NEW n \in Names, NEW d \in {0, 1}, n + d \in DOMAIN argv,
         Naming(argv, n + d), Operand(n) = argv[n + d].path,
         NamesKept(argv) => d = 0 \/ n + 1 \notin Names
  PROVE  Named(Operand(n), n + d + 1)
<1> DEFINE o == Operand(n)
           m == n + d
<1>1. /\ n \in Nat /\ m \in Nat /\ m \in DOMAIN argv /\ n <= m
      /\ \A i \in DOMAIN argv : i \in Nat
      /\ n < m + 1 /\ m < m + 1 /\ ~(n >= m + 1)
  BY Argument DEF Names
<1>2. o \in Path
  BY <1>1, Argument
<1>3. NamesKept(argv) => \A i \in Names : i < m + 1 => i <= n
  <2> SUFFICES ASSUME NamesKept(argv), NEW i \in Names, i < m + 1 PROVE i <= n
    OBVIOUS
  <2>1. d = 0 \/ i # n + 1
    OBVIOUS
  <2>2. i \in Nat
    BY <1>1 DEF Names
  <2> QED BY <1>1, <2>1, <2>2
<1>4. NamesKept(argv) => n < m + 1 /\ LastName(n, m + 1) /\ o = Operand(n) /\ o # DefaultOut
  <2> SUFFICES ASSUME NamesKept(argv) PROVE LastName(n, m + 1) /\ o # DefaultOut
    BY <1>1
  <2>1. LastName(n, m + 1)
    BY <1>3 DEF LastName
  <2>2. argv[m].path # DefaultOut
    BY <1>1 DEF NamesKept
  <2> QED BY <2>1, <2>2
<1>5. \E i \in DOMAIN argv : i < m + 1 /\ Naming(argv, i) /\ argv[i].path = o
  BY <1>1
<1>6. ~(\A i \in Names : i >= m + 1)
  BY <1>1
<1> HIDE DEF o, m
<1>7. Named(o, m + 1)
  BY <1>2, <1>4, <1>5, <1>6 DEF Named
<1> QED BY <1>7 DEF o, m

LEMMA FlaggedNext ==
  ASSUME Reading, NEW n \in DOMAIN argv, NEW f, Flagged(f, n), NEW g, f \subseteq g,
         g \subseteq Flags, argv[n].kind \in Flags => argv[n].kind \in g
  PROVE  Flagged(g, n + 1)
<1>1. n \in Nat /\ \A i \in DOMAIN argv : i \in Nat /\ (i < n + 1 <=> i < n \/ i = n)
  BY Argument
<1> QED BY <1>1 DEF Flagged

LEMMA OperandNamed ==
  ASSUME Reading, NEW n \in DOMAIN argv, argv[n].kind = "-o"
  PROVE  /\ Naming(argv, n + 1)
         /\ NamesKept(argv) /\ n + 1 \in DOMAIN argv => n + 1 \notin Names
<1> DEFINE m == n + 1
<1>1. m - 1 = n /\ m > 1
  BY Argument
<1>2. argv[m - 1].kind = "-o"
  BY <1>1
<1> HIDE DEF m
<1>3. Naming(argv, m)
  BY <1>1, <1>2 DEF Naming
<1>4. NamesKept(argv) /\ m \in DOMAIN argv => m \notin Names
  BY <1>1, <1>2, <1>3 DEF NamesKept, Names
<1> QED BY <1>3, <1>4 DEF m

\* The argument after -o is none of main's.
LEMMA FlaggedSkips ==
  ASSUME Reading, NEW n \in DOMAIN argv, n + 1 \in DOMAIN argv, NEW f, Flagged(f, n + 1),
         argv[n].kind = "-o"
  PROVE  Flagged(f, n + 1 + 1)
<1>1. /\ n \in Nat /\ n >= 1
      /\ \A i \in DOMAIN argv : i \in Nat /\ (i < n + 1 + 1 <=> i < n + 1 \/ i = n + 1)
  BY Argument
<1>3. Naming(argv, n + 1)
  BY OperandNamed
<1> QED BY <1>1, <1>3 DEF Flagged

\* A source that joins the others.
LEMMA ApartNext ==
  ASSUME Reading, NEW n \in DOMAIN argv, argv[n].kind = "file",
         Found(inputs, n), Named(out, n), Apart(inputs, out)
  PROVE  Apart(Append(inputs, argv[n].path), out)
<1> DEFINE p == argv[n].path
           s == Append(inputs, p)
<1>1. /\ s \in Seq(Path) /\ Len(inputs) \in Nat /\ DOMAIN s = 1 .. Len(inputs) + 1
      /\ DOMAIN inputs = 1 .. Len(inputs)
      /\ s[Len(inputs) + 1] = p /\ \A k \in 1 .. Len(inputs) : s[k] = inputs[k]
  <2>1. inputs \in Seq(Path) /\ p \in Path
    BY Argument DEF Found
  <2> QED BY <2>1
<1>2. argv \in Argvs
  BY DEF Reading
<1>3. \A k \in DOMAIN inputs : \E i \in DOMAIN argv :
        i # n /\ argv[i].kind = "file" /\ argv[i].path = inputs[k]
  <2>1. \A i \in DOMAIN argv : i < n => i # n
    BY Argument
  <2> QED BY <2>1 DEF Found
<1>4. ASSUME SourcesApart
      PROVE  /\ p[3] \notin {"", "ll", "o"}
             /\ out # DefaultOut => p # out
  <2>1. p[3] \notin {"", "ll", "o"}
    BY <1>2, <1>4 DEF SourcesApart
  <2>2. ASSUME out # DefaultOut PROVE p # out
    <3>1. PICK j \in DOMAIN argv : j < n /\ Naming(argv, j) /\ argv[j].path = out
      BY <2>2 DEF Named
    <3>2. j # n
      BY <3>1, Argument
    <3> QED BY <1>2, <1>4, <3>1, <3>2 DEF SourcesApart
  <2> QED BY <2>1, <2>2
<1>5. ASSUME OneNameEach
      PROVE  p[1] = "." /\ \A k \in DOMAIN inputs : inputs[k][2] # p[2]
  <2>1. p[1] = "."
    BY <1>2, <1>5 DEF OneNameEach
  <2>2. ASSUME NEW k \in DOMAIN inputs PROVE inputs[k][2] # p[2]
    <3>1. PICK i \in DOMAIN argv : i # n /\ argv[i].kind = "file" /\ argv[i].path = inputs[k]
      BY <1>3
    <3> QED BY <1>2, <1>5, <3>1 DEF OneNameEach
  <2> QED BY <2>1, <2>2
<1> HIDE DEF p, s
<1>6. \A k \in DOMAIN s :
        (k \in DOMAIN inputs /\ s[k] = inputs[k]) \/ (k = Len(inputs) + 1 /\ s[k] = p)
  BY <1>1
<1>7. Apart(s, out)
  BY <1>4, <1>5, <1>6 DEF Apart
<1> QED BY <1>7 DEF s, p

\* An output path, after the sources so far.
LEMMA ApartNamed ==
  ASSUME Reading, NEW n \in DOMAIN argv, NEW m \in DOMAIN argv, n <= m, Naming(argv, m),
         Found(inputs, n), Apart(inputs, out)
  PROVE  Apart(inputs, argv[m].path)
<1>1. argv \in Argvs
  BY DEF Reading
<1>2. \A k \in DOMAIN inputs : \E i \in DOMAIN argv :
        i # m /\ argv[i].kind = "file" /\ argv[i].path = inputs[k]
  <2>1. \A i \in DOMAIN argv : i < n => i # m
    BY Argument
  <2> QED BY <2>1 DEF Found
<1>3. ASSUME SourcesApart, NEW k \in DOMAIN inputs PROVE inputs[k] # argv[m].path
  <2>1. PICK i \in DOMAIN argv : i # m /\ argv[i].kind = "file" /\ argv[i].path = inputs[k]
    BY <1>2
  <2> QED BY <1>1, <1>3, <2>1 DEF SourcesApart
<1> QED BY <1>3 DEF Apart

LEMMA ReadingNext ==
  ASSUME argv \in Argvs, argv' = argv, NEW n \in Nat \ {0}, pos' = n,
         Flagged(flags', n), Named(out', n), Found(inputs', n), Apart(inputs', out'),
         stage' = "args" \/ n > Len(argv) \/ (stage' = "exit" /\ passed' = <<>>)
  PROVE  Reading'
BY DEF Reading, Flagged, Named, Found, LastName, Operand, Names, Apart

LEMMA ReadingKept ==
  ASSUME Reading, UNCHANGED optVars,
         stage' = "args" \/ pos > Len(argv) \/ (stage' = "exit" /\ passed' = <<>>)
  PROVE  Reading'
<1>1. /\ argv' = argv /\ pos' = pos /\ flags' = flags /\ out' = out /\ inputs' = inputs
  BY DEF optVars
<1>2. /\ argv \in Argvs /\ Flagged(flags, pos) /\ Named(out, pos) /\ Found(inputs, pos)
      /\ Apart(inputs, out) /\ pos \in Nat \ {0}
  BY ReadingParts
<1> QED BY <1>1, <1>2, ReadingNext

\* main reads one argument more, or quits.
LEMMA ReadingArg ==
  ASSUME Reading, ReadArg, passed = <<>>
  PROVE  Reading'
<1> DEFINE a == argv[pos]
<1>1. /\ pos \in DOMAIN argv /\ pos \in Nat /\ pos \in Nat \ {0} /\ stage = "args"
      /\ pos + 1 \in Nat \ {0} /\ pos <= pos + 1
      /\ pos + 1 + 1 \in Nat \ {0} /\ pos + 1 <= pos + 1 + 1 /\ pos + 2 = pos + 1 + 1
      /\ pos <= pos + 1 + 1 /\ pos <= pos
  <2>1. pos \in Nat \ {0}
    BY DEF Reading
  <2>2. pos <= Len(argv) /\ stage = "args"
    BY DEF ReadArg
  <2>3. pos \in 1 .. Len(argv)
    BY <2>1, <2>2, Lengths
  <2> QED BY <2>1, <2>2, <2>3, Lengths
<1>2. /\ argv \in Argvs /\ Flagged(flags, pos) /\ Named(out, pos) /\ Found(inputs, pos)
      /\ Apart(inputs, out)
  BY ReadingParts
<1>3. passed' = passed
  BY DEF ReadArg
<1>4. ASSUME argv' = argv, stage' = "args", NEW n \in Nat \ {0}, pos' = n,
             Flagged(flags', n), Named(out', n), Found(inputs', n), Apart(inputs', out')
      PROVE  Reading'
  BY <1>2, <1>4, ReadingNext
<1>5. CASE a.kind \in Flags /\ flags' = flags \cup {a.kind} /\ Skip(1) /\ UNCHANGED <<out, inputs>>
  <2>1. pos' = pos + 1 /\ argv' = argv /\ stage' = "args" /\ out' = out /\ inputs' = inputs
    BY <1>1, <1>5 DEF Skip
  <2>2. Found(inputs', pos + 1)
    BY <1>1, <1>2, <2>1, FoundLater
  <2>3. pos \notin Names
    BY <1>5 DEF Names, Flags
  <2>4. Named(out', pos + 1)
    BY <1>1, <1>2, <2>1, <2>3, NamedLater
  <2>5. flags \subseteq flags' /\ flags' \subseteq Flags /\ a.kind \in flags'
    BY <1>2, <1>5 DEF Flagged
  <2>6. Flagged(flags', pos + 1)
    BY <1>1, <1>2, <2>5, FlaggedNext
  <2> QED BY <1>1, <1>2, <1>4, <2>1, <2>2, <2>4, <2>6
<1>6. CASE a.kind = "file" /\ inputs' = Append(inputs, a.path) /\ Skip(1) /\ UNCHANGED <<flags, out>>
  <2>1. pos' = pos + 1 /\ argv' = argv /\ stage' = "args" /\ out' = out /\ flags' = flags
    BY <1>1, <1>6 DEF Skip
  <2>2. Found(inputs', pos + 1)
    BY <1>1, <1>2, <1>6, FoundNext
  <2>3. pos \notin Names /\ a.kind \notin Flags
    BY <1>6 DEF Names, Flags
  <2>4. Named(out', pos + 1)
    BY <1>1, <1>2, <2>1, <2>3, NamedLater
  <2>5. flags \subseteq flags' /\ flags' \subseteq Flags
    BY <1>2, <2>1 DEF Flagged
  <2>6. Flagged(flags', pos + 1)
    BY <1>1, <1>2, <2>3, <2>5, FlaggedNext
  <2>7. Apart(inputs', out')
    BY <1>1, <1>2, <1>6, <2>1, ApartNext
  <2> QED BY <1>1, <1>4, <2>1, <2>2, <2>4, <2>6, <2>7
<1>7. CASE a.kind = "-ofile" /\ out' = a.path /\ Skip(1) /\ UNCHANGED <<flags, inputs>>
  <2>1. pos' = pos + 1 /\ argv' = argv /\ stage' = "args" /\ inputs' = inputs /\ flags' = flags
    BY <1>1, <1>7 DEF Skip
  <2>2. Found(inputs', pos + 1)
    BY <1>1, <1>2, <2>1, FoundLater
  <2>3. a.kind \notin Flags /\ a.kind # "-o" /\ pos \in Names
    BY <1>1, <1>7 DEF Names, Flags
  <2>4. Naming(argv, pos) /\ Operand(pos) = a.path
    BY <1>7, <2>3 DEF Naming, Operand
  <2>5. Named(out', pos + 1)
    <3> DEFINE d == 0
    <3>1. pos + d = pos /\ d \in {0, 1}
      BY <1>1
    <3>2. Named(Operand(pos), pos + d + 1)
      BY <1>1, <2>3, <2>4, <3>1, NamedNext
    <3> QED BY <1>7, <2>4, <3>1, <3>2
  <2>6. flags \subseteq flags' /\ flags' \subseteq Flags
    BY <1>2, <2>1 DEF Flagged
  <2>7. Flagged(flags', pos + 1)
    BY <1>1, <1>2, <2>3, <2>6, FlaggedNext
  <2>8. Apart(inputs', out')
    BY <1>1, <1>2, <1>7, <2>1, <2>4, ApartNamed
  <2> QED BY <1>1, <1>4, <2>1, <2>2, <2>5, <2>7, <2>8
<1>8. CASE /\ a.kind = "-o" /\ pos < Len(argv) /\ out' = argv[pos + 1].path /\ Skip(2)
           /\ UNCHANGED <<flags, inputs>>
  <2>1. /\ pos' = pos + 1 + 1 /\ argv' = argv /\ stage' = "args" /\ inputs' = inputs
        /\ flags' = flags
    BY <1>1, <1>8 DEF Skip
  <2>2. Found(inputs', pos + 1 + 1)
    BY <1>1, <1>2, <2>1, FoundLater
  <2>3. a.kind \notin Flags /\ pos \in Names /\ pos + 1 \in DOMAIN argv
    <3>1. pos + 1 \in DOMAIN argv
      BY <1>1, <1>8, Lengths
    <3> QED BY <1>1, <1>8, <3>1 DEF Names, Flags
  <2>4. Naming(argv, pos + 1) /\ Operand(pos) = argv[pos + 1].path
    BY <1>1, <1>8, OperandNamed DEF Operand
  <2>5. NamesKept(argv) => pos + 1 \notin Names
    BY <1>1, <1>8, <2>3, OperandNamed
  <2>6. Named(out', pos + 1 + 1)
    <3> DEFINE d == 1
    <3>1. d \in {0, 1} /\ pos + d = pos + 1
      OBVIOUS
    <3>2. Named(Operand(pos), pos + d + 1)
      BY <1>1, <2>3, <2>4, <2>5, <3>1, NamedNext
    <3> QED BY <1>8, <2>4, <3>1, <3>2
  <2>7. flags \subseteq flags' /\ flags' \subseteq Flags
    BY <1>2, <2>1 DEF Flagged
  <2>8. Flagged(flags', pos + 1)
    BY <1>1, <1>2, <2>3, <2>7, FlaggedNext
  <2>9. Flagged(flags', pos + 1 + 1)
    BY <1>1, <1>8, <2>3, <2>8, FlaggedSkips
  <2>10. Apart(inputs', out')
    BY <1>1, <1>2, <1>8, <2>1, <2>3, <2>4, ApartNamed
  <2> QED BY <1>1, <1>4, <2>1, <2>2, <2>6, <2>9, <2>10
<1>9. ASSUME UNCHANGED optVars, stage' = "exit", passed = <<>>
      PROVE  Reading'
  BY <1>3, <1>9, ReadingKept
<1> QED
  <2>1. \/ UNCHANGED optVars /\ stage' = "exit"
        \/ a.kind \in Flags /\ flags' = flags \cup {a.kind} /\ Skip(1) /\ UNCHANGED <<out, inputs>>
        \/ a.kind = "file" /\ inputs' = Append(inputs, a.path) /\ Skip(1) /\ UNCHANGED <<flags, out>>
        \/ a.kind = "-ofile" /\ out' = a.path /\ Skip(1) /\ UNCHANGED <<flags, inputs>>
        \/ /\ a.kind = "-o" /\ pos < Len(argv) /\ out' = argv[pos + 1].path /\ Skip(2)
           /\ UNCHANGED <<flags, inputs>>
    BY DEF ReadArg, Quit
  <2> QED BY <1>5, <1>6, <1>7, <1>8, <1>9, <2>1

LEMMA ReadingStep ==
  ASSUME IInv, Reading, [Next]_vars
  PROVE  Reading'
<1>1. CASE ReadArg
  <2>1. passed = <<>>
    BY <1>1 DEF IInv, ReadArg
  <2> QED BY <1>1, <2>1, ReadingArg
<1>2. CASE Start
  BY <1>2, ReadingKept DEF Start
<1>3. ASSUME UNCHANGED optVars, stage \notin {"args", "exit"} PROVE Reading'
  <2>1. pos > Len(argv)
    BY <1>3 DEF Reading
  <2> QED BY <1>3, <2>1, ReadingKept
<1>4. CASE UNCHANGED vars
  <2>1. UNCHANGED optVars /\ stage' = stage /\ passed' = passed
    BY <1>4 DEF vars, optVars
  <2>2. stage = "args" \/ pos > Len(argv) \/ (stage = "exit" /\ passed = <<>>)
    BY DEF Reading
  <2> QED BY <2>1, <2>2, ReadingKept
<1>5. CASE Report
  BY <1>3, <1>5 DEF Report
<1>6. ASSUME NEW s \in FileStages, At(s) PROVE Reading'
  BY <1>3, <1>6 DEF At, FileStages, CleanStages
<1>7. {"read", "lex", "parse", "sema", "irgen", "emit", "llc", "gcc", "clean"} \subseteq FileStages
  BY DEF FileStages, CleanStages
<1>8. ASSUME NEW b \in BOOLEAN, Read(b) \/ EmitIR(b) \/ Llc(b) \/ Gcc(b) PROVE Reading'
  BY <1>6, <1>7, <1>8 DEF Read, EmitIR, Llc, Gcc
<1>9. ASSUME NEW n \in 0 .. 1, Lex(n) \/ Parse(n) \/ Sema(n) PROVE Reading'
  BY <1>6, <1>7, <1>9 DEF Lex, Parse, Sema
<1>10. CASE GenerateIR \/ CleanUp
  BY <1>6, <1>7, <1>10 DEF GenerateIR, CleanUp
<1> QED BY <1>1, <1>2, <1>4, <1>5, <1>8, <1>9, <1>10 DEF Next, Terminated

-----------------------------------------------------------------------------
(***************************************************************************)
(* Paths and what is at them.                                              *)
(***************************************************************************)
LEMMA Paths ==
  ASSUME NEW p \in Path, NEW e \in {"", "ll", "o"}
  PROVE  /\ WithExt(p, e) \in Path /\ WithExt(p, e)[1] = p[1]
         /\ WithExt(p, e)[2] = p[2] /\ WithExt(p, e)[3] = e
<1>1. e \in Exts
  BY PathAssumption
<1>2. p[1] \in Dirs /\ p[2] \in Stems
  BY DEF Path
<1> QED BY <1>1, <1>2 DEF WithExt, Path

LEMMA Defaults ==
  DefaultOut \in Path /\ <<".", "output", "ll">> \in Path /\ <<".", "output", "ll">>[3] = "ll"
<1>1. "." \in Dirs /\ "a" \in Stems /\ "output" \in Stems /\ "out" \in Exts /\ "ll" \in Exts
  BY PathAssumption
<1> QED BY <1>1 DEF DefaultOut, Path

LEMMA Things ==
  /\ \A p \in Path : /\ Source(p) \in Contents /\ Source(p)[1] = "source"
                     /\ Source(p) \notin Artefact
  /\ Absent \in Contents /\ Absent[1] = "absent" /\ Absent \notin Artefact
  /\ \A p \in Path, k \in {"ir", "obj", "bin"} :
       Made(k, p) \in Contents /\ Made(k, p)[1] = k /\ Made(k, p)[2] = p
  /\ \A c \in Contents : c[1] \in {"ir", "obj"} => c \in Artefact
<1>1. \A c \in Artefact : c[1] \in {"ir", "obj", "bin"} /\ c = <<c[1], c[2]>>
  BY DEF Artefact
<1>2. ASSUME NEW p \in Path
      PROVE  Source(p) \in Contents /\ Source(p)[1] = "source" /\ Source(p) \notin Artefact
  <2>1. Source(p)[1] = "source"
    BY DEF Source
  <2>2. Source(p) \in Contents
    BY DEF Contents
  <2> QED BY <1>1, <2>1, <2>2
<1>3. Absent \in Contents /\ Absent[1] = "absent" /\ Absent \notin Artefact
  <2>1. Absent[1] = "absent"
    BY DEF Absent
  <2> QED BY <1>1, <2>1 DEF Contents
<1>4. ASSUME NEW p \in Path, NEW k \in {"ir", "obj", "bin"}
      PROVE  Made(k, p) \in Contents /\ Made(k, p)[1] = k /\ Made(k, p)[2] = p
  BY DEF Made, Contents, Artefact
<1>5. ASSUME NEW c \in Contents, c[1] \in {"ir", "obj"} PROVE c \in Artefact
  BY <1>2, <1>3, <1>5 DEF Contents
<1> QED BY <1>2, <1>3, <1>4, <1>5

\* The file that is being compiled, and the paths that are written for it.
LEMMA Places ==
  ASSUME IInv, Reading, Placed, stage \in FileStages
  PROVE  /\ Cur \in Path /\ Bin \in Path
         /\ Ll \in Path /\ Ll[3] = "ll" /\ Obj \in Path /\ Obj[3] = "o"
         /\ Ll[2] = Bin[2] /\ Obj[2] = Bin[2] /\ Ll # Obj
         /\ out # DefaultOut => Bin = out
         /\ out = DefaultOut => Bin[1] = "." /\ Bin[2] = Cur[2] /\ Bin[3] = ""
                                /\ Bin = <<".", Cur[2], "">>
         /\ resolveOutputPath \in Path /\ resolveOutputPath[3] = "ll"
         /\ Len(passed) + 1 \in DOMAIN inputs /\ Len(passed) \in Nat
<1>1. inputs \in Seq(Path) /\ out \in Path /\ Len(passed) < Len(inputs) /\ Len(passed) \in Nat
  BY DEF Reading, Placed, IInv
<1>2. Len(passed) + 1 \in DOMAIN inputs /\ Cur \in Path
  BY <1>1 DEF Cur
<1>3. /\ out # DefaultOut => Bin = out
      /\ out = DefaultOut => Bin = <<".", Cur[2], "">>
  BY DEF Bin, resolveBinaryPath
<1>4. /\ <<".", Cur[2], "">> \in Path /\ <<".", Cur[2], "">>[1] = "."
      /\ <<".", Cur[2], "">>[2] = Cur[2] /\ <<".", Cur[2], "">>[3] = ""
  <2>1. "." \in Dirs /\ "" \in Exts /\ Cur[2] \in Stems
    BY <1>2, PathAssumption DEF Path
  <2> QED BY <2>1 DEF Path
<1>5. Bin \in Path
  BY <1>1, <1>3, <1>4
<1>6. Ll \in Path /\ Ll[3] = "ll" /\ Obj \in Path /\ Obj[3] = "o" /\ Ll[2] = Bin[2] /\ Obj[2] = Bin[2]
  BY <1>5, Paths DEF Ll, Obj
<1>7. resolveOutputPath \in Path /\ resolveOutputPath[3] = "ll"
  BY <1>1, Defaults DEF resolveOutputPath
<1> QED BY <1>1, <1>2, <1>3, <1>4, <1>5, <1>6, <1>7

LEMMA ListedOutput ==
  ASSUME Reading, OutputsApart, flags = {}, out # DefaultOut, stage \notin {"args", "exit"}
  PROVE  out[3] # "ll"
<1>1. argv \in Argvs /\ pos > Len(argv) /\ pos \in Nat
  BY DEF Reading
<1>2. \A i \in DOMAIN argv : i < pos
  BY <1>1, Lengths
<1>3. ~FlagGiven(argv)
  BY <1>2 DEF FlagGiven, Reading
<1>4. NamesKept(argv)
  BY <1>1, <1>3 DEF OutputsApart
<1>5. PICK i \in DOMAIN argv : Naming(argv, i) /\ argv[i].path = out
  BY DEF Reading
<1> QED BY <1>4, <1>5 DEF NamesKept

LEMMA Returned ==
  ASSUME IInv, Placed, stage \in FileStages, NEW ok \in BOOLEAN, Return(ok)
  PROVE  /\ stage' \in {"read", "report"}
         /\ Len(passed') <= Len(inputs) /\ (stage' = "read" => Len(passed') < Len(inputs))
         /\ DOMAIN passed' = DOMAIN passed \cup {Len(passed) + 1}
         /\ \A i \in DOMAIN passed : passed'[i] = passed[i] /\ i # Len(passed) + 1
         /\ passed'[Len(passed) + 1] = ok
         /\ AllPassed' => AllPassed /\ ok = TRUE
<1>1. passed \in Seq(BOOLEAN) /\ Len(passed) \in Nat /\ Len(passed) < Len(inputs)
  BY DEF IInv, Placed
<1>2. passed' = Append(passed, ok) /\ stage' = IF Len(passed') = Len(inputs) THEN "report" ELSE "read"
  BY DEF Return
<1>3. /\ Len(passed') = Len(passed) + 1 /\ DOMAIN passed' = 1 .. Len(passed) + 1
      /\ DOMAIN passed = 1 .. Len(passed)
      /\ \A i \in 1 .. Len(passed) : passed'[i] = passed[i]
      /\ passed'[Len(passed) + 1] = ok
  BY <1>1, <1>2
<1>4. Len(passed') <= Len(inputs) /\ (Len(passed') # Len(inputs) => Len(passed') < Len(inputs))
  <2>1. CASE Len(inputs) \in Nat
    BY <1>1, <1>3, <2>1
  <2>2. CASE Len(inputs) \notin Nat
    BY <1>1, <1>3, <2>2
  <2> QED BY <2>1, <2>2
<1>5. /\ DOMAIN passed' = DOMAIN passed \cup {Len(passed) + 1}
      /\ \A i \in DOMAIN passed : i # Len(passed) + 1
  BY <1>1, <1>3
<1>6. stage' \in {"read", "report"} /\ (stage' = "read" => Len(passed') < Len(inputs))
  BY <1>2, <1>4
<1>7. AllPassed' => AllPassed /\ ok = TRUE
  <2>1. DOMAIN passed \subseteq DOMAIN passed' /\ Len(passed) + 1 \in DOMAIN passed'
    BY <1>5
  <2> QED BY <1>3, <2>1 DEF AllPassed
<1> QED BY <1>3, <1>4, <1>5, <1>6, <1>7

\* Within the files: the step goes on with the current one or returns from it.
GoesTo(s) == passed' = passed /\ stage' = s /\ s \in FileStages /\ flags \cap Barred(s) = {}

LEMMA PlacedStep ==
  ASSUME IInv, Reading, Placed, stage \in FileStages, UNCHANGED optVars,
         fs' \in [Path -> Contents],
         (\E s \in FileStages : GoesTo(s)) \/ Return(TRUE) \/ Return(FALSE)
  PROVE  Placed'
<1>1. inputs' = inputs /\ flags' = flags
  BY DEF optVars
<1>2. ASSUME NEW s \in FileStages, GoesTo(s) PROVE Placed'
  <2>1. passed' = passed /\ stage' = s /\ flags \cap Barred(s) = {}
    BY <1>2 DEF GoesTo
  <2>2. Len(passed') < Len(inputs') /\ Len(passed') <= Len(inputs')
    BY <1>1, <2>1 DEF Placed
  <2>3. flags' \cap Barred(stage') = {}
    BY <1>1, <2>1
  <2> QED BY <2>2, <2>3 DEF Placed
<1>3. ASSUME NEW ok \in BOOLEAN, Return(ok) PROVE Placed'
  <2>1. /\ stage' \in {"read", "report"}
        /\ Len(passed') <= Len(inputs) /\ (stage' = "read" => Len(passed') < Len(inputs))
    BY <1>3, Returned
  <2>2. Barred(stage') = {}
    BY <2>1 DEF Barred
  <2>3. stage' \in FileStages => stage' = "read"
    BY <2>1 DEF FileStages, CleanStages
  <2>4. flags' \cap Barred(stage') = {}
    BY <2>2
  <2>5. /\ Len(passed') <= Len(inputs')
        /\ stage' \in FileStages => Len(passed') < Len(inputs')
    BY <1>1, <2>1, <2>3
  <2> QED BY <2>4, <2>5 DEF Placed
<1> QED BY <1>2, <1>3

\* What each file that passed has of its own stays, and the current one may
\* join them.
LEMMA OwnedStep ==
  ASSUME IInv, Placed, Owned, stage \in FileStages, UNCHANGED optVars,
         OneNameEach /\ flags = {} /\ out = DefaultOut =>
           \A i \in DOMAIN passed : fs'[WithExt(inputs[i], "")] = fs[WithExt(inputs[i], "")],
         \/ passed' = passed
         \/ Return(FALSE)
         \/ /\ Return(TRUE)
            /\ OneNameEach /\ flags = {} /\ out = DefaultOut =>
                 fs'[WithExt(Cur, "")] = Made("bin", Cur)
  PROVE  Owned'
<1>1. inputs' = inputs /\ flags' = flags /\ out' = out
  BY DEF optVars
<1>2. SUFFICES ASSUME OneNameEach, flags = {}, out = DefaultOut, NEW i \in DOMAIN passed',
                      passed'[i]
               PROVE  fs'[WithExt(inputs[i], "")] = Made("bin", inputs[i])
  BY <1>1 DEF Owned
<1>3. ASSUME i \in DOMAIN passed, passed[i]
      PROVE  fs'[WithExt(inputs[i], "")] = Made("bin", inputs[i])
  BY <1>2, <1>3 DEF Owned
<1>4. CASE passed' = passed
  BY <1>2, <1>3, <1>4
<1>5. CASE Return(FALSE)
  BY <1>2, <1>3, <1>5, Returned
<1>6. CASE Return(TRUE) /\ fs'[WithExt(Cur, "")] = Made("bin", Cur)
  <2>1. i \in DOMAIN passed \/ i = Len(passed) + 1
    BY <1>6, Returned
  <2>2. CASE i \in DOMAIN passed
    BY <1>2, <1>3, <1>6, <2>2, Returned
  <2>3. CASE i = Len(passed) + 1
    BY <1>6, <2>3 DEF Cur
  <2> QED BY <2>1, <2>2, <2>3
<1> QED BY <1>2, <1>4, <1>5, <1>6

\* A write for the current file spares every source and every other binary.
Elsewhere(S) == \A q \in Path \ S : fs'[q] = fs[q]

LEMMA Spared ==
  ASSUME IInv, Reading, Placed, stage \in FileStages, UNCHANGED optVars,
         Elsewhere({Ll, Obj, Bin})
  PROVE  /\ OneNameEach /\ out = DefaultOut =>
              \A i \in DOMAIN passed :
                fs'[WithExt(inputs[i], "")] = fs[WithExt(inputs[i], "")]
         /\ SourcesApart => \A k \in DOMAIN inputs : fs'[inputs[k]] = fs[inputs[k]]
<1>0. /\ inputs \in Seq(Path) /\ Apart(inputs, out) /\ \A k \in DOMAIN inputs : inputs[k] \in Path
      /\ DOMAIN passed \subseteq DOMAIN inputs
      /\ \A i \in DOMAIN passed : i # Len(passed) + 1
  <2>1. inputs \in Seq(Path) /\ passed \in Seq(BOOLEAN) /\ Len(passed) <= Len(inputs)
    BY DEF Reading, Placed, IInv
  <2> QED BY <2>1 DEF Reading
<1>1. /\ Ll[2] = Bin[2] /\ Obj[2] = Bin[2] /\ Ll[3] = "ll" /\ Obj[3] = "o"
      /\ out # DefaultOut => Bin = out
      /\ out = DefaultOut => Bin[2] = Cur[2] /\ Bin[3] = ""
      /\ Len(passed) + 1 \in DOMAIN inputs
  BY Places
<1>2. ASSUME OneNameEach, out = DefaultOut, NEW i \in DOMAIN passed
      PROVE  fs'[WithExt(inputs[i], "")] = fs[WithExt(inputs[i], "")]
  <2>1. inputs[i][2] # Cur[2]
    BY <1>0, <1>1, <1>2 DEF Apart, Cur
  <2>2. WithExt(inputs[i], "") \in Path /\ WithExt(inputs[i], "")[2] = inputs[i][2]
    BY <1>0, Paths
  <2> QED BY <1>1, <1>2, <2>1, <2>2 DEF Elsewhere
<1>3. ASSUME SourcesApart, NEW k \in DOMAIN inputs
      PROVE  fs'[inputs[k]] = fs[inputs[k]]
  <2>1. inputs[k][3] \notin {"", "ll", "o"} /\ (out = DefaultOut \/ inputs[k] # out)
    BY <1>0, <1>3 DEF Apart
  <2> QED BY <1>0, <1>1, <2>1 DEF Elsewhere
<1> QED BY <1>2, <1>3

-----------------------------------------------------------------------------
(***************************************************************************)
(* FInv is kept: before the first file, by main's end and by a stutter.    *)
(***************************************************************************)
NoneYet ==
  /\ fs \in [Path -> Contents] /\ Untouched /\ passed = <<>>
  /\ stage \in {"args", "exit", "read"} /\ (stage = "read" => inputs # <<>>)

LEMMA Fresh == IInv /\ Reading /\ NoneYet => FInv
<1> SUFFICES ASSUME IInv, Reading, NoneYet PROVE FInv
  OBVIOUS
<1> USE DEF NoneYet
<1>1. Placed
  <2>1. Len(inputs) \in Nat /\ Len(passed) = 0 /\ (inputs # <<>> => Len(inputs) > 0)
    <3>1. inputs \in Seq(Path)
      BY DEF Reading
    <3> QED BY <3>1
  <2>2. stage \in FileStages => stage = "read"
    BY DEF FileStages, CleanStages
  <2>3. flags \cap Barred(stage) = {}
    BY DEF Barred
  <2>4. Len(passed) <= Len(inputs) /\ (stage \in FileStages => Len(passed) < Len(inputs))
    BY <2>1, <2>2
  <2> QED BY <2>3, <2>4 DEF Placed
<1>2. Made3 /\ Owned /\ Honoured /\ Ended
  BY DEF Made3, Owned, Honoured, Ended
<1>3. Swept
  BY Things DEF Swept, Untouched, Clean
<1>4. Survive
  <2>1. \A k \in DOMAIN inputs : fs[inputs[k]] = Source(inputs[k])
    BY DEF Reading, Untouched
  <2> QED BY <2>1 DEF Survive, SourcesSurvive
<1> QED BY <1>1, <1>2, <1>3, <1>4 DEF FInv, Untouched

LEMMA FreshNext == IInv' /\ Reading' /\ NoneYet' => FInv'
BY Fresh, PTL

LEMMA InitFInv == Init => FInv
<1> SUFFICES ASSUME Init PROVE FInv
  OBVIOUS
<1>1. argv \in Argvs /\ argv \in Seq(Arg) /\ DOMAIN argv \subseteq Nat \ {0}
  BY ArgvAssumption DEF Init
<1>2. \A i \in DOMAIN argv : argv[i] \in Arg /\ i >= 1
  BY <1>1
<1>3. Reading
  BY <1>1, <1>2, Defaults DEF Init, Reading, Names, Apart
<1>4. fs \in [Path -> Contents]
  BY Things DEF Init
<1>5. Untouched
  <2>1. \A p \in Path : fs[p] \notin Artefact
    BY Things DEF Init
  <2>2. ASSUME NEW i \in DOMAIN argv, argv[i].kind = "file"
        PROVE  fs[argv[i].path] = Source(argv[i].path)
    <3>1. argv[i].path \in Path /\ argv[i] = [kind |-> "file", path |-> argv[i].path]
      BY <1>2, <2>2 DEF Arg
    <3> QED BY <3>1 DEF Init
  <2> QED BY <2>1, <2>2 DEF Untouched, Clean, Init
<1> QED BY <1>3, <1>4, <1>5, Fresh, InitIInv DEF Init, NoneYet

LEMMA MainStep ==
  ASSUME FInv, IInv', Reading', ReadArg \/ Start
  PROVE  FInv'
<1>1. /\ fs' = fs /\ stdout' = stdout /\ argv' = argv /\ passed' = passed /\ stage = "args"
      /\ stage' \in {"args", "exit", "read"} /\ (stage' = "read" => inputs' # <<>>)
  <2>1. CASE ReadArg
    BY <2>1 DEF ReadArg, Skip, Quit, optVars
  <2>2. CASE Start
    BY <2>2 DEF Start, Quit, optVars
  <2> QED BY <2>1, <2>2
<1>2. Untouched /\ passed = <<>> /\ fs \in [Path -> Contents]
  BY <1>1 DEF FInv, IInv, Placed
<1>3. Untouched'
  BY <1>1, <1>2 DEF Untouched, Clean
<1>4. NoneYet'
  BY <1>1, <1>2, <1>3 DEF NoneYet
<1> QED BY <1>4, FreshNext

\* While the file is the same, so are its paths.
LEMMA SamePaths ==
  ASSUME UNCHANGED optVars, passed' = passed
  PROVE  Cur' = Cur /\ Bin' = Bin /\ Ll' = Ll /\ Obj' = Obj
BY DEF optVars, Cur, Bin, Ll, Obj, resolveBinaryPath

LEMMA EndStep ==
  ASSUME FInv, IInv', Reading', Report \/ UNCHANGED vars
  PROVE  FInv'
<1>1. /\ UNCHANGED optVars /\ passed' = passed /\ fs' = fs /\ stdout' = stdout
      /\ (stage' = stage /\ exit' = exit)
           \/ (stage = "report" /\ stage' = "exit" /\ (exit' = 0 <=> AllPassed))
  <2>1. CASE Report
    <3> DEFINE all == \A i \in DOMAIN passed : passed[i]
    <3>1. /\ stage = "report" /\ passed' = passed /\ UNCHANGED optVars /\ fs' = fs
          /\ stdout' = stdout /\ stage' = "exit" /\ exit' = IF all THEN 0 ELSE 1
      BY <2>1 DEF Report, Quit
    <3> HIDE DEF all
    <3>2. exit' = 0 <=> all
      BY <3>1
    <3> QED BY <3>1, <3>2, Zenon DEF AllPassed, all
  <2>2. CASE UNCHANGED vars
    BY <2>2 DEF vars, optVars
  <2> QED BY <2>1, <2>2
<1>2. /\ argv' = argv /\ pos' = pos /\ flags' = flags /\ out' = out /\ inputs' = inputs
      /\ Cur' = Cur /\ Bin' = Bin /\ Ll' = Ll /\ Obj' = Obj
  BY <1>1, SamePaths DEF optVars
<1>3. Placed'
  BY <1>1, <1>2 DEF FInv, Placed, Barred, FileStages, CleanStages
<1>4. (stage' = "args" => Untouched') /\ (Inspecting' => Clean')
  BY <1>1, <1>2 DEF FInv, Untouched, Clean, Inspecting
<1>5. Made3'
  BY <1>1, <1>2 DEF FInv, Made3
<1>6. Swept' /\ Honoured'
  <2>1. Leftovers' = Leftovers
    BY <1>1, <1>2 DEF Leftovers
  <2>2. AllPassed' = AllPassed
    BY <1>1 DEF AllPassed
  <2> QED BY <1>1, <1>2, <2>1, <2>2 DEF FInv, Swept, Honoured
<1>7. Owned' /\ Survive' /\ Ended'
  <2>1. Owned' /\ Survive'
    BY <1>1, <1>2 DEF FInv, Owned, Survive, SourcesSurvive
  <2>2. Ended'
    BY <1>1 DEF FInv, Ended, AllPassed
  <2> QED BY <2>1, <2>2
<1> QED BY <1>3, <1>4, <1>5, <1>6, <1>7 DEF FInv

-----------------------------------------------------------------------------
(***************************************************************************)
(* FInv is kept inside the files.  A step goes on with the file or returns *)
(* from it, writes where its paths say, and leaves the options alone.      *)
(***************************************************************************)
Moves ==
  /\ stage \in FileStages /\ UNCHANGED <<optVars, exit>> /\ fs' \in [Path -> Contents]
  /\ (\E s \in FileStages : GoesTo(s)) \/ Return(TRUE) \/ Return(FALSE)

LEMMA Assemble ==
  ASSUME FInv, IInv', Reading', Moves, Inspecting => fs' = fs /\ stdout' = stdout,
         Made3', Swept', Honoured', Owned', Survive'
  PROVE  FInv'
<1>1. /\ IInv /\ Reading /\ Placed /\ stage \in FileStages /\ UNCHANGED optVars
      /\ fs' \in [Path -> Contents] /\ (Inspecting => Clean)
      /\ (\E s \in FileStages : GoesTo(s)) \/ Return(TRUE) \/ Return(FALSE)
  BY DEF FInv, Moves
<1>2. Placed'
  BY <1>1, PlacedStep
<1>3. stage' \in FileStages \cup {"report"}
  BY <1>1, Returned DEF GoesTo, FileStages
<1>4. stage' \notin {"args", "exit"}
  BY <1>3 DEF FileStages, CleanStages
<1>5. Inspecting' => Clean'
  BY <1>1 DEF Inspecting, optVars, Clean
<1> QED BY <1>2, <1>4, <1>5 DEF FInv, Ended

\* A file that did not pass: no promise is left but the sources and the
\* binaries of other files.
LEMMA FailedStep ==
  ASSUME FInv, IInv', Reading', Moves, Return(FALSE), flags = {}, Elsewhere({Ll, Obj, Bin})
  PROVE  FInv'
<1>1. IInv /\ Reading /\ Placed /\ Owned /\ stage \in FileStages /\ UNCHANGED optVars /\ Survive
  BY DEF FInv, Moves
<1>2. stage' \in {"read", "report"} /\ ~AllPassed'
  BY <1>1, Returned
<1>3. Made3' /\ Swept' /\ Honoured'
  BY <1>2 DEF Made3, Swept, Honoured
<1>4. /\ OneNameEach /\ out = DefaultOut =>
           \A i \in DOMAIN passed :
             fs'[WithExt(inputs[i], "")] = fs[WithExt(inputs[i], "")]
      /\ SourcesApart => \A k \in DOMAIN inputs : fs'[inputs[k]] = fs[inputs[k]]
  BY <1>1, Spared
<1>5. Owned'
  BY <1>1, <1>4, OwnedStep
<1>6. Survive'
  BY <1>1, <1>4 DEF Survive, SourcesSurvive, optVars
<1>7. ~Inspecting
  BY DEF Inspecting
<1> QED BY <1>3, <1>5, <1>6, <1>7, Assemble

\* A phase that writes nothing.  It passes a file only when an option stops
\* the compilation there.
LEMMA QuietStep ==
  ASSUME FInv, IInv', Reading', Moves, fs' = fs, stdout' = stdout,
         stage \notin {"llc", "gcc", "clean"}, stage' \notin {"llc", "gcc", "clean"},
         Return(TRUE) => flags # {}
  PROVE  FInv'
<1>1. /\ IInv /\ Reading /\ Placed /\ Owned /\ stage \in FileStages /\ UNCHANGED optVars
      /\ Survive /\ Swept /\ Honoured
      /\ (\E s \in FileStages : GoesTo(s)) \/ Return(TRUE) \/ Return(FALSE)
  BY DEF FInv, Moves
<1>2. inputs' = inputs /\ flags' = flags /\ out' = out /\ argv' = argv
  BY <1>1 DEF optVars
<1>3. Made3' /\ Leftovers' = {} /\ Leftovers = {}
  BY DEF Made3, Leftovers
<1>4. Swept' /\ Honoured'
  <2>1. CASE \E s \in FileStages : GoesTo(s)
    <3>1. passed' = passed
      BY <2>1 DEF GoesTo
    <3>2. AllPassed' = AllPassed
      BY <3>1 DEF AllPassed
    <3> QED BY <1>1, <1>2, <1>3, <3>1, <3>2 DEF Swept, Honoured
  <2>2. CASE Return(FALSE)
    <3>1. ~AllPassed'
      BY <1>1, <2>2, Returned
    <3> QED BY <3>1 DEF Swept, Honoured
  <2>3. CASE Return(TRUE)
    BY <1>2, <2>3 DEF Swept, Honoured
  <2> QED BY <1>1, <2>1, <2>2, <2>3
<1>5. Owned'
  <2>1. CASE Return(TRUE)
    BY <1>2, <2>1 DEF Owned
  <2>2. CASE Return(FALSE) \/ passed' = passed
    BY <1>1, <2>2, OwnedStep
  <2> QED BY <1>1, <2>1, <2>2 DEF GoesTo
<1>6. Survive'
  BY <1>1, <1>2 DEF Survive, SourcesSurvive
<1> QED BY <1>3, <1>4, <1>5, <1>6, Assemble

\* A phase that writes a file of the build and goes on.
LEMMA WritingStep ==
  ASSUME FInv, IInv', Reading', Moves, flags = {}, Elsewhere({Ll, Obj, Bin}),
         NEW s \in {"llc", "gcc", "clean"}, GoesTo(s), Made3', Swept'
  PROVE  FInv'
<1>1. IInv /\ Reading /\ Placed /\ Owned /\ stage \in FileStages /\ UNCHANGED optVars /\ Survive
  BY DEF FInv, Moves
<1>2. passed' = passed /\ stage' \in {"llc", "gcc", "clean"}
  BY DEF GoesTo
<1>3. Honoured'
  BY <1>2 DEF Honoured
<1>4. /\ OneNameEach /\ out = DefaultOut =>
           \A i \in DOMAIN passed :
             fs'[WithExt(inputs[i], "")] = fs[WithExt(inputs[i], "")]
      /\ SourcesApart => \A k \in DOMAIN inputs : fs'[inputs[k]] = fs[inputs[k]]
  BY <1>1, Spared
<1>5. Owned'
  BY <1>1, <1>2, <1>4, OwnedStep
<1>6. Survive'
  BY <1>1, <1>4 DEF Survive, SourcesSurvive, optVars
<1>7. ~Inspecting
  BY DEF Inspecting
<1> QED BY <1>3, <1>5, <1>6, <1>7, Assemble

LEMMA QuietPhases ==
  ASSUME FInv, IInv', Reading',
         \/ \E b \in BOOLEAN : Read(b)
         \/ \E n \in 0 .. 1 : Lex(n) \/ Parse(n) \/ Sema(n)
         \/ GenerateIR
         \/ EmitIR(FALSE)
  PROVE  FInv'
<1>1. fs \in [Path -> Contents] /\ flags \cap Barred(stage) = {} /\ flags \subseteq Flags
  BY DEF FInv, Placed, Reading
<1>2. ASSUME NEW s \in {"read", "lex", "parse", "sema", "irgen", "emit"}, At(s),
             UNCHANGED <<fs, stdout>>,
             \/ \E t \in {"lex", "parse", "sema", "irgen", "emit"} :
                  Go(t) /\ flags \cap Barred(t) = {}
             \/ Return(FALSE)
             \/ Return(TRUE) /\ flags # {}
      PROVE  FInv'
  <2>1. stage \in FileStages /\ UNCHANGED <<optVars, exit>> /\ stage = s
    BY <1>2 DEF At, FileStages, CleanStages
  <2>2. CASE \E t \in {"lex", "parse", "sema", "irgen", "emit"} :
               Go(t) /\ flags \cap Barred(t) = {}
    <3>1. PICK t \in {"lex", "parse", "sema", "irgen", "emit"} :
            Go(t) /\ flags \cap Barred(t) = {}
      BY <2>2
    <3>2. GoesTo(t) /\ t \in FileStages
      BY <3>1 DEF Go, GoesTo, FileStages, CleanStages
    <3>3. Moves
      BY <1>1, <1>2, <2>1, <3>2 DEF Moves
    <3>4. stage' \notin {"llc", "gcc", "clean"} /\ ~Return(TRUE)
      <4>1. stage' = t /\ passed' = passed
        BY <3>1 DEF Go
      <4>2. passed' # Append(passed, TRUE)
        <5>1. passed \in Seq(BOOLEAN)
          BY DEF FInv, IInv
        <5>2. Len(Append(passed, TRUE)) # Len(passed)
          BY <5>1
        <5> QED BY <4>1, <5>2
      <4> QED BY <4>1, <4>2 DEF Return
    <3> QED BY <1>2, <2>1, <3>3, <3>4, QuietStep
  <2>3. CASE Return(FALSE) \/ (Return(TRUE) /\ flags # {})
    <3>1. Moves
      BY <1>1, <1>2, <2>1, <2>3 DEF Moves
    <3>2. stage' \notin {"llc", "gcc", "clean"}
      BY <2>3 DEF Return
    <3>3. Return(TRUE) => flags # {}
      <4>1. ~(Return(TRUE) /\ Return(FALSE))
        <5>1. passed \in Seq(BOOLEAN)
          BY DEF FInv, IInv
        <5>2. \A ok \in BOOLEAN : Append(passed, ok)[Len(passed) + 1] = ok
          BY <5>1
        <5>3. Append(passed, TRUE) # Append(passed, FALSE)
          BY <5>2
        <5> QED BY <5>3 DEF Return
      <4> QED BY <2>3, <4>1
    <3> QED BY <1>2, <2>1, <3>1, <3>2, <3>3, QuietStep
  <2> QED BY <1>2, <2>2, <2>3
<1>3. ASSUME NEW b \in BOOLEAN, Read(b) PROVE FInv'
  <2>1. At("read") /\ UNCHANGED <<fs, stdout>> /\ (Go("lex") \/ Return(FALSE))
    BY <1>3 DEF Read
  <2>2. flags \cap Barred("lex") = {}
    BY DEF Barred
  <2> QED BY <1>2, <2>1, <2>2
<1>4. ASSUME NEW n \in 0 .. 1, Lex(n) PROVE FInv'
  <2>1. At("lex") /\ UNCHANGED <<fs, stdout>>
    BY <1>4 DEF Lex
  <2>2. CASE "tokens" \in flags
    <3>1. Return(errors' = 0)
      BY <1>4, <2>2 DEF Lex
    <3>2. Return(TRUE) \/ Return(FALSE)
      <4>1. CASE errors' = 0
        <5>1. (errors' = 0) = TRUE
          BY <4>1
        <5> QED BY <3>1, <5>1
      <4>2. CASE errors' # 0
        <5>1. (errors' = 0) = FALSE
          BY <4>2
        <5> QED BY <3>1, <5>1
      <4> QED BY <4>1, <4>2
    <3> QED BY <1>2, <2>1, <2>2, <3>2
  <2>3. CASE "tokens" \notin flags
    <3>1. Return(FALSE) \/ Go("parse")
      BY <1>4, <2>3 DEF Lex
    <3>2. flags \cap Barred("parse") = {}
      BY <2>3 DEF Barred
    <3> QED BY <1>2, <2>1, <3>1, <3>2
  <2> QED BY <2>2, <2>3
<1>5. ASSUME NEW n \in 0 .. 1, Parse(n) PROVE FInv'
  <2>1. /\ At("parse") /\ UNCHANGED <<fs, stdout>>
        /\ Return(FALSE) \/ (Return(TRUE) /\ "ast" \in flags) \/ (Go("sema") /\ "ast" \notin flags)
    BY <1>5 DEF Parse
  <2>2. "ast" \notin flags => flags \cap Barred("sema") = {}
    <3>1. "tokens" \notin flags
      BY <1>1, <2>1 DEF At, Barred
    <3> QED BY <3>1 DEF Barred
  <2> QED BY <1>2, <2>1, <2>2
<1>6. ASSUME NEW n \in 0 .. 1, Sema(n) PROVE FInv'
  <2>1. /\ At("sema") /\ UNCHANGED <<fs, stdout>>
        /\ \/ Return(FALSE)
           \/ Return(TRUE) /\ "nocodegen" \in flags
           \/ Go("irgen") /\ "nocodegen" \notin flags
    BY <1>6 DEF Sema
  <2>2. "nocodegen" \notin flags => flags \cap Barred("irgen") = {}
    <3>1. "tokens" \notin flags /\ "ast" \notin flags
      BY <1>1, <2>1 DEF At, Barred
    <3> QED BY <3>1 DEF Barred
  <2> QED BY <1>2, <2>1, <2>2
<1>7. CASE GenerateIR
  <2>1. /\ At("irgen") /\ UNCHANGED <<fs, stdout>>
        /\ (Return(TRUE) /\ "ir" \in flags) \/ (Go("emit") /\ "ir" \notin flags)
    BY <1>7 DEF GenerateIR
  <2>2. "ir" \notin flags => flags \cap Barred("emit") = {}
    <3>1. flags \cap {"tokens", "ast", "nocodegen"} = {}
      BY <1>1, <2>1 DEF At, Barred
    <3> QED BY <3>1 DEF Barred
  <2> QED BY <1>2, <2>1, <2>2
<1>8. CASE EmitIR(FALSE)
  <2>1. At("emit") /\ UNCHANGED <<fs, stdout>> /\ Return(FALSE)
    BY <1>8 DEF EmitIR
  <2> QED BY <1>2, <2>1
<1> QED BY <1>3, <1>4, <1>5, <1>6, <1>7, <1>8

\* --emit-llvm: the module is the output, and the file is done with.
LEMMA EmitLlvmStep ==
  ASSUME FInv, IInv', Reading', EmitIR(TRUE), "emit" \in flags
  PROVE  FInv'
<1> DEFINE p == resolveOutputPath
<1>1. /\ At("emit") /\ fs' = [fs EXCEPT ![p] = Made("ir", Cur)] /\ Return(TRUE)
  BY DEF EmitIR
<1>2. /\ fs \in [Path -> Contents] /\ stage \in FileStages /\ stage = "emit"
      /\ UNCHANGED <<optVars, exit>> /\ IInv /\ Reading /\ Placed /\ Survive
  BY <1>1 DEF FInv, Placed, At, FileStages, CleanStages
<1>3. Cur \in Path /\ p \in Path /\ p[3] = "ll"
  BY <1>2, Places
<1>4. Made("ir", Cur) \in Contents
  BY <1>3, Things
<1> HIDE DEF p
<1>5. fs' \in [Path -> Contents] /\ \A q \in Path : q # p => fs'[q] = fs[q]
  BY <1>1, <1>2, <1>3, <1>4
<1>6. Moves
  BY <1>1, <1>2, <1>5 DEF Moves
<1>7. stage' \in {"read", "report"}
  BY <1>1 DEF Return
<1>8. Made3' /\ Swept' /\ Honoured' /\ Owned'
  BY <1>2, <1>7 DEF Made3, Swept, Honoured, Owned, optVars
<1>9. Survive'
  <2> SUFFICES ASSUME SourcesApart, NEW k \in DOMAIN inputs PROVE fs'[inputs[k]] = fs[inputs[k]]
    BY <1>2 DEF Survive, SourcesSurvive, optVars
  <2>1. inputs[k] \in Path /\ inputs[k][3] \notin {"", "ll", "o"}
    <3>1. inputs \in Seq(Path) /\ Apart(inputs, out)
      BY <1>2 DEF Reading
    <3>2. inputs[k] \in Path
      BY <3>1
    <3> QED BY <3>1, <3>2 DEF Apart
  <2> QED BY <1>3, <1>5, <2>1
<1>10. ~Inspecting
  BY <1>2 DEF Inspecting, Placed, Barred
<1> QED BY <1>6, <1>8, <1>9, <1>10, Assemble

LEMMA EmitStep ==
  ASSUME FInv, IInv', Reading', EmitIR(TRUE), "emit" \notin flags
  PROVE  FInv'
<1>1. At("emit") /\ fs' = [fs EXCEPT ![Ll] = Made("ir", Cur)] /\ Go("llc")
  BY DEF EmitIR, Ll, Bin
<1>2. /\ fs \in [Path -> Contents] /\ stage \in FileStages /\ stage = "emit"
      /\ UNCHANGED <<optVars, exit>> /\ IInv /\ Reading /\ Placed /\ Swept
      /\ passed' = passed /\ stage' = "llc"
  BY <1>1 DEF FInv, Placed, At, Go, FileStages, CleanStages
<1>3. Cur \in Path /\ Ll \in Path
  BY <1>2, Places
<1>4. Made("ir", Cur) \in Contents
  BY <1>3, Things
<1>5. /\ fs' \in [Path -> Contents] /\ fs'[Ll] = Made("ir", Cur)
      /\ \A q \in Path : q # Ll => fs'[q] = fs[q]
  BY <1>1, <1>2, <1>3, <1>4
<1>6. flags = {} /\ flags' = {}
  BY <1>2 DEF Placed, Barred, Reading, Flags, optVars
<1>7. GoesTo("llc")
  BY <1>2, <1>6 DEF GoesTo, FileStages, CleanStages
<1>8. Moves
  BY <1>2, <1>5, <1>7 DEF Moves, GoesTo
<1>9. Cur' = Cur /\ Bin' = Bin /\ Ll' = Ll /\ Obj' = Obj /\ AllPassed' = AllPassed
  BY <1>2, SamePaths DEF AllPassed
<1>10. Made3'
  BY <1>2, <1>5, <1>9 DEF Made3
<1>11. Swept'
  <2>1. Leftovers' = {Ll} /\ Leftovers = {}
    BY <1>2, <1>9 DEF Leftovers
  <2> QED BY <1>2, <1>5, <1>6, <1>9, <2>1 DEF Swept
<1>12. Elsewhere({Ll, Obj, Bin})
  BY <1>5 DEF Elsewhere
<1> QED BY <1>6, <1>7, <1>8, <1>10, <1>11, <1>12, WritingStep

LEMMA LlcStep ==
  ASSUME FInv, IInv', Reading', NEW ok \in BOOLEAN, Llc(ok)
  PROVE  FInv'
<1>1. /\ At("llc") /\ stage = "llc"
      /\ ok => fs' = [fs EXCEPT ![Obj] = Made("obj", fs[Ll][2])] /\ Go("gcc")
      /\ ~ok => fs' \in {fs, [fs EXCEPT ![Obj] = Absent]} /\ Return(FALSE)
  BY DEF Llc, Ll, Bin, Obj, At
<1>2. /\ fs \in [Path -> Contents] /\ stage \in FileStages
      /\ UNCHANGED <<optVars, exit>> /\ IInv /\ Reading /\ Placed /\ Swept
      /\ fs[Ll] = Made("ir", Cur)
  BY <1>1 DEF FInv, Placed, At, Made3, FileStages, CleanStages
<1>3. Cur \in Path /\ Ll \in Path /\ Obj \in Path /\ Ll # Obj
  BY <1>2, Places
<1>4. Made("obj", Cur) \in Contents /\ Absent \in Contents /\ fs[Ll][2] = Cur
  BY <1>2, <1>3, Things
<1>5. fs' \in [Path -> Contents] /\ \A q \in Path : q # Obj => fs'[q] = fs[q]
  BY <1>1, <1>2, <1>3, <1>4
<1>6. flags = {} /\ flags' = {}
  BY <1>1, <1>2 DEF Placed, Barred, Reading, Flags, optVars
<1>7. Elsewhere({Ll, Obj, Bin})
  BY <1>5 DEF Elsewhere
<1>8. CASE ~ok
  <2>1. Moves
    BY <1>1, <1>2, <1>5, <1>8 DEF Moves
  <2> QED BY <1>1, <1>6, <1>7, <1>8, <2>1, FailedStep
<1>9. CASE ok
  <2>1. fs'[Obj] = Made("obj", Cur) /\ passed' = passed /\ stage' = "gcc"
    BY <1>1, <1>2, <1>3, <1>4, <1>9 DEF Go
  <2>2. GoesTo("gcc")
    BY <1>6, <2>1 DEF GoesTo, FileStages, CleanStages
  <2>3. Moves
    BY <1>2, <1>5, <2>2 DEF Moves, GoesTo
  <2>4. Cur' = Cur /\ Bin' = Bin /\ Ll' = Ll /\ Obj' = Obj /\ AllPassed' = AllPassed
    BY <1>2, <2>1, SamePaths DEF AllPassed
  <2>5. Made3'
    BY <2>1, <2>4 DEF Made3
  <2>6. Swept'
    <3>1. Leftovers' = {Ll, Obj} /\ Leftovers = {Ll}
      BY <1>1, <2>1, <2>4 DEF Leftovers
    <3> QED BY <1>2, <1>5, <1>6, <2>4, <3>1 DEF Swept
  <2> QED BY <1>6, <1>7, <2>2, <2>3, <2>5, <2>6, WritingStep
<1> QED BY <1>8, <1>9

LEMMA GccStep ==
  ASSUME FInv, IInv', Reading', NEW ok \in BOOLEAN, Gcc(ok)
  PROVE  FInv'
<1>1. /\ At("gcc") /\ stage = "gcc"
      /\ ok => fs' = [fs EXCEPT ![Bin] = Made("bin", fs[Obj][2])] /\ Go("clean") /\ Bin # Obj
      /\ ~ok => fs' \in {fs, [fs EXCEPT ![Bin] = Absent]} /\ Return(FALSE)
  BY DEF Gcc, Bin, Obj, At
<1>2. /\ fs \in [Path -> Contents] /\ stage \in FileStages
      /\ UNCHANGED <<optVars, exit>> /\ IInv /\ Reading /\ Placed /\ Swept
      /\ fs[Obj] = Made("obj", Cur)
  BY <1>1 DEF FInv, Placed, At, Made3, FileStages, CleanStages
<1>3. Cur \in Path /\ Bin \in Path
  BY <1>2, Places
<1>4. /\ Made("bin", Cur) \in Contents /\ Absent \in Contents /\ fs[Obj][2] = Cur
      /\ Made("bin", Cur)[1] = "bin"
  BY <1>2, <1>3, Things
<1>5. fs' \in [Path -> Contents] /\ \A q \in Path : q # Bin => fs'[q] = fs[q]
  BY <1>1, <1>2, <1>3, <1>4
<1>6. flags = {} /\ flags' = {}
  BY <1>1, <1>2 DEF Placed, Barred, Reading, Flags, optVars
<1>7. Elsewhere({Ll, Obj, Bin})
  BY <1>5 DEF Elsewhere
<1>8. CASE ~ok
  <2>1. Moves
    BY <1>1, <1>2, <1>5, <1>8 DEF Moves
  <2> QED BY <1>1, <1>6, <1>7, <1>8, <2>1, FailedStep
<1>9. CASE ok
  <2>1. fs'[Bin] = Made("bin", Cur) /\ passed' = passed /\ stage' = "clean" /\ Bin # Obj
    BY <1>1, <1>2, <1>3, <1>4, <1>9 DEF Go
  <2>2. GoesTo("clean")
    BY <1>6, <2>1 DEF GoesTo, FileStages, CleanStages
  <2>3. Moves
    BY <1>2, <1>5, <2>2 DEF Moves, GoesTo
  <2>4. Cur' = Cur /\ Bin' = Bin /\ Ll' = Ll /\ Obj' = Obj /\ AllPassed' = AllPassed
    BY <1>2, <2>1, SamePaths DEF AllPassed
  <2>5. Made3'
    BY <2>1, <2>4 DEF Made3
  <2>6. Swept'
    <3>1. Leftovers' = {Ll, Obj} /\ Leftovers = {Ll, Obj}
      BY <1>1, <2>1, <2>4 DEF Leftovers
    <3> QED BY <1>2, <1>4, <1>5, <1>6, <2>1, <2>4, <3>1 DEF Swept
  <2> QED BY <1>6, <1>7, <2>2, <2>3, <2>5, <2>6, WritingStep
<1> QED BY <1>8, <1>9

LEMMA CleanStep ==
  ASSUME FInv, IInv', Reading', CleanUp
  PROVE  FInv'
<1>1. /\ At("clean") /\ stage = "clean" /\ Return(TRUE)
      /\ fs' = [fs EXCEPT ![Ll] = Absent, ![Obj] = Absent]
  BY DEF CleanUp, Bin, Ll, Obj, At
<1>2. /\ fs \in [Path -> Contents] /\ stage \in FileStages
      /\ UNCHANGED <<optVars, exit>> /\ IInv /\ Reading /\ Placed /\ Swept /\ Owned /\ Survive
      /\ fs[Bin] = Made("bin", Cur) /\ Bin # Obj
  BY <1>1 DEF FInv, Placed, At, Made3, FileStages, CleanStages
<1>3. /\ Cur \in Path /\ Bin \in Path /\ Ll \in Path /\ Obj \in Path /\ Ll # Obj /\ Ll[3] = "ll"
      /\ out # DefaultOut => Bin = out
      /\ out = DefaultOut => Bin[3] = "" /\ Bin = <<".", Cur[2], "">>
  BY <1>2, Places
<1>4. /\ Absent \in Contents /\ Absent[1] = "absent" /\ Made("bin", Cur)[1] = "bin"
  BY <1>3, Things
<1>5. /\ fs' \in [Path -> Contents] /\ fs'[Ll] = Absent /\ fs'[Obj] = Absent
      /\ \A q \in Path : q # Ll /\ q # Obj => fs'[q] = fs[q]
  BY <1>1, <1>2, <1>3, <1>4
<1>6. flags = {} /\ flags' = {} /\ out' = out /\ inputs' = inputs
  BY <1>1, <1>2 DEF Placed, Barred, Reading, Flags, optVars
<1>7. Moves
  BY <1>1, <1>2, <1>5 DEF Moves
<1>8. /\ stage' \in {"read", "report"} /\ (AllPassed' => AllPassed)
  BY <1>1, <1>2, Returned
<1>9. Made3' /\ Leftovers' = {} /\ Leftovers = {Ll, Obj}
  BY <1>1, <1>8 DEF Made3, Leftovers
<1>10. Swept'
  <2>1. ASSUME AllPassed', NEW p \in Path PROVE fs'[p][1] \notin {"ir", "obj"}
    <3>1. fs[p][1] \in {"ir", "obj"} => p \in {Ll, Obj}
      BY <1>2, <1>6, <1>8, <1>9, <2>1 DEF Swept
    <3>2. CASE p \in {Ll, Obj}
      BY <1>4, <1>5, <3>2
    <3>3. CASE p \notin {Ll, Obj}
      BY <1>5, <3>1, <3>3
    <3> QED BY <3>2, <3>3
  <2> QED BY <2>1 DEF Swept
<1>11. Honoured'
  <2>1. ASSUME OutputsApart, out # DefaultOut PROVE fs'[out][1] = "bin"
    <3>1. out[3] # "ll"
      BY <1>1, <1>2, <1>6, <2>1, ListedOutput
    <3>2. fs'[Bin] = fs[Bin] /\ Bin = out
      BY <1>2, <1>3, <1>5, <2>1, <3>1
    <3> QED BY <1>2, <1>4, <3>2
  <2> QED BY <1>6, <2>1 DEF Honoured
<1>12. Elsewhere({Ll, Obj, Bin})
  BY <1>5 DEF Elsewhere
<1>13. /\ OneNameEach /\ out = DefaultOut =>
            \A i \in DOMAIN passed :
              fs'[WithExt(inputs[i], "")] = fs[WithExt(inputs[i], "")]
       /\ SourcesApart => \A k \in DOMAIN inputs : fs'[inputs[k]] = fs[inputs[k]]
  BY <1>2, <1>12, Spared
<1>14. Owned'
  <2>1. ASSUME OneNameEach, out = DefaultOut PROVE fs'[WithExt(Cur, "")] = Made("bin", Cur)
    <3>1. Cur[1] = "."
      BY <1>2, <2>1, Places DEF Reading, Apart, Cur
    <3>2. WithExt(Cur, "") = Bin
      BY <1>3, <2>1, <3>1 DEF WithExt
    <3>3. fs'[Bin] = fs[Bin]
      BY <1>2, <1>3, <1>5, <2>1
    <3> QED BY <1>2, <3>2, <3>3
  <2> QED BY <1>1, <1>2, <1>13, <2>1, OwnedStep
<1>15. Survive'
  BY <1>2, <1>13 DEF Survive, SourcesSurvive, optVars
<1>16. ~Inspecting
  BY <1>6 DEF Inspecting
<1> QED BY <1>7, <1>9, <1>10, <1>11, <1>14, <1>15, <1>16, Assemble

LEMMA NextFInv == FInv /\ [Next]_vars => FInv'
<1> SUFFICES ASSUME FInv, [Next]_vars PROVE FInv'
  OBVIOUS
<1>1. IInv /\ Reading
  BY DEF FInv
<1>2. IInv' /\ Reading'
  BY <1>1, NextIInv, ReadingStep
<1>3. CASE ReadArg \/ Start
  BY <1>2, <1>3, MainStep
<1>4. CASE Report \/ UNCHANGED vars
  BY <1>2, <1>4, EndStep
<1>5. ASSUME NEW b \in BOOLEAN, EmitIR(b) PROVE FInv'
  <2>1. EmitIR(TRUE) \/ EmitIR(FALSE)
    BY <1>5
  <2> QED BY <1>2, <2>1, EmitStep, EmitLlvmStep, QuietPhases
<1>6. CASE \/ \E b \in BOOLEAN : Read(b)
           \/ \E n \in 0 .. 1 : Lex(n) \/ Parse(n) \/ Sema(n)
           \/ GenerateIR
  BY <1>2, <1>6, QuietPhases
<1>7. CASE \E b \in BOOLEAN : Llc(b) \/ Gcc(b)
  BY <1>2, <1>7, LlcStep, GccStep
<1>8. CASE CleanUp
  BY <1>2, <1>8, CleanStep
<1> QED BY <1>3, <1>4, <1>5, <1>6, <1>7, <1>8 DEF Next, Terminated

LEMMA FilesInvariant == Spec => []FInv
BY InitFInv, NextFInv, PTL DEF Spec

-----------------------------------------------------------------------------
\* At no time is a source file written to or removed.
THEOREM SourcesKept == SourcesApart => (Spec => []SourcesSurvive)
<1> SUFFICES ASSUME SourcesApart PROVE Spec => []SourcesSurvive
  OBVIOUS
<1>1. FInv => SourcesSurvive
  BY DEF FInv, Survive
<1> QED BY <1>1, FilesInvariant, PTL

\* Without -o, each file that has passed keeps the binary that was made of it.
THEOREM EveryBinaryOwn == OneNameEach => (Spec => []OwnBinary)
<1> SUFFICES ASSUME OneNameEach PROVE Spec => []OwnBinary
  OBVIOUS
<1>1. FInv => OwnBinary
  <2> SUFFICES ASSUME FInv, flags = {}, Asked = {}
               PROVE  \A i \in DOMAIN passed :
                        passed[i] => fs[WithExt(inputs[i], "")] = Made("bin", inputs[i])
    BY DEF OwnBinary, Building
  <2>1. Names = {}
    BY DEF Asked, Names
  <2>2. out = DefaultOut
    BY <2>1 DEF FInv, Reading
  <2> QED BY <2>2 DEF FInv, Owned
<1> QED BY <1>1, FilesInvariant, PTL

\* An inspection writes nothing, a successful build leaves no intermediate
\* file, and what the last -o asked for is there.
THEOREM OutputsKept == OutputsApart => (Spec => []OutputsAsAsked)
<1> SUFFICES ASSUME OutputsApart PROVE Spec => []OutputsAsAsked
  OBVIOUS
<1>1. FInv => InspectionWritesNothing
  BY DEF FInv, InspectionWritesNothing, Clean
<1>2. ASSUME FInv, Building, exit = 0
      PROVE  stage = "exit" /\ AllPassed /\ flags = {} /\ passed # <<>> /\ Len(argv) < pos
  <2>1. flags = {} /\ passed # <<>>
    BY <1>2 DEF Building
  <2>2. stage = "exit"
    BY <1>2 DEF FInv, IInv, Running
  <2>3. AllPassed
    BY <1>2, <2>1, <2>2 DEF FInv, Ended
  <2>4. pos > Len(argv)
    BY <1>2, <2>1, <2>2 DEF FInv, Reading
  <2>5. pos \in Nat /\ Len(argv) \in Nat
    BY <1>2, Lengths DEF FInv, Reading
  <2> QED BY <2>1, <2>2, <2>3, <2>4, <2>5
<1>3. FInv => NoLeftovers
  <2> SUFFICES ASSUME FInv, Building, exit = 0, NEW p \in Path
               PROVE  fs[p][1] \notin {"ir", "obj"}
    BY DEF NoLeftovers
  <2>1. Leftovers = {}
    BY <1>2 DEF Leftovers
  <2> QED BY <1>2, <2>1 DEF FInv, Swept
<1>4. FInv => OutputHonoured
  <2> SUFFICES ASSUME FInv, Building, exit = 0, NEW p \in Asked PROVE fs[p][1] = "bin"
    BY DEF OutputHonoured
  <2>1. /\ stage = "exit" /\ AllPassed /\ flags = {} /\ passed # <<>>
        /\ Reading /\ argv \in Argvs /\ pos \in Nat /\ \A i \in DOMAIN argv : i < pos
    <3>1. Reading /\ argv \in Argvs /\ pos \in Nat
      BY DEF FInv, Reading
    <3> QED BY <1>2, <3>1, Lengths
  <2>2. NamesKept(argv)
    <3>1. ~FlagGiven(argv)
      BY <2>1 DEF FlagGiven, Reading
    <3> QED BY <2>1, <3>1 DEF OutputsApart
  <2>3. Names # {} /\ Names \subseteq DOMAIN argv
    BY DEF Asked, Names
  <2>4. PICK i \in Names : LastName(i, pos) /\ out = Operand(i) /\ out # DefaultOut
    <3>1. ~ \A i \in Names : i >= pos
      BY <2>1, <2>3, Argument
    <3> QED BY <2>1, <2>2, <3>1 DEF Reading
  <2>5. \A j \in Names : j \in Nat /\ j <= i
    BY <2>1, <2>3, <2>4, Argument DEF LastName
  <2> DEFINE last == CHOOSE k \in Names : \A j \in Names : j <= k
  <2>6. last \in Names /\ \A j \in Names : j <= last
    BY <2>5
  <2>7. last = i
    BY <2>5, <2>6
  <2>8. p = Operand(last)
    BY DEF Asked, Names, Operand
  <2> QED BY <2>1, <2>4, <2>7, <2>8 DEF FInv, Honoured
<1>5. FInv => OutputsAsAsked
  BY <1>1, <1>3, <1>4 DEF OutputsAsAsked
<1> QED BY <1>5, FilesInvariant, PTL
=============================================================================
