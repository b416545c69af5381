------------------------------- MODULE Driver -------------------------------
(***************************************************************************)
(* The compiler driver: option parsing (src/driver/main.cpp), the loop     *)
(* over the input files and the phases of one file                         *)
(* (src/driver/Compiler.cpp), the error count of the diagnostics that all  *)
(* files share (src/common/Diagnostics.cpp) and the files that the phases  *)
(* read and write.                                                         *)
(*                                                                         *)
(* What a phase finds in a source text, and whether llc and gcc succeed,   *)
(* is chosen by the environment.  A path is a directory, a stem and an     *)
(* extension; the working directory is ".".                                *)
(***************************************************************************)
EXTENDS Integers, Sequences, FiniteSets

CONSTANTS
  Dirs,      \* directories, with "."
  Stems,     \* file names without extension
  Exts,      \* extensions, with "", "v", "ll", "o" and "out"
  Argvs      \* the command lines: sequences of arguments

Path == Dirs \X Stems \X Exts

\* An argument is a flag, a file name, -o alone, -ofile, help (or version),
\* or an option that main does not know.  path is its text as a path, which
\* matters when it follows -o.
Flags   == {"tokens", "ast", "ir", "emit", "nocodegen"}
ArgKind == Flags \cup {"file", "-o", "-ofile", "help", "unknown"}
Arg     == [kind : ArgKind, path : Path]

ASSUME PathAssumption ==
  /\ "." \in Dirs /\ {"a", "output"} \subseteq Stems
  /\ {"", "v", "ll", "o", "out"} \subseteq Exts
ASSUME ArgvAssumption == Argvs \subseteq Seq(Arg)

VARIABLES
  argv,      \* the arguments
  pos,       \* position of the argument that main reads next
  flags,     \* options set so far
  out,       \* opts.outputFile
  inputs,    \* opts.inputFiles
  stage,     \* what the process does next
  passed,    \* the results of compileFile so far, one per file
  errors,    \* errorCount_
  fs,        \* path -> contents
  stdout,    \* the "built" and "wrote" messages, with their path
  exit       \* exit code, or Running

optVars == <<argv, pos, flags, out, inputs>>
vars    == <<argv, pos, flags, out, inputs, stage, passed, errors, fs, stdout, exit>>

Running == -1
Absent  == <<"absent">>
Source(p)     == <<"source", p>>
Made(kind, p) == <<kind, p>>           \* kind "ir", "obj" or "bin", made from p
Artefact      == {"ir", "obj", "bin"} \X Path

DefaultOut == <<".", "a", "out">>      \* the sentinel for "no -o given"
WithExt(p, e) == <<p[1], p[2], e>>     \* replace_extension

Cur == inputs[Len(passed) + 1]
\* Mutations of resolveBinaryPath: -o is ignored; every binary is a.out; the
\* extension of the source is kept.
BinaryWithoutO(src)   == <<".", src[2], "">>
BinaryFixed(src)      == out
BinaryLikeSource(src) == IF out # DefaultOut THEN out ELSE src
\* resolveBinaryPath: the stem alone, or whatever -o said.
resolveBinaryPath(src) == IF out # DefaultOut THEN out ELSE <<".", src[2], "">>
\* resolveOutputPath, for --emit-llvm
resolveOutputPath ==
  IF out # DefaultOut /\ out[3] = "ll" THEN out ELSE <<".", "output", "ll">>

Init ==
  /\ argv \in Argvs
  /\ pos = 1 /\ flags = {} /\ out = DefaultOut /\ inputs = <<>>
  /\ stage = "args" /\ passed = <<>> /\ errors = 0
  /\ fs = [p \in Path |->
             IF [kind |-> "file", path |-> p] \in {argv[i] : i \in DOMAIN argv}
             THEN Source(p) ELSE Absent]
  /\ stdout = <<>> /\ exit = Running

(***************************************************************************)
(* main: one argument at a time, then Compiler::run.                       *)
(***************************************************************************)
Quit(code) == stage' = "exit" /\ exit' = code

\* Mutation of Skip: the argument is not passed over.
SkipNone(n) == UNCHANGED <<pos, argv, stage, exit>>
Skip(n) == pos' = pos + n /\ UNCHANGED <<argv, stage, exit>>

ReadArg ==
  /\ stage = "args" /\ pos <= Len(argv)
  /\ LET a == argv[pos]
     IN  \/ /\ a.kind \in Flags
            /\ flags' = flags \cup {a.kind} /\ Skip(1)
            /\ UNCHANGED <<out, inputs>>
         \/ /\ a.kind = "file"
            /\ inputs' = Append(inputs, a.path) /\ Skip(1)
            /\ UNCHANGED <<flags, out>>
         \/ /\ a.kind = "-ofile"
            /\ out' = a.path /\ Skip(1)
            /\ UNCHANGED <<flags, inputs>>
         \/ /\ a.kind = "-o" /\ pos < Len(argv)
            /\ out' = argv[pos + 1].path /\ Skip(2)
            /\ UNCHANGED <<flags, inputs>>
         \/ /\ a.kind = "-o" /\ pos = Len(argv)
            /\ Quit(1) /\ UNCHANGED optVars
         \/ a.kind = "unknown" /\ Quit(1) /\ UNCHANGED optVars
         \/ a.kind = "help" /\ Quit(0) /\ UNCHANGED optVars
  /\ UNCHANGED <<passed, errors, fs, stdout>>

Start ==
  /\ stage = "args" /\ pos > Len(argv)
  /\ IF inputs = <<>> THEN Quit(1) ELSE stage' = "read" /\ UNCHANGED exit
  /\ UNCHANGED <<optVars, passed, errors, fs, stdout>>

(***************************************************************************)
(* compileFile returns: the loop of run goes on whatever the result was.   *)
(***************************************************************************)
Return(ok) ==
  /\ passed' = Append(passed, ok)
  /\ stage' = IF Len(passed') = Len(inputs) THEN "report" ELSE "read"

At(s) == stage = s /\ UNCHANGED <<optVars, exit>>
Go(s) == stage' = s /\ UNCHANGED passed

\* Stage 1.  A file that is missing or unreadable is a fatal diagnostic.
Read(readable) ==
  /\ At("read")
  /\ readable => fs[Cur] # Absent
  /\ IF readable THEN Go("lex") /\ UNCHANGED errors
                 ELSE errors' = errors + 1 /\ Return(FALSE)
  /\ UNCHANGED <<fs, stdout>>

\* Stage 2.  found: the number of errors in this file's tokens.
Lex(found) ==
  /\ At("lex")
  /\ errors' = errors + found
  /\ IF "tokens" \in flags THEN Return(errors' = 0)
     ELSE IF errors' > 0 THEN Return(FALSE) ELSE Go("parse")
  /\ UNCHANGED <<fs, stdout>>

\* Stage 3
Parse(found) ==
  /\ At("parse")
  /\ errors' = errors + found
  /\ IF errors' > 0 THEN Return(FALSE)
     ELSE IF "ast" \in flags THEN Return(TRUE) ELSE Go("sema")
  /\ UNCHANGED <<fs, stdout>>

\* Mutation of Sema: what analyze returns is not looked at.
SemaUnchecked(found) ==
  /\ At("sema")
  /\ errors' = errors + found
  /\ IF "nocodegen" \in flags THEN Return(TRUE) ELSE Go("irgen")
  /\ UNCHANGED <<fs, stdout>>

\* Stage 4: analyze compares the error count with what it was before.
Sema(found) ==
  /\ At("sema")
  /\ errors' = errors + found
  /\ IF errors' # errors THEN Return(FALSE)
     ELSE IF "nocodegen" \in flags THEN Return(TRUE) ELSE Go("irgen")
  /\ UNCHANGED <<fs, stdout>>

\* Mutation of GenerateIR: --ir does not stop the compilation.
GenerateIRGoesOn ==
  At("irgen") /\ Go("emit") /\ UNCHANGED <<errors, fs, stdout>>

\* Stage 5
GenerateIR ==
  /\ At("irgen")
  /\ IF "ir" \in flags THEN Return(TRUE) ELSE Go("emit")
  /\ UNCHANGED <<errors, fs, stdout>>

\* Stage 6, emitIR: the verifier rejects the module, or the file cannot be
\* opened, and compileFile fails without a diagnostic.
EmitIR(written) ==
  /\ At("emit")
  /\ LET p == IF "emit" \in flags THEN resolveOutputPath
              ELSE WithExt(resolveBinaryPath(Cur), "ll")
     IN  /\ fs' = IF written THEN [fs EXCEPT ![p] = Made("ir", Cur)] ELSE fs
         /\ stdout' = IF written /\ "emit" \in flags
                      THEN Append(stdout, <<"wrote", p>>) ELSE stdout
  /\ IF ~written THEN Return(FALSE)
     ELSE IF "emit" \in flags THEN Return(TRUE) ELSE Go("llc")
  /\ UNCHANGED errors

\* llc, external: reads .ll, writes .o.  When it fails it leaves the .o that
\* was there, or none.
Llc(ok) ==
  /\ At("llc")
  /\ LET ll  == WithExt(resolveBinaryPath(Cur), "ll")
         obj == WithExt(resolveBinaryPath(Cur), "o")
     IN  IF ok THEN fs' = [fs EXCEPT ![obj] = Made("obj", fs[ll][2])]
               ELSE fs' \in {fs, [fs EXCEPT ![obj] = Absent]}
  /\ IF ok THEN Go("gcc") /\ UNCHANGED errors
           ELSE errors' = errors + 1 /\ Return(FALSE)
  /\ UNCHANGED stdout

\* gcc, external: refuses to write over its input; when it fails it leaves
\* the output that was there, or none.
Gcc(ok) ==
  /\ At("gcc")
  /\ LET bin == resolveBinaryPath(Cur)
         obj == WithExt(bin, "o")
     IN  /\ ok => bin # obj
         /\ IF ok THEN fs' = [fs EXCEPT ![bin] = Made("bin", fs[obj][2])]
                  ELSE fs' \in {fs, [fs EXCEPT ![bin] = Absent]}
  /\ IF ok THEN Go("clean") /\ UNCHANGED errors
           ELSE errors' = errors + 1 /\ Return(FALSE)
  /\ UNCHANGED stdout

\* Mutation of CleanUp: only the .ll file is removed.
CleanUpHalf ==
  /\ At("clean")
  /\ LET bin == resolveBinaryPath(Cur)
     IN  /\ fs' = [fs EXCEPT ![WithExt(bin, "ll")] = Absent]
         /\ stdout' = Append(stdout, <<"built", bin>>)
  /\ Return(TRUE)
  /\ UNCHANGED errors

\* The intermediate files are removed and the build is reported.
CleanUp ==
  /\ At("clean")
  /\ LET bin == resolveBinaryPath(Cur)
     IN  /\ fs' = [fs EXCEPT ![WithExt(bin, "ll")] = Absent, ![WithExt(bin, "o")] = Absent]
         /\ stdout' = Append(stdout, <<"built", bin>>)
  /\ Return(TRUE)
  /\ UNCHANGED errors

\* Mutation of Report: the last result counts.
ReportLast ==
  /\ stage = "report"
  /\ Quit(IF passed[Len(passed)] THEN 0 ELSE 1)
  /\ UNCHANGED <<optVars, passed, errors, fs, stdout>>

\* The rest of run: diagnostics are printed, and the exit code.
Report ==
  /\ stage = "report"
  /\ Quit(IF \A i \in DOMAIN passed : passed[i] THEN 0 ELSE 1)
  /\ UNCHANGED <<optVars, passed, errors, fs, stdout>>

Terminated == stage = "exit" /\ UNCHANGED vars

Next ==
  \/ ReadArg \/ Start
  \/ \E readable \in BOOLEAN : Read(readable)
  \/ \E found \in 0 .. 1 : Lex(found)
  \/ \E found \in 0 .. 1 : Parse(found)
  \/ \E found \in 0 .. 1 : Sema(found)
  \/ GenerateIR
  \/ \E written \in BOOLEAN : EmitIR(written)
  \/ \E ok \in BOOLEAN : Llc(ok)
  \/ \E ok \in BOOLEAN : Gcc(ok)
  \/ CleanUp
  \/ Report
  \/ Terminated

\* Every phase returns: the process takes its next step as long as it has one.
Spec == Init /\ [][Next]_vars /\ WF_vars(Next)

-----------------------------------------------------------------------------
(***************************************************************************)
(* The driver keeps what Batch promises: exit code 0 says that every file  *)
(* passed, although files are compiled after one that failed, and no file  *)
(* passes once any error is on record, in whatever mode and whichever      *)
(* phase found it (the counter is shared by all files and never reset).    *)
(***************************************************************************)
B == INSTANCE Batch WITH verdicts <- passed, poisoned <- errors > 0
ImplementsBatch == B!Spec

(***************************************************************************)
(* "Each phase aborts early if diagnostics contain errors" (Compiler.h):   *)
(* once an error is on record nothing more is written, removed or reported *)
(* as built, for this file or any later one.                               *)
(***************************************************************************)
NoOutputAfterError == [][errors > 0 => UNCHANGED <<fs, stdout>>]_vars

(***************************************************************************)
(* The options that stop early (--tokens, --ast, --ir, --no-codegen) win   *)
(* over every other one: nothing is written and nothing reported.          *)
(***************************************************************************)
Inspecting == flags \cap {"tokens", "ast", "ir", "nocodegen"} # {}
InspectionWritesNothing ==
  Inspecting /\ stage # "args" => stdout = <<>> /\ \A p \in Path : fs[p] \notin Artefact

Building == flags = {} /\ passed # <<>>

(***************************************************************************)
(* "-o <file>  Output file path" (main.cpp:24): when a build with -o has   *)
(* succeeded, there is a binary at the path that was asked for (by the     *)
(* last -o), after the intermediate files beside it have been removed.     *)
(***************************************************************************)
Asked ==
  LET at == {i \in DOMAIN argv : argv[i].kind \in {"-o", "-ofile"}}
      last == CHOOSE i \in at : \A j \in at : j <= i
  IN  IF at = {} THEN {}
      ELSE {IF argv[last].kind = "-o" THEN argv[last + 1].path ELSE argv[last].path}
OutputHonoured ==
  Building /\ exit = 0 => \A p \in Asked : fs[p][1] = "bin"

(***************************************************************************)
(* "test.v -> test (same directory)" (Compiler.cpp:79): without -o every   *)
(* file that passed has its own binary beside it, from then on: no later   *)
(* file, whatever becomes of it, overwrites or removes it.                 *)
(***************************************************************************)
OwnBinary ==
  Building /\ Asked = {} =>
    \A i \in DOMAIN passed :
      passed[i] => fs[WithExt(inputs[i], "")] = Made("bin", inputs[i])

(***************************************************************************)
(* A successful invocation leaves what its options ask for and nothing     *)
(* else: no intermediate file, and nothing at all of an inspection.        *)
(***************************************************************************)
NoLeftovers ==
  Building /\ exit = 0 => \A p \in Path : fs[p][1] \notin {"ir", "obj"}
OutputsAsAsked == InspectionWritesNothing /\ OutputHonoured /\ NoLeftovers

(***************************************************************************)
(* At no time is a source file written to or removed.                      *)
(***************************************************************************)
SourcesSurvive == \A i \in DOMAIN inputs : fs[inputs[i]] = Source(inputs[i])

(***************************************************************************)
(* The process ends: no mix of options and of files that pass, fail or     *)
(* poison the diagnostics keeps the loops of main and run going.           *)
(***************************************************************************)
Terminates == <>(stage = "exit")

-----------------------------------------------------------------------------
(***************************************************************************)
(* Command lines for which the promises about files hold (DriverProofs).   *)
(* main takes whatever follows -o for a path.                              *)
(***************************************************************************)
Naming(c, i) == c[i].kind = "-ofile" \/ (i > 1 /\ c[i - 1].kind = "-o")

\* No source has the name of an intermediate file, of a binary or of the
\* output: "vcc x.v -o x.v" overwrites its source.
SourcesApart ==
  \A c \in Argvs : \A i, j \in DOMAIN c :
    c[i].kind = "file" =>
      /\ c[i].path[3] \notin {"", "ll", "o"}
      /\ Naming(c, j) /\ i # j => c[j].path # c[i].path

\* The sources are in the working directory, and no two have the same stem
\* (README, divergences).
OneNameEach ==
  \A c \in Argvs : \A i, j \in DOMAIN c :
    c[i].kind = "file" /\ c[j].kind = "file" =>
      c[i].path[1] = "." /\ (i # j => c[i].path[2] # c[j].path[2])

\* In a build, no path is asked for that the driver takes for an
\* intermediate file or for the lack of -o (README, divergences).
FlagGiven(c) == \E i \in DOMAIN c : c[i].kind \in Flags /\ ~Naming(c, i)
NamesKept(c) ==
  \A i \in DOMAIN c : Naming(c, i) =>
    /\ c[i].path # DefaultOut /\ c[i].path[3] # "ll"
    /\ i > 1 /\ c[i - 1].kind = "-o" => c[i].kind \notin {"-o", "-ofile"}
OutputsApart == \A c \in Argvs : FlagGiven(c) \/ NamesKept(c)
=============================================================================
