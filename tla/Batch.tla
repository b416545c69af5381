------------------------------- MODULE Batch -------------------------------
(***************************************************************************)
(* What one invocation of the compiler promises, whatever phases a file    *)
(* goes through: every input file gets one verdict, in order; once a       *)
(* diagnostic of level error has been recorded no later file passes; and   *)
(* the exit code is 0 just when no file failed.                            *)
(***************************************************************************)
EXTENDS Sequences, Integers

VARIABLES
  verdicts,  \* TRUE or FALSE for each file finished so far
  poisoned,  \* an error has been recorded
  exit       \* Running, or the exit code of the process

batchVars == <<verdicts, poisoned, exit>>

Running == -1

Init == verdicts = <<>> /\ poisoned = FALSE /\ exit = Running

AllPassed == \A i \in DOMAIN verdicts : verdicts[i]

\* A file passes only while no error is recorded, and records none itself;
\* it may fail without a diagnostic.
CompileFile(pass, error) ==
  /\ exit = Running
  /\ pass => ~poisoned /\ ~error
  /\ verdicts' = Append(verdicts, pass)
  /\ poisoned' = (poisoned \/ error)
  /\ UNCHANGED exit

Finish(code) ==
  /\ exit = Running
  /\ verdicts # <<>> => (code = 0 <=> AllPassed)
  /\ exit' = code
  /\ UNCHANGED <<verdicts, poisoned>>

Next == (\E pass, error \in BOOLEAN : CompileFile(pass, error))
        \/ (\E code \in {0, 1} : Finish(code))

Spec == Init /\ [][Next]_batchVars
=============================================================================
