------------------------------ MODULE MCDriver ------------------------------
(***************************************************************************)
(* Small instances of Driver: command lines of one or two files with the   *)
(* options before, between and after them.                                 *)
(***************************************************************************)
EXTENDS Driver

A(kind) == [kind |-> kind, path |-> <<".", "a", "">>]
File(d, s) == [kind |-> "file", path |-> <<d, s, "v">>]
Out(s, e)  == [kind |-> "-ofile", path |-> <<".", s, e>>]
Named(s, e) == [kind |-> "unknown", path |-> <<".", s, e>>]

X == File(".", "x")
Y == File(".", "y")

\* All ways of setting the flags, for two files.
FlagArgs(S) == {<<A(f)>> : f \in S} \cup {<<A(f), A(g)>> : f, g \in S}
MCFlags ==
  {<<X, Y>>} \cup {fl \o <<X, Y>> : fl \in FlagArgs(Flags)}
    \cup {<<X>> \o fl \o <<Y>> : fl \in FlagArgs(Flags)}

\* Options in every place, well formed and not; -o takes the argument after
\* it whatever that is.
MCOptions ==
  {<<X>>, <<X, Y>>, <<A("-o")>>, <<A("-o"), X>>, <<X, A("-o")>>, <<A("help"), X>>,
   <<X, A("help")>>, <<A("unknown")>>, <<X, A("unknown"), Y>>,
   <<A("-o"), Named("z", ""), X>>, <<X, A("-o"), Named("z", "out"), Y>>,
   <<Out("z", ""), X, Y>>, <<X, Out("z", "out")>>, <<X, Out("z", "o")>>,
   <<Out("y", ""), X, Out("z", "")>>, <<A("emit"), X, Out("z", "ll"), Y>>,
   <<A("emit"), Out("z", ""), X>>, <<X, Y, File(".", "z")>>, <<>>}

MCArgvs == MCFlags \cup MCOptions

\* The command lines above are ones that the theorems are about.
ASSUME Covered == Argvs = MCArgvs => SourcesApart /\ OneNameEach /\ OutputsApart

MCOutLl   == {<<X, Out("z", "ll")>>}
MCOutAOut == {<<X, Out("a", "out")>>}
MCElsewhere == {<<File("sub", "x")>>}
=============================================================================
