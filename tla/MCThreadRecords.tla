--------------------------- MODULE MCThreadRecords --------------------------
(* Instances of ThreadRecords for TLC.                                     *)
EXTENDS ThreadRecords, TLC

CONSTANTS m, a, b    \* main's handle and the workers'

NoWord   == {0}
OneWord  == {1}
TwoWords == {1, 2}
AllCommands   == Command
NoTls         == {"SELF", "CREATE", "JOIN"}
CreateAndJoin == {"CREATE", "JOIN"}

JustMain == {m}
TwoThreads   == {m, a}
ThreeThreads == {m, a, b}

\* Main's handle is told apart by Init; the workers' handles are not.
WorkerSymmetry == Permutations(Handle \ {Main})
=============================================================================
