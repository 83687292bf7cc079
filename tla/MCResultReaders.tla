--------------------------- MODULE MCResultReaders ---------------------------
(***************************************************************************)
(* Instances of ResultReaders: a run in a directory, one of an older       *)
(* version in the same directory, and one in the directory above.          *)
(***************************************************************************)
EXTENDS ResultReaders

MCCwd == <<"w">>
Child == <<"w", "a">>
Renamed == <<"w", "b">>
MCDirectories == {MCCwd, Child, Renamed}
MCCwds == {MCCwd, Child}

Cold(n) == [type |-> "cold", count |-> n]
CpuOnly == [type |-> "cpu", count |-> 1]
Skipped == [type |-> "skipped", count |-> 0]

Run(where, how, states) == [dir |-> where, recorded |-> how, states |-> states]

\* A run with two files of each kind, one of an older version whose samples are
\* numbered from 1 and whose frequencies from 0, and one with the same names in
\* the directory above.
MCPlans ==
  {Run(Child, "json", <<Cold(2), Cold(1)>>),
   Run(Child, "cwd", <<CpuOnly, Cold(2)>>),
   Run(MCCwd, "json", <<Skipped, Cold(2)>>)}

MCPartialSizes == {0, 6}
=============================================================================
