----------------------------- MODULE ResultFiles -----------------------------
(***************************************************************************)
(* A run of a benchmark program with --jsonbin: one JSON document at the   *)
(* end, and before it, state by state, the binary files with the samples.  *)
(* A path is the sequence of its names; the disk is a function from paths  *)
(* to contents.  Other programs (another run, a reader) see every step.    *)
(***************************************************************************)
EXTENDS Integers, Sequences, SequencesExt, FiniteSets, TLC

CONSTANTS
  None,          \* no value
  Cwd,           \* the directory the programs are started in
  Plans,         \* runs: [dir, states, recorded]; recorded "cwd" for an older NVBench
  MaxRuns,       \* bound on the runs
  MaxFaults,     \* bound on the crashes and the binary files that cannot be written
  PartialSizes   \* sizes a binary file may be left with by a crash, in bytes

VARIABLES
  disk,
  phase,         \* of the running program: "idle" when none runs
  run, plan,     \* its number, what it measures
  written,       \* of every binary file, whether it could be written
  faults

program == <<phase, run, plan, written, faults>>

JsonName == "out.json"
Json(dir) == Append(dir, JsonName)

Write(path, content) ==
  [p \in DOMAIN disk \cup {path} |-> IF p = path THEN content ELSE disk[p]]

\* What an output file is from the moment the option is parsed until the
\* results are printed: empty, or cut off
NotJson == [type |-> "text"]
Document(d) == [type |-> "json", document |-> d]

float32 == 4   \* bytes
Binary(r, s, kind, size) == [type |-> "bin", of |-> <<r, s, kind>>, size |-> size]

SidecarDirectory(kind) == JsonName \o (IF kind = "samples" THEN "-bin" ELSE "-freqs-bin")

\* The files the states of a run write, in order: a cold measurement its
\* samples and their clock rates, a CPU-only one samples of another tag.
StateSidecars(states, s) ==
  IF states[s].type = "cold"
  THEN <<[state |-> s, kind |-> "samples"], [state |-> s, kind |-> "freqs"]>>
  ELSE IF states[s].type = "cpu" THEN <<[state |-> s, kind |-> "samples"]>> ELSE <<>>

Sidecars(states) == FlattenSeq([s \in DOMAIN states |-> StateSidecars(states, s)])

\* Each directory numbers its files; a file that could not be written took
\* its number all the same.
Before(files, i) == {j \in 1..(i - 1) : files[j].kind = files[i].kind}
BinaryName(n) == ToString(n) \o ".bin"
FileName(files, i) ==
  <<SidecarDirectory(files[i].kind), BinaryName(Cardinality(Before(files, i)))>>

\* Next to the document
write_path(p, i) == p.dir \o FileName(Sidecars(p.states), i)

\* Recorded relative to the document; older versions recorded it relative to
\* the directory the program ran in.
FromCwd(dir) == SubSeq(dir, Len(Cwd) + 1, Len(dir))
summary_path(p, i) ==
  (IF p.recorded = "cwd" THEN FromCwd(p.dir) ELSE <<>>) \o FileName(Sidecars(p.states), i)

\* The summary of a file that could not be written has neither of its fields.
Unwritten == [size |-> None, filename |-> None]

Recorded(p, oks, s, kind) ==
  LET i == CHOOSE i \in DOMAIN Sidecars(p.states) :
             Sidecars(p.states)[i] = [state |-> s, kind |-> kind]
  IN IF p.states[s].type # "cold" THEN None
     ELSE IF oks[i] THEN [size |-> p.states[s].count, filename |-> summary_path(p, i)]
     ELSE Unwritten

StateNode(p, oks, s) ==
  [is_skipped |-> p.states[s].type = "skipped",
   samples |-> Recorded(p, oks, s, "samples"),
   freqs |-> Recorded(p, oks, s, "freqs")]

ResultDocument(r, p, oks) ==
  [run |-> r, plan |-> p, states |-> [s \in DOMAIN p.states |-> StateNode(p, oks, s)]]

-----------------------------------------------------------------------------
(* What is taken for granted of a plan and of the names *)

PlanType ==
  [dir : Seq(STRING), recorded : {"json", "cwd"},
   states : Seq([type : {"cold", "cpu", "skipped"}, count : Nat])]

\* A cold measurement that is not skipped has samples; an older version's paths
\* lead from the working directory to the document's.
ASSUME PlansAssumption ==
  /\ Cwd \in Seq(STRING) /\ PartialSizes \subseteq Nat
  /\ \A p \in Plans :
       /\ p \in PlanType
       /\ \A s \in DOMAIN p.states : p.states[s].type = "cold" => p.states[s].count > 0
       /\ p.recorded = "cwd" => IsPrefix(Cwd, p.dir)

\* Different numbers are written differently.
ASSUME NamesAssumption ==
  /\ JsonName \in STRING
  /\ \A kind \in {"samples", "freqs"} : SidecarDirectory(kind) \in STRING
  /\ SidecarDirectory("samples") # SidecarDirectory("freqs")
  /\ \A p \in Plans :
       LET numbers == 0..Len(Sidecars(p.states)) IN
         /\ \A n \in numbers : BinaryName(n) \in STRING \ {JsonName}
         /\ \A i, j \in numbers : BinaryName(i) = BinaryName(j) => i = j

-----------------------------------------------------------------------------
(* Actions of a program *)

FilesInit ==
  /\ disk = [p \in {} |-> None]
  /\ phase = "idle" /\ run = 0 /\ plan = None /\ written = <<>> /\ faults = 0

StartProgram ==
  /\ phase = "idle" /\ run < MaxRuns
  /\ phase' = "measure" /\ run' = run + 1 /\ plan' \in Plans /\ written' = <<>>
  /\ UNCHANGED faults

\* Mutant of OpenOutput: the document is replaced only when it is complete
OpensWithoutTruncation == StartProgram /\ UNCHANGED disk

\* --jsonbin opens the output and so empties it, before anything is measured.
OpenOutput == StartProgram /\ disk' = Write(Json(plan'.dir), NotJson)

Files == Sidecars(plan.states)
Current == Files[Len(written) + 1]
CurrentPath == write_path(plan, Len(written) + 1)
AllPrinted == Len(written) = Len(Files)
WholeSize(p, s) == float32 * p.states[s].count
CurrentFile(size) == Binary(run, Current.state, Current.kind, size)

OpenSidecar ==
  /\ phase = "measure" /\ ~ AllPrinted
  /\ phase' = "writing"
  /\ disk' = Write(CurrentPath, CurrentFile(0))
  /\ UNCHANGED <<run, plan, written, faults>>

FinishSidecar ==
  /\ phase = "writing"
  /\ phase' = "measure" /\ written' = Append(written, TRUE)
  /\ disk' = Write(CurrentPath, CurrentFile(WholeSize(plan, Current.state)))
  /\ UNCHANGED <<run, plan, faults>>

\* The directory cannot be made, the file not opened or not written: what
\* there is of it is removed, and the run goes on.
FailSidecar ==
  /\ phase \in {"measure", "writing"} /\ ~ AllPrinted
  /\ faults < MaxFaults /\ faults' = faults + 1
  /\ phase' = "measure" /\ written' = Append(written, FALSE)
  /\ disk' = [p \in DOMAIN disk \ {CurrentPath} |-> disk[p]]
  /\ UNCHANGED <<run, plan>>

PrintResults ==
  /\ phase = "measure" /\ AllPrinted
  /\ phase' = "idle"
  /\ disk' = Write(Json(plan.dir), Document(ResultDocument(run, plan, written)))
  /\ UNCHANGED <<run, plan, written, faults>>

\* A program may end at any moment: a file that was being written keeps what
\* had reached it.
Crash ==
  /\ phase # "idle" /\ phase' = "idle"
  /\ faults < MaxFaults /\ faults' = faults + 1
  /\ IF phase = "writing"
     THEN \E size \in {n \in PartialSizes : n < WholeSize(plan, Current.state)} :
            disk' = Write(CurrentPath, CurrentFile(size))
     ELSE UNCHANGED disk
  /\ UNCHANGED <<run, plan, written>>

RunProgram == OpenOutput \/ OpenSidecar \/ FinishSidecar \/ FailSidecar \/ PrintResults \/ Crash

=============================================================================
