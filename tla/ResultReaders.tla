---------------------------- MODULE ResultReaders ----------------------------
(***************************************************************************)
(* Programs that write results, a user who moves directories and deletes   *)
(* binary files, and one reading of a result, by BenchmarkResult or by the *)
(* robust comparison, in any interleaving.                                 *)
(***************************************************************************)
EXTENDS BulkSources

CONSTANTS
  Directories,   \* where documents may be
  Cwds,          \* where the reader may be started
  MaxChanges     \* bound on the directories renamed and the binary files deleted

VARIABLES
  stage,      \* of the reading
  tool,       \* "eager" (BenchmarkResult) or "lazy" (the robust comparison)
  dir, cwd,   \* of the document, of the process
  document,
  at,         \* the state that is read
  sources,    \* of its binary files
  values,     \* what was read of every file
  material,   \* whether it was found to have any payload
  rows,       \* of the debug script
  script,     \* what the script loads
  steady,     \* history: nothing but the reader has run since the reading began
  moves, discards

Kinds == {"samples", "freqs"}
Under(path, d) == Len(path) > Len(d) /\ SubSeq(path, 1, Len(d)) = d
Moved(path, from, to) == to \o SubSeq(path, Len(from) + 1, Len(path))

\* Directories holds wherever documents are and may be moved to, none is named
\* as a directory of binary files, and the working directory stays.  With a
\* path of an older version, what a reader tries first leads nowhere else:
\* it takes the first file it finds.
ASSUME DirectoriesAssumption ==
  /\ Directories \subseteq Seq(STRING)
  /\ \A d \in Directories, kind \in Kinds : \A i \in DOMAIN d : d[i] # SidecarDirectory(kind)
  /\ \A p \in Plans : p.dir \in Directories
  /\ \A from, to \in Directories \ {Cwd} :
       /\ ~ IsPrefix(from, Cwd)
       /\ ~ IsPrefix(from, to) =>
            \A d \in Directories : IsPrefix(from, d) => Moved(d, from, to) \in Directories
  /\ \A p \in {q \in Plans : q.recorded = "cwd" /\ q.dir # Cwd} :
       /\ \A d \in Directories \ {Cwd} : d \o FromCwd(p.dir) \notin Directories
       /\ Front(p.dir) \o FromCwd(p.dir) \in {p.dir} \/ Front(p.dir) \o FromCwd(p.dir) \notin Directories

ASSUME NoneAssumption ==
  /\ None \notin Nat /\ None \notin Seq(STRING) /\ None \notin {Unwritten, Refused}
  /\ None \notin [size : Nat, filename : Seq(STRING)]
  /\ None \notin [of : Nat \X Nat \X Kinds, length : Nat]
  /\ None \notin [count : Nat, filename : Seq(STRING), json_dir : Seq(STRING)]

reader == <<stage, tool, dir, cwd, document, at, sources, values, material, rows, script>>
user == <<moves, discards>>
vars == <<disk, program, reader, steady, user>>

NoFiles == [p \in {} |-> None]

Init ==
  /\ FilesInit
  /\ stage = "idle" /\ tool = None /\ dir = None /\ cwd = None /\ document = None
  /\ at = 1 /\ sources = None /\ values = NoFiles /\ material = NoFiles /\ rows = NoFiles
  /\ script = None /\ steady = TRUE
  /\ moves = 0 /\ discards = 0

\* What happens after a reading has ended is of no concern to it (a bound).
Over == stage = "refused" \/ (stage = "done" /\ (tool = "eager" \/ script # None))

\* A reading that is under way is no longer one of a still disk.
Disturb == ~ Over /\ steady' = (stage = "idle") /\ UNCHANGED reader

RunsProgram == RunProgram /\ Disturb /\ UNCHANGED user

\* mv of a whole directory, the document and its binary files in it; the
\* directory the programs are started in stays where it is.
MoveDirectory ==
  /\ phase = "idle" /\ moves + discards < MaxChanges /\ moves' = moves + 1
  /\ \E from \in Directories \ {Cwd}, to \in Directories \ {Cwd} :
       /\ ~ IsPrefix(from, to)
       /\ \E p \in DOMAIN disk : Under(p, from)
       /\ \A p \in DOMAIN disk : ~ Under(p, to)
       /\ LET Old(p) == IF Under(p, to) THEN Moved(p, to, from) ELSE p
              New(p) == IF Under(p, from) THEN Moved(p, from, to) ELSE p
          IN disk' = [p \in {New(q) : q \in DOMAIN disk} |-> disk[Old(p)]]
  /\ Disturb /\ UNCHANGED <<program, discards>>

DiscardSidecar ==
  /\ phase = "idle" /\ moves + discards < MaxChanges /\ discards' = discards + 1
  /\ \E path \in {p \in DOMAIN disk : disk[p].type = "bin"} :
       disk' = [p \in DOMAIN disk \ {path} |-> disk[p]]
  /\ Disturb /\ UNCHANGED <<program, moves>>

-----------------------------------------------------------------------------
(* Reading *)

Still == UNCHANGED <<disk, program, steady, user>>
Opened == <<tool, dir, cwd, document>>
Findings == <<values, material>>

\* A document that cannot be read refuses the whole result.
OpenWith(how, where, content) ==
  \E d \in Directories :
    /\ stage = "idle" /\ Json(d) \in DOMAIN disk
    /\ tool' = how /\ dir' = d /\ cwd' = where
    /\ stage' = IF content[d] = Refused THEN "refused" ELSE "reading"
    /\ document' = IF content[d] = Refused THEN None ELSE content[d]
    /\ UNCHANGED <<at, sources, Findings, rows, script>> /\ Still

FromJson ==
  \E where \in Cwds :
    OpenWith("eager", where, [d \in Directories |-> read_json(disk, Json(d))])

\* Its working directory plays no part.
ReadRoot ==
  OpenWith("lazy", None, [d \in Directories |-> read_nvbench_json_root(disk, Json(d))])

Reading(how) == stage = "reading" /\ tool = how
InDocument == at \in DOMAIN document.states
State == document.states[at]
Keep(f, kind, value) ==
  [p \in DOMAIN f \cup {<<at, kind>>} |-> IF p = <<at, kind>> THEN value ELSE f[p]]
Refuse == stage' = "refused" /\ UNCHANGED <<at, sources, Findings, rows>>

\* SubBenchmarkState.__init__, one file at a time
EagerReads(kind) ==
  LET samples == IF kind = "samples" THEN None ELSE values[<<at, "samples">>]
      value == ParseKind(disk, State, kind, dir, cwd, samples)
  IN /\ IF value = Refused THEN Refuse
        ELSE /\ values' = Keep(values, kind, value)
             /\ at' = IF kind = "freqs" THEN at + 1 ELSE at
             /\ UNCHANGED <<stage, sources, material, rows>>
     /\ UNCHANGED <<Opened, script>> /\ Still

ParseSamples ==
  /\ Reading("eager") /\ InDocument /\ <<at, "samples">> \notin DOMAIN values
  /\ EagerReads("samples")

ParseFrequencies ==
  /\ Reading("eager") /\ InDocument /\ <<at, "samples">> \in DOMAIN values
  /\ EagerReads("freqs")

\* A state that was skipped has no summaries: nothing is made of it.
ExtractTiming ==
  /\ Reading("lazy") /\ InDocument /\ sources = None
  /\ LET extracted == extract_gpu_timing_data(State, dir) IN
       IF State.is_skipped
       THEN at' = at + 1 /\ UNCHANGED <<stage, sources, Findings, rows>>
       ELSE IF extracted = Refused THEN Refuse
       ELSE sources' = extracted /\ UNCHANGED <<stage, at, Findings, rows>>
  /\ UNCHANGED <<Opened, script>> /\ Still

\* Which of its questions a verdict asks, and how they interleave, is up to it:
\* for the payload of the frequencies only where the samples have some, for
\* the frequencies only after the samples.
AsksForPayload(kind) ==
  /\ Reading("lazy") /\ sources # None /\ <<at, kind>> \notin DOMAIN material
  /\ kind = "freqs" => <<at, "samples">> \in {p \in DOMAIN material : material[p]}
  /\ material' = Keep(material, kind, has_material_bulk_source(disk, sources[kind]))
  /\ UNCHANGED <<Opened, stage, at, sources, values, rows, script>> /\ Still

Values(d, source) == IF source = None THEN None ELSE read_float32_binary(d, source)

\* The values are cached, None too.
AsksForValues(kind) ==
  /\ Reading("lazy") /\ sources # None /\ <<at, kind>> \notin DOMAIN values
  /\ kind = "freqs" => <<at, "samples">> \in DOMAIN values
  /\ LET value == Values(disk, sources[kind]) IN
       IF value = Refused THEN Refuse
       ELSE values' = Keep(values, kind, value) /\ UNCHANGED <<stage, at, sources, material, rows>>
  /\ UNCHANGED <<Opened, script>> /\ Still

\* The row of the state goes to the debug script.
NextRow ==
  /\ Reading("lazy") /\ sources # None
  /\ rows' = [r \in DOMAIN rows \cup {at} |->
                IF r = at THEN make_bulk_debug_row(disk, sources) ELSE rows[r]]
  /\ sources' = None /\ at' = at + 1
  /\ UNCHANGED <<Opened, stage, Findings, script>> /\ Still

EndReading ==
  /\ stage = "reading" /\ ~ InDocument
  /\ stage' = "done"
  /\ UNCHANGED <<Opened, at, sources, Findings, rows, script>> /\ Still

\* The user runs the script: load_bulk_data of every row
LoadBulkData ==
  /\ stage = "done" /\ tool = "lazy" /\ script = None
  /\ script' = [row \in DOMAIN rows |-> [kind \in Kinds |-> ScriptReads(disk, rows[row][kind])]]
  /\ UNCHANGED <<Opened, stage, at, sources, Findings, rows>> /\ Still

Read ==
  \/ FromJson \/ ReadRoot
  \/ ParseSamples \/ ParseFrequencies
  \/ ExtractTiming
  \/ \E kind \in Kinds : AsksForPayload(kind) \/ AsksForValues(kind)
  \/ NextRow \/ EndReading \/ LoadBulkData

Next == RunsProgram \/ MoveDirectory \/ DiscardSidecar \/ Read

Spec == Init /\ [][Next]_vars

-----------------------------------------------------------------------------
(* Properties *)

\* The samples a run measured for a state
Own(d, s, kind) == [of |-> <<d.run, s, kind>>, length |-> d.plan.states[s].count]

Announced(s, kind) == document.states[s][kind]
WholeDocument == \A s \in DOMAIN document.states, k \in Kinds : Announced(s, k) # Unwritten
Present(value) == value \notin {None, Refused}

\* A document of an older NVBench that was moved is found by the robust
\* comparison only.
Located == document.plan.recorded = "json" \/ tool = "lazy"
             \/ (dir = document.plan.dir /\ cwd = Cwd)

\* However many runs wrote to the same names before, ended well or in the
\* middle of a file, and wherever the directory was moved: what is read for a
\* state are the samples of the run that wrote the document, all of them, and
\* a document whose files were all written is not refused.  Even if files are
\* written, moved and deleted meanwhile, they are as many as it announces.
SamplesAreTheRunsOwn ==
  /\ (document # None /\ steady /\ discards = 0 /\ Located) =>
       /\ stage = "refused" => ~ WholeDocument
       /\ \A s \in DOMAIN document.states, k \in Kinds :
            (<<s, k>> \in DOMAIN values /\ Announced(s, k) # None)
              => values[<<s, k>>] = Own(document, s, k)
  /\ \A p \in DOMAIN values :
       Present(values[p]) =>
         values[p].length = document.plan.states[p[1]].count

\* Where the reader should find a file first: next to the document
InPlace(s, kind) ==
  LET name == Announced(s, kind).filename
      path == dir \o SubSeq(name, Len(name) - 1, Len(name))
  IN path \in DOMAIN disk /\ disk[path].of = Own(document, s, kind).of

\* A file that was deleted makes its own state's data unavailable: the robust
\* comparison goes on, and reads those that are still in their places.
LostFileCostsOnlyItsState ==
  (tool = "lazy" /\ document # None /\ steady) =>
    /\ stage = "refused" => ~ WholeDocument
    /\ \A p \in DOMAIN values :
         (Announced(p[1], p[2]) # None /\ InPlace(p[1], p[2]))
           => values[p] = Own(document, p[1], p[2])

\* The payload is looked for apart from the values, and decides whether clock
\* rates of the summaries may stand in for them: values that can be read are
\* never taken for absent, and if no file was deleted, payload that is found
\* can be read.
PayloadAndValuesAgree ==
  steady =>
    \A p \in DOMAIN values \cap DOMAIN material :
      /\ Present(values[p]) => material[p]
      /\ (material[p] /\ discards = 0) => Present(values[p])

\* The debug script, run on the same files, loads for every row the arrays its
\* verdict was made from.
ScriptLoadsWhatWasCompared ==
  (script # None /\ steady) =>
    \A p \in DOMAIN values :
      Present(values[p]) => script[p[1]][p[2]] = values[p]
=============================================================================
