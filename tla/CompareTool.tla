----------------------------- MODULE CompareTool -----------------------------
(***************************************************************************)
(* One invocation of nvbench-compare-robust: the command line is checked,  *)
(* the pairs of files are read one after the other, their benchmarks, the  *)
(* pairs of devices of each and the states of each pair are compared in    *)
(* order, and the tables, plots, counters and bulk rows come out.  What is *)
(* printed before an error stays printed.                                  *)
(*                                                                         *)
(* A command is its options, the two paths it names ([dir, files] or       *)
(* [dir, content]) and the output files that exist before it.  An output   *)
(* path is the name asked for, followed by the copy numbers appended.      *)
(***************************************************************************)
EXTENDS ResultSelection

CONSTANTS
  Commands,
  Sanitized(_)   \* a name as it may stand in a file name

Sequence(s) == s \in Seq(Range(s))

\* The states of a file that was read: a name in two parts and a list of axis values
ResultState(s) ==
  /\ s.name = [prefix |-> s.name.prefix, rest |-> s.name.rest]
  /\ s.axes = [a \in DOMAIN s.axes |-> s.axes[a]]
  /\ Sequence(s.listed) /\ Range(s.listed) = DOMAIN s.axes

ResultFile(content) ==
  content # Unreadable =>
    /\ Sequence(content.benchmarks)
    /\ \A b \in DOMAIN content.benchmarks :
         LET states == content.benchmarks[b].states IN
           /\ Sequence(states) /\ \A i \in DOMAIN states : ResultState(states[i])
           /\ Sequence(content.benchmarks[b].devices)

ResultPath(path) ==
  IF path.dir
  THEN /\ IsFiniteSet(DOMAIN path.files)
       /\ \A f \in DOMAIN path.files : Present(path.files[f]) => ResultFile(path.files[f])
  ELSE ResultFile(path.content)

\* A command names paths of result files, filters them by -a and -b and lists
\* of devices, and names one file for its plot.
ASSUME CommandAssumption ==
  \A c \in Commands :
    /\ Sequence(c.paths) /\ \A i \in DOMAIN c.paths : ResultPath(c.paths[i])
    /\ Sequence(c.filter_actions)
    /\ \A i \in DOMAIN c.filter_actions : c.filter_actions[i][1] \in {"axis", "benchmark"}
    /\ \A devices \in {c.reference_devices, c.compare_devices} \ {None, Refused} :
         Sequence(devices)
    /\ Present(c.plot_output) => c.plot_output = <<c.plot_output[1]>>
    /\ IsFiniteSet(c.existing)

VARIABLES
  cmd,           \* the command
  pc,            \* what main does next
  plan,          \* the thresholds, filters and devices the command line gives
  todo,          \* to_compare: the pairs of files
  inputs,        \* the two files at hand and their selected devices
  at,            \* the place: file, benchmark, pair of devices
  section,       \* the states of the pair at hand, and what was collected of them
  stats,         \* ComparisonStats
  tables,        \* the tables printed
  bulk_rows,     \* bulk_debug_rows
  entries,       \* PlotCollector.comparison_entries
  output_paths,  \* plot_output_paths
  saved,         \* the plots written, in order
  compared,      \* history: the states compared, in order
  exit           \* the exit code

vars == <<cmd, pc, plan, todo, inputs, at, section, stats, tables, bulk_rows, entries,
          output_paths, saved, compared, exit>>

Init ==
  /\ cmd \in Commands
  /\ pc = "arguments"
  /\ plan = None /\ inputs = None /\ section = None /\ exit = None
  /\ todo = <<>>
  /\ at = [file |-> 0, bench |-> 0, pair |-> 0]
  /\ stats = [config_count |-> 0, by_status |-> [s \in Statuses |-> 0]]
  /\ tables = <<>> /\ bulk_rows = <<>> /\ entries = 0
  /\ output_paths = {} /\ saved = <<>>
  /\ compared = <<>>

Results == <<stats, tables, bulk_rows, entries, output_paths, saved, compared>>

Exit(code) == pc' = "exited" /\ exit' = code

Goto(place) == pc' = place /\ UNCHANGED exit

-----------------------------------------------------------------------------
(* The command line *)

validate_threshold_diff(threshold) == is_nonnegative_finite(threshold)

KnownFields == {"benchmark", "device", "axis", "pair"}

validate_plot_along_output_template(template) ==
  template = None \/ template.fields \subseteq KnownFields

\* Each plot requested is either saved or shown, and all of them alike.
validate_plot_output_modes ==
  ~ (/\ cmd.plot /\ Present(cmd.plot_along)
     /\ Present(cmd.plot_output) # Present(cmd.plot_along_output))

RefusedPlots ==
  \/ Present(cmd.plot_output) /\ ~ cmd.plot
  \/ Present(cmd.plot_along_output) /\ ~ Present(cmd.plot_along)
  \/ cmd.plot_along = ""
  \/ ~ validate_plot_along_output_template(cmd.plot_along_output)
  \/ ~ validate_plot_output_modes

CheckArguments ==
  LET resolved == resolve_comparison_thresholds(cmd.preset, cmd.config)
      filters == build_benchmark_filter_plan(cmd.filter_actions)
  IN /\ pc = "arguments"
     /\ \/ /\ ~ validate_threshold_diff(cmd.threshold) \/ resolved = Refused
           /\ Exit(1) /\ UNCHANGED plan
        \/ /\ validate_threshold_diff(cmd.threshold) /\ resolved # Refused
           /\ \/ cmd.dump_config /\ Exit(0) /\ UNCHANGED plan
              \/ /\ ~ cmd.dump_config
                 /\ IF \/ RefusedPlots \/ filters = Refused
                       \/ Refused \in {cmd.reference_devices, cmd.compare_devices}
                       \/ Len(cmd.paths) # 2
                    THEN Exit(1) /\ UNCHANGED plan
                    ELSE /\ plan' = [thresholds |-> resolved.thresholds, filters |-> filters]
                         /\ Goto("files")
     /\ UNCHANGED <<cmd, todo, inputs, at, section>> /\ UNCHANGED Results

Files(path) == {f \in DOMAIN path.files : path.files[f] # None}

\* The files both directories have, in the order the system lists them
FindFiles ==
  /\ pc = "files"
  /\ LET ref == cmd.paths[1] cmp == cmd.paths[2] IN
       IF ref.dir /\ cmp.dir
       THEN \E order \in SetToSeqs(Files(ref) \cap Files(cmp)) :
              todo' = [i \in DOMAIN order |-> <<ref.files[order[i]], cmp.files[order[i]]>>]
       ELSE todo' = <<<<IF ref.dir THEN Unreadable ELSE ref.content,
                        IF cmp.dir THEN Unreadable ELSE cmp.content>>>>
  /\ IF todo' = <<>> THEN Exit(1) ELSE Goto("read")
  /\ UNCHANGED <<cmd, plan, inputs, at, section>> /\ UNCHANGED Results

-----------------------------------------------------------------------------
(* Files, benchmarks and pairs of devices *)

require_matching_device_sections ==
  cmd.reference_devices = None /\ cmd.compare_devices = None

ReadInputs ==
  /\ pc = "read" /\ at.file < Len(todo)
  /\ LET ref == todo[at.file + 1][1] cmp == todo[at.file + 1][2]
         ref_devices == select_devices(ref.devices, cmd.reference_devices)
         cmp_devices == select_devices(cmp.devices, cmd.compare_devices)
     IN IF \/ Unreadable \in {ref, cmp}
           \/ Refused \in {ref_devices, cmp_devices}
           \/ Len(ref_devices) # Len(cmp_devices)
           \/ /\ ref_devices # cmp_devices
              /\ ~ cmd.ignore_devices /\ require_matching_device_sections
        THEN Exit(1) /\ UNCHANGED inputs
        ELSE /\ inputs' = [ref |-> ref.benchmarks, cmp |-> cmp.benchmarks,
                           ref_devices |-> ref_devices, cmp_devices |-> cmp_devices]
             /\ Goto("bench")
  /\ at' = [file |-> at.file + 1, bench |-> 1, pair |-> 1]
  /\ entries' = 0
  /\ UNCHANGED <<cmd, plan, todo, section, stats, tables, bulk_rows, output_paths, saved,
                 compared>>

CmpBench == inputs.cmp[at.bench]
RefPlace == find_matching_bench(CmpBench, inputs.ref)
RefBench == inputs.ref[RefPlace]
FilterGroups == axis_filter_groups_for_benchmark(CmpBench.name, plan.filters)
RefIds == resolve_benchmark_device_ids(RefBench, cmd.reference_devices)
CmpIds == resolve_benchmark_device_ids(CmpBench, cmd.compare_devices)

SkipBenchmark ==
  /\ pc = "bench" /\ at.bench <= Len(inputs.cmp)
  /\ RefPlace = 0 \/ FilterGroups = {}
  /\ at' = [at EXCEPT !.bench = @ + 1]
  /\ UNCHANGED <<cmd, pc, plan, todo, inputs, section, exit>> /\ UNCHANGED Results

StartBenchmark ==
  /\ pc = "bench" /\ at.bench <= Len(inputs.cmp)
  /\ RefPlace # 0 /\ FilterGroups # {}
  /\ IF Refused \in {RefIds, CmpIds} \/ Len(RefIds) # Len(CmpIds)
     THEN Exit(1) ELSE Goto("section")
  /\ UNCHANGED <<cmd, plan, todo, inputs, at, section>> /\ UNCHANGED Results

GroupsMatch(ref, cmp) == SameGroups(RefBench.states, ref, CmpBench.states, cmp)

StartSection ==
  /\ pc = "section" /\ at.pair <= Len(CmpIds)
  /\ LET ref == DeviceStates(RefBench.states, RefIds[at.pair], FilterGroups)
         cmp == DeviceStates(CmpBench.states, CmpIds[at.pair], FilterGroups)
     IN IF GroupsMatch(ref, cmp)
        THEN /\ section' = [ref |-> ref, cmp |-> cmp, next |-> 1, rows |-> <<>>, points |-> <<>>]
             /\ Goto("state")
        ELSE Exit(1) /\ UNCHANGED section
  /\ UNCHANGED <<cmd, plan, todo, inputs, at>> /\ UNCHANGED Results

EndBenchmark ==
  /\ pc = "section" /\ at.pair > Len(CmpIds)
  /\ at' = [at EXCEPT !.bench = @ + 1, !.pair = 1]
  /\ Goto("bench")
  /\ UNCHANGED <<cmd, plan, todo, inputs, section>> /\ UNCHANGED Results

-----------------------------------------------------------------------------
(* A pair of states *)

CmpPlace == section.cmp[section.next]
CmpState == CmpBench.states[CmpPlace]
CmpKey == state_comparison_key(CmpState)

\* counters.get(cmp_state_key, 0)
Occurrence ==
  Cardinality({i \in 1..(section.next - 1) :
                 state_comparison_key(CmpBench.states[section.cmp[i]]) = CmpKey})

OccurrenceCount == Len(Group(CmpBench.states, section.cmp, CmpKey))

PairedPlace == Group(RefBench.states, section.ref, CmpKey)[Occurrence + 1]

\* Timings as missing summaries leave them
TimingOf(state) ==
  IF Present(state.timing) THEN state.timing
  ELSE [minimum |-> None, maximum |-> None, mean |-> None, stdev |-> None,
        stdev_relative |-> None, first_quartile |-> None, median |-> None,
        third_quartile |-> None, iqr |-> None, iqr_relative |-> None, clock |-> None,
        sample_source |-> None, frequency_source |-> None]

CentersOf(inputs_of_both) == [i \in 1..2 |-> inputs_of_both[i].center]

Centers(ref, cmp) == CentersOf(compute_timing_comparison_inputs(TimingOf(ref), TimingOf(cmp)))

DecisionOf(ref, cmp) ==
  OrElse(missing_state_summaries_decision(ref, cmp),
         compare_gpu_timings(ref.timing, cmp.timing, plan.thresholds))

\* abs(frac_diff) >= threshold; an unknown comparison has no difference
Shown(status, centers) ==
  \/ status = "????"
  \/ Distance(centers[1], centers[2]) * 100 >= cmd.threshold * centers[1]

PlotsPoint(centers) ==
  Present(cmd.plot_along) /\ \A i \in 1..2 : is_positive_finite(centers[i])

HasAxisValue(state) ==
  /\ cmd.plot_along \in DOMAIN state.axes
  /\ state.axes[cmd.plot_along] # NotANumber
  /\ is_positive_finite(state.axes[cmd.plot_along])

\* The places of the axes listed before one: the search ends where it is found.
PlacesBefore(state, axis) ==
  {i \in DOMAIN state.listed : \A j \in 1..i : state.listed[j] # axis}

axis_name_parts(state, axis) ==
  [i \in PlacesBefore(state, axis) |-> <<state.listed[i], state.axes[state.listed[i]]>>]

\* Mutant: states that differ in their occurrence only lie on one line.
SeriesOfKey ==
  [key |-> state_match_key(CmpState), occurrence |-> 0,
   axes |-> axis_name_parts(CmpState, cmd.plot_along)]

\* The line a point lies on: it says nothing of the axes after the plotted one.
format_plot_series_key ==
  [key |-> state_match_key(CmpState),
   occurrence |-> IF OccurrenceCount > 1 THEN Occurrence + 1 ELSE 0,
   axes |-> axis_name_parts(CmpState, cmd.plot_along)]

\* Mutant: the row counted from one.
RowsSoFar == Len(section.rows) + 1

table_row_index == Len(section.rows)

record(decision, shown) ==
  [stats EXCEPT !.config_count = @ + 1, !.by_status[decision.status] = @ + 1]

\* A point that cannot be placed along the axis ends the program.
RefusePoint ==
  /\ Exit(1)
  /\ UNCHANGED <<section, stats, bulk_rows, entries, compared>>

RecordState(decision, centers, shown) ==
  /\ stats' = record(decision, shown)
  /\ compared' = Append(compared, [at |-> at, ref |-> PairedPlace, cmp |-> CmpPlace,
                                   status |-> decision.status, shown |-> shown])
  /\ section' =
       [section EXCEPT
          !.next = @ + 1,
          !.rows = IF shown THEN Append(@, CmpPlace) ELSE @,
          !.points = IF PlotsPoint(centers)
                     THEN Append(@, <<format_plot_series_key, CmpState.axes[cmd.plot_along]>>)
                     ELSE @]
  /\ bulk_rows' = IF shown /\ Present(cmd.bulk)
                  THEN Append(bulk_rows, [row_index |-> Len(bulk_rows), at |-> at,
                                          table_row_index |-> table_row_index,
                                          cmp |-> CmpPlace, ref |-> PairedPlace])
                  ELSE bulk_rows
  /\ entries' = IF shown /\ cmd.plot /\ decision.status # "????" THEN entries + 1 ELSE entries
  /\ Goto("state")

Judge(decision, centers) ==
  IF PlotsPoint(centers) /\ ~ HasAxisValue(CmpState)
  THEN RefusePoint
  ELSE RecordState(decision, centers, Shown(decision.status, centers))

CompareState ==
  /\ pc = "state" /\ section.next <= Len(section.cmp)
  /\ Judge(DecisionOf(RefBench.states[PairedPlace], CmpState),
           Centers(RefBench.states[PairedPlace], CmpState))
  /\ UNCHANGED <<cmd, plan, todo, inputs, at, tables, output_paths, saved>>

-----------------------------------------------------------------------------
(* Outputs *)

\* Mutant: the first copy is taken, written before or not.
NextCopy(path, used) ==
  IF path \notin used THEN path ELSE Append(path, 1)

resolve_plot_output_path(path, used) ==
  LET taken == used \cup cmd.existing IN
    IF path \notin used THEN path
    ELSE Append(path, Min({n \in 1..(Cardinality(taken) + 1) : Append(path, n) \notin taken}))

format_plot_along_output_path ==
  LET fields == [benchmark |-> Sanitized(CmpBench.name), device |-> CmpIds[at.pair],
                 axis |-> Sanitized(cmd.plot_along), pair |-> at.pair - 1]
      template == cmd.plot_along_output
  IN <<[text |-> template.text, fields |-> [f \in template.fields |-> fields[f]]]>>

\* The plot is shown, saved, or the file cannot be written; then goes on
SavePlot(path, place) ==
  IF path = None
  THEN UNCHANGED <<output_paths, saved>> /\ Goto(place)
  ELSE LET output == resolve_plot_output_path(path, output_paths) IN
         /\ output_paths' = output_paths \cup {output}
         /\ \/ saved' = Append(saved, output) /\ Goto(place)
            \/ UNCHANGED saved /\ Exit(1)

\* An id of the benchmark may be missing from the devices of the file.
MetadataMissing ==
  \/ RefIds[at.pair] \notin Ids(inputs.ref_devices)
  \/ CmpIds[at.pair] \notin Ids(inputs.cmp_devices)

EndSection ==
  /\ pc = "state" /\ section.next > Len(section.cmp)
  /\ at' = [at EXCEPT !.pair = @ + 1]
  /\ tables' = IF ~ MetadataMissing /\ section.rows # <<>>
               THEN Append(tables, [at |-> at, rows |-> section.rows]) ELSE tables
  /\ IF MetadataMissing
     THEN Exit(1) /\ UNCHANGED <<output_paths, saved>>
     ELSE IF section.points # <<>>
     THEN SavePlot(IF Present(cmd.plot_along_output) THEN format_plot_along_output_path
                   ELSE None, "section")
     ELSE Goto("section") /\ UNCHANGED <<output_paths, saved>>
  /\ UNCHANGED <<cmd, plan, todo, inputs, section, stats, bulk_rows, entries, compared>>

\* The summary plot of a pair of files, when there is anything to plot
EndFile ==
  /\ pc = "bench" /\ at.bench > Len(inputs.cmp)
  /\ LET place == IF at.file = Len(todo) THEN "report" ELSE "read" IN
       IF cmd.plot /\ entries > 0
       THEN SavePlot(cmd.plot_output, place)
       ELSE Goto(place) /\ UNCHANGED <<output_paths, saved>>
  /\ UNCHANGED <<cmd, plan, todo, inputs, at, section, stats, tables, bulk_rows, entries, compared>>

\* The counters are printed; the bulk rows may not be writable.
Report ==
  /\ pc = "report"
  /\ IF cmd.bulk = "file" THEN \E code \in {0, 1} : Exit(code) ELSE Exit(0)
  /\ UNCHANGED <<cmd, plan, todo, inputs, at, section>> /\ UNCHANGED Results

Terminating == pc = "exited" /\ UNCHANGED vars

Next ==
  \/ CheckArguments \/ FindFiles \/ ReadInputs \/ SkipBenchmark \/ StartBenchmark
  \/ StartSection \/ EndBenchmark \/ CompareState \/ EndSection \/ EndFile \/ Report
  \/ Terminating

Spec == Init /\ [][Next]_vars
=============================================================================
