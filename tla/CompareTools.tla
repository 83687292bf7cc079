---------------------------- MODULE CompareTools ----------------------------
(***************************************************************************)
(* What an invocation of nvbench-compare-robust must have done when it     *)
(* ends well, judged from the two files and the command line alone, and    *)
(* what nvbench-compare-legacy makes of the same files.                    *)
(***************************************************************************)
EXTENDS CompareTool, LegacyCompare

Done == pc = "exited" /\ exit = 0 /\ ~ cmd.dump_config

(* The command line as its help describes it: -a before any -b holds for   *)
(* every benchmark, -a after a -b for that one; repeated -b are            *)
(* alternatives.                                                           *)

Actions == cmd.filter_actions
IsAxis(i) == Actions[i][1] = "axis"
Scopes == {i \in DOMAIN Actions : ~ IsAxis(i)}

\* The axis arguments given to the scope that starts at i (0: to none)
ScopeOf(i) == {j \in DOMAIN Actions : IsAxis(j) /\ i < j /\ \A s \in Scopes : s <= i \/ j < s}

Holds(j, state) ==
  LET arg == Actions[j][2] IN
    /\ arg.name \in DOMAIN state.axes
    /\ \E v \in Range(arg.values) : state.axes[arg.name] = IF arg.pow2 THEN 2^v ELSE v

AsksFor(name, state) ==
  /\ \A j \in ScopeOf(0) : Holds(j, state)
  /\ Scopes = {} \/ \E i \in Scopes : Actions[i][2] = name /\ \A j \in ScopeOf(i) : Holds(j, state)

AsksForBenchmark(name) == Scopes = {} \/ \E i \in Scopes : Actions[i][2] = name

AskedDevices(bench, filter) == IF filter = None THEN bench.devices ELSE filter

Asked(bench, id) ==
  {i \in DOMAIN bench.states : bench.states[i].device = id /\ AsksFor(bench.name, bench.states[i])}

Places(f, b, k) == {i \in DOMAIN compared : compared[i].at = [file |-> f, bench |-> b, pair |-> k]}

\* When the tool reports success, every state the command line asks for, of
\* either file, in every pair of devices of every benchmark both have, was
\* compared exactly once, and no other one: nothing was dropped by a filter of
\* another scope, by a counter of occurrences or by a key of one side only.
EveryStateAskedForOnce ==
  Done =>
    /\ \A f \in DOMAIN todo : \A b \in DOMAIN todo[f][2].benchmarks :
         LET cmp == todo[f][2].benchmarks[b]
             r == find_matching_bench(cmp, todo[f][1].benchmarks)
             mine == AskedDevices(cmp, cmd.compare_devices)
         IN IF r = 0 \/ ~ AsksForBenchmark(cmp.name)
            THEN \A k \in DOMAIN mine : Places(f, b, k) = {}
            ELSE LET ref == todo[f][1].benchmarks[r]
                     theirs == AskedDevices(ref, cmd.reference_devices)
                 IN \A k \in DOMAIN mine :
                      LET here == Places(f, b, k) IN
                        /\ {compared[i].cmp : i \in here} = Asked(cmp, mine[k])
                        /\ {compared[i].ref : i \in here} = Asked(ref, theirs[k])
                        /\ Cardinality(here) = Cardinality(Asked(cmp, mine[k]))

\* Two states are compared only when they measured the same thing: the same
\* axis values, the same name but for the device, on devices of the same
\* position, and among equal ones the n-th with the n-th.
PairedWithItsCounterpart ==
  \A i \in DOMAIN compared :
    LET c == compared[i]
        files == todo[c.at.file]
        mine == files[2].benchmarks[c.at.bench]
        theirs == files[1].benchmarks[find_matching_bench(mine, files[1].benchmarks)]
        s == mine.states[c.cmp]  r == theirs.states[c.ref]
    IN /\ s.axes = r.axes /\ s.name.rest = r.name.rest
       /\ s.device = AskedDevices(mine, cmd.compare_devices)[c.at.pair]
       /\ r.device = AskedDevices(theirs, cmd.reference_devices)[c.at.pair]
       /\ \A j \in 1..(i - 1) :
            LET d == compared[j] IN
              (d.at = c.at /\ mine.states[d.cmp] = s /\ theirs.states[d.ref] = r) => d.ref < c.ref

\* The bulk rows that are written find their way back: each names the row of
\* the printed table that shows the two states its files belong to, and every
\* row that is printed has one of its own.
Names(row, t, k) == row.at = t.at /\ row.table_row_index + 1 = k

BulkRowsNameTheirTableRow ==
  (Done /\ Present(cmd.bulk)) =>
    /\ \A i \in DOMAIN bulk_rows :
         /\ bulk_rows[i].row_index = i - 1
         /\ \E t \in Range(tables) : \E k \in DOMAIN t.rows :
              Names(bulk_rows[i], t, k) /\ t.rows[k] = bulk_rows[i].cmp
    /\ \A t \in Range(tables) : \A k \in DOMAIN t.rows :
         \E i \in DOMAIN bulk_rows :
           /\ Names(bulk_rows[i], t, k)
           /\ \A j \in DOMAIN bulk_rows : Names(bulk_rows[j], t, k) => j = i

\* No plot of a command is written over another one of it, whatever the
\* templates, names and copies make of the paths, nor is a copy written over a
\* file that was there before.
NoPlotOverwritten ==
  /\ IsInjective(saved)
  /\ \A path \in Range(saved) : Len(path) > 1 => path \notin cmd.existing

\* The axes of a state that are listed after one
AxesAfter(state, axis) ==
  LET before == {state.listed[i] : i \in PlacesBefore(state, axis)}
  IN [a \in DOMAIN state.axes \ (before \cup {axis}) |-> state.axes[a]]

\* The states of a pair of devices with one name agree in the axes listed after
\* the plotted one: it is listed last, or names tell all axis values.
NamesTellTheRest ==
  \A i, j \in Range(section.cmp) :
    LET s == CmpBench.states[i]
        t == CmpBench.states[j]
    IN state_match_key(s) = state_match_key(t)
         => AxesAfter(s, cmd.plot_along) = AxesAfter(t, cmd.plot_along)

\* Where a line need not say what its key leaves out, no two states of a pair of
\* devices fall on one point of one line, repeated ones among them.
NoPointLost == (pc = "state" /\ NamesTellTheRest) => IsInjective(section.points)

(* Where both tools can be compared: one device, one pair of files, filters *)
(* that mean the same to both, and states named as NVBench names them,      *)
(* after the device they were measured on                                   *)
Plain ==
  /\ Len(todo) = 1
  /\ todo[1][1].devices = todo[1][2].devices /\ Len(todo[1][1].devices) = 1
  /\ None = cmd.reference_devices /\ None = cmd.compare_devices
  /\ \A i \in Scopes : ScopeOf(i) = {}
  /\ \A side \in 1..2 : \A bench \in Range(todo[1][side].benchmarks) :
       /\ bench.devices = <<todo[1][1].devices[1].id>>
       /\ \A i \in DOMAIN bench.states :
            LET state == bench.states[i] IN
              state.device = bench.devices[1] /\ state.name.prefix = state.device
       /\ \A i, j \in DOMAIN bench.states :
            bench.states[i].name = bench.states[j].name => i = j

\* On such files the legacy tool, when it ends in order, judges the pairs of
\* states the robust tool compares, but for those without the summaries it
\* reads.
LegacyJudgesTheSamePairs ==
  (Done /\ Plain) =>
    LET legacy == LegacyOutcome(todo[1][1], todo[1][2], Actions, cmd.ignore_devices)
        state(side, c, b) == todo[1][side].benchmarks[b].states[c]
        ref(b) == find_matching_bench(todo[1][2].benchmarks[b], todo[1][1].benchmarks)
    IN legacy.ended = "reported" =>
         {<<p.bench, p.ref, p.cmp>> : p \in legacy.pairs}
           = {<<c.at.bench, c.ref, c.cmp>> : c \in
                {d \in Range(compared) :
                   /\ HasLegacySummaries(state(1, d.ref, ref(d.at.bench)))
                   /\ HasLegacySummaries(state(2, d.cmp, d.at.bench))}}
=============================================================================
