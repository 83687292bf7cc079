---------------------------- MODULE LegacyCompare ----------------------------
(***************************************************************************)
(* nvbench-compare-legacy on the same files: states are matched by their   *)
(* whole names, the difference is measured against the smaller noise, and  *)
(* the exit status counts the states that differ.  Its plots are left out. *)
(***************************************************************************)
EXTENDS ResultSelection

BenchmarkNames(actions) ==
  {actions[i][2] : i \in {j \in DOMAIN actions : actions[j][1] = "benchmark"}}

LegacyFilters(actions) == parse_axis_filters(AxisArgs(actions))

\* The place of the first reference state of that name, or 0
LegacyRefPlace(states, state) ==
  LET same == {i \in DOMAIN states : states[i].name = state.name}
  IN IF same = {} THEN 0 ELSE Min(same)

\* The summaries are looked up by their tags; their values are strings.
HasLegacySummaries(state) ==
  Present(state.timing) /\ None \notin {state.timing.mean, state.timing.stdev_relative}

\* Mutant: the axis filters are not asked.
UnfilteredPairs(ref_states, cmp_states, filters) ==
  {[ref |-> LegacyRefPlace(ref_states, cmp_states[i]), cmp |-> i] :
     i \in {j \in DOMAIN cmp_states :
              LET r == LegacyRefPlace(ref_states, cmp_states[j]) IN
                /\ r # 0
                /\ HasLegacySummaries(cmp_states[j])
                /\ HasLegacySummaries(ref_states[r])}}

\* The pairs one device of a benchmark gives: all its states, whatever theirs is
LegacyDevicePairs(ref_states, cmp_states, filters) ==
  {[ref |-> LegacyRefPlace(ref_states, cmp_states[i]), cmp |-> i] :
     i \in {j \in DOMAIN cmp_states :
              LET r == LegacyRefPlace(ref_states, cmp_states[j]) IN
                /\ r # 0
                /\ matches_axis_filters(cmp_states[j], filters)
                /\ HasLegacySummaries(cmp_states[j])
                /\ HasLegacySummaries(ref_states[r])}}

\* The noises that are finite: the other ones are infinite, and never the smaller.
LegacyNoises(ref, cmp) ==
  {ref.timing.stdev_relative, cmp.timing.stdev_relative} \ {NonFinite}

MinNoise(noises) == CHOOSE n \in noises : \A m \in noises : n[1] * m[2] <= m[1] * n[2]

\* A smaller noise of zero is taken for none, and a time that is not a number
\* for a slower one.
LegacyStatus(ref, cmp) ==
  LET noises == LegacyNoises(ref, cmp)
      noise == MinNoise(noises)
      r == ref.timing.mean  c == cmp.timing.mean
  IN IF \E n \in noises : n[1] = 0 THEN "????"
     ELSE IF NonFinite \in {r, c} THEN "SLOW"
     ELSE IF noises = {} \/ Distance(r, c) * noise[2] <= noise[1] * r THEN "SAME"
     ELSE IF c < r THEN "FAST" ELSE "SLOW"

\* The benchmarks compared: those the command line names, that the reference has
LegacySelected(ref, cmp, names) ==
  {b \in DOMAIN cmp : /\ find_matching_bench(cmp[b], ref) # 0
                      /\ names = {} \/ cmp[b].name \in names}

\* compare_benches: every device of a benchmark repeats the benchmark's pairs.
\* Nothing depends on their order, and a state is judged once per device.
LegacyPairs(ref, cmp, filters, names) ==
  UNION {
    LET theirs == ref[find_matching_bench(cmp[b], ref)] IN
      {[bench |-> b, pair |-> k, ref |-> p.ref, cmp |-> p.cmp] :
         k \in DOMAIN cmp[b].devices,
         p \in LegacyDevicePairs(theirs.states, cmp[b].states, filters)} :
    b \in LegacySelected(ref, cmp, names)}

\* A reference time of zero, a last state without a counterpart (its device is
\* the one that is looked up) or a device that is not described ends the
\* program with a traceback; the latter two once there is a row to print, which
\* a difference that is not a number does not give.
LegacyPairRaises(p, theirs, mine, ref_devices, cmp_devices) ==
  LET last == LegacyRefPlace(theirs.states, Last(mine.states))
      ref_time == theirs.states[p.ref].timing.mean IN
    \/ ref_time = 0
    \/ /\ NonFinite \notin {ref_time, mine.states[p.cmp].timing.mean}
       /\ \/ last = 0
          \/ theirs.states[last].device \notin Ids(ref_devices)
          \/ mine.devices[p.pair] \notin Ids(cmp_devices)

LegacyRaises(ref, cmp, pairs) ==
  \E p \in pairs :
    LET mine == cmp.benchmarks[p.bench] IN
      LegacyPairRaises(p, ref.benchmarks[find_matching_bench(mine, ref.benchmarks)], mine,
                       ref.devices, cmp.devices)

LegacyDiffers(ref, cmp, p) ==
  LegacyStatus(ref[find_matching_bench(cmp[p.bench], ref)].states[p.ref],
               cmp[p.bench].states[p.cmp]) \in {"FAST", "SLOW"}

LegacyReport(ref, cmp, pairs) ==
  IF LegacyRaises(ref, cmp, pairs) THEN [ended |-> "raised", exit |-> 1]
  ELSE [ended |-> "reported", pairs |-> pairs,
        exit |-> Cardinality({p \in pairs :
                                LegacyDiffers(ref.benchmarks, cmp.benchmarks, p)}) % 256]

\* How the tool ends for one pair of files, with the pairs of states it judged
\* and the exit status: the count of those that differ, of which the system
\* keeps eight bits
LegacyOutcome(ref, cmp, actions, ignore_devices) ==
  LET filters == LegacyFilters(actions) IN
    IF Unreadable \in {ref, cmp} THEN [ended |-> "raised", exit |-> 1]
    ELSE IF filters = Refused \/ (ref.devices # cmp.devices /\ ~ ignore_devices)
    THEN [ended |-> "refused", exit |-> 1]
    ELSE LegacyReport(ref, cmp, LegacyPairs(ref.benchmarks, cmp.benchmarks, filters,
                                            BenchmarkNames(actions)))
=============================================================================
