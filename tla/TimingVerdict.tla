--------------------------- MODULE TimingVerdict ---------------------------
(***************************************************************************)
(* One comparison of nvbench-compare-robust: the thresholds are resolved   *)
(* from the presets, the configuration and the command line, then two      *)
(* timings are judged by them.                                             *)
(***************************************************************************)
EXTENDS TimingComparison

CONSTANT Comparisons   \* [preset, config, ref, cmp] of the command line and the inputs

ASSUME VerdictAssumption ==
  \A c \in Comparisons :
    /\ c.preset \in DOMAIN COMPARISON_THRESHOLD_PRESETS \cup {None}
    /\ c.config # None =>
         LET tables == SectionTables(c.config) IN
           \A s \in DOMAIN tables : tables[s] # NotATable =>
             \A k \in DOMAIN tables[s] : tables[s][k] \in Int \cup {NonFinite, NotANumber}
    /\ \A t \in {c.ref, c.cmp} :
         /\ t \in Timings
         /\ None \notin {SampleTimes(t), Frequencies(t)} =>
              CutAlike(SampleTimes(t), Frequencies(t))

VARIABLES args, stage, resolved, decision

verdict_vars == <<args, stage, resolved, decision>>

VerdictInit ==
  /\ args \in Comparisons
  /\ stage = "resolve"
  /\ resolved = None
  /\ decision = None

\* A configuration that is refused ends the program.
ResolveThresholds ==
  /\ stage = "resolve"
  /\ resolved' = resolve_comparison_thresholds(args.preset, args.config)
  /\ stage' = IF resolved' = Refused THEN "refused" ELSE "compare"
  /\ UNCHANGED <<args, decision>>

CompareGpuTimings ==
  /\ stage = "compare"
  /\ decision' = compare_gpu_timings(args.ref, args.cmp, resolved.thresholds)
  /\ stage' = "done"
  /\ UNCHANGED <<args, resolved>>

VerdictReached == stage \in {"refused", "done"} /\ UNCHANGED verdict_vars

VerdictNext == ResolveThresholds \/ CompareGpuTimings \/ VerdictReached

VerdictSpec == VerdictInit /\ [][VerdictNext]_verdict_vars

-----------------------------------------------------------------------------
(* Properties *)

Decided(d) == d.status \in {"FAST", "SLOW", "SAME"}

Mirror(status) ==
  IF status = "FAST" THEN "SLOW" ELSE IF status = "SLOW" THEN "FAST" ELSE status

\* Comparing the same two runs the other way round gives the opposite verdict
\* for the same reason: no path of the decision (intervals, cycles, coverage
\* in both directions, fallbacks) favors the reference.
SwappingSwapsTheVerdict ==
  stage = "done" =>
    compare_gpu_timings(args.cmp, args.ref, resolved.thresholds)
      = Decision(Mirror(decision.status), decision.reason)

\* The cycles each side took, by the best evidence both have: the median of
\* the bulk cycles, or the center at the mean clock rate.
CycleCenters ==
  FirstCommon([s \in 1..2 |-> LET bulk == get_bulk_cycles(<<args.ref, args.cmp>>[s]) IN
                               IF Present(bulk) THEN InputFromSamples(bulk).center ELSE None],
              LET i == compute_timing_comparison_inputs(args.ref, args.cmp)
              IN <<i[1].center * args.ref.clock, i[2].center * args.cmp.clock>>)

VerdictOfCycles(status, centers) ==
  /\ status = "FAST" => centers[2] < centers[1]
  /\ status = "SLOW" => centers[2] > centers[1]

\* A GPU that merely ran at another clock rate is neither faster nor slower:
\* the verdict is that of the cycles too.
FasterInCyclesToo == stage = "done" => VerdictOfCycles(decision.status, CycleCenters)

WithoutBulk(t) == [t EXCEPT !.sample_source = None, !.frequency_source = None]

HasRobustSummary(t) == Present(WithInterval(compute_robust_summary_estimate(t),
                                            compute_robust_summary_interval(t)))

\* Bulk data settle what the summaries leave open or make it ambiguous again,
\* but they never turn one verdict into another one.
BulkNeverContradicts ==
  (stage = "done" /\ HasRobustSummary(args.ref) /\ HasRobustSummary(args.cmp)) =>
    LET summary == compare_gpu_timings(WithoutBulk(args.ref), WithoutBulk(args.cmp),
                                       resolved.thresholds)
    IN Decided(summary) /\ Decided(decision) => summary.status = decision.status

\* The filter of rare values may take away covered support as well, so only
\* without it does a preset that is stricter in every threshold decide less.
NoRareValues(timing, th) ==
  LET times == SampleTimes(timing) cycles == get_bulk_cycles(timing) IN
    \A runs \in {times, cycles} \ {None} :
      compute_effective_support_mask(runs, th) = Values(runs)

\* What a strict preset decides, the more permissive ones decide alike.
StricterDecidesLess ==
  stage = "done" =>
    \A names \in {<<"strict", "default">>, <<"default", "permissive">>} :
      LET strict == COMPARISON_THRESHOLD_PRESETS[names[1]]
          lenient == COMPARISON_THRESHOLD_PRESETS[names[2]]
          d == compare_gpu_timings(args.ref, args.cmp, strict)
      IN (Decided(d) /\ \A t \in {args.ref, args.cmp} : NoRareValues(t, lenient))
           => compare_gpu_timings(args.ref, args.cmp, lenient).status = d.status

\* The file --dump-config prints gives the thresholds it was printed with,
\* whatever preset the command line selects next to it.
DumpReproduces ==
  stage \in {"compare", "done"} =>
    LET dumped == dump_comparison_config(resolved.preset, resolved.thresholds) IN
      /\ resolve_comparison_thresholds(None, dumped) = resolved
      /\ \A name \in DOMAIN COMPARISON_THRESHOLD_PRESETS :
           resolve_comparison_thresholds(name, dumped).thresholds = resolved.thresholds

\* What the file says of a threshold, by table and key
Says(config, field, v) ==
  \E table \in DOMAIN COMPARISON_CONFIG_KEYS :
    \E key \in DOMAIN COMPARISON_CONFIG_KEYS[table] :
      /\ COMPARISON_CONFIG_KEYS[table][key] = field
      /\ IF table = "rare_support"
         THEN /\ "bulk" \in DOMAIN config /\ "rare_support" \in DOMAIN config["bulk"]
              /\ key \in DOMAIN config["bulk"]["rare_support"]
              /\ config["bulk"]["rare_support"][key] = v
         ELSE table \in DOMAIN config /\ key \in DOMAIN config[table] /\ config[table][key] = v

Mentioned(config) ==
  LET tables == SectionTables(config) IN
    UNION {{tables[s][k] : k \in DOMAIN tables[s]} : s \in DOMAIN tables}

\* Every threshold in force lies in its range and is the one of the file or
\* else the one of the preset, which the command line selects before the file.
EveryThresholdAsWritten ==
  (stage \in {"compare", "done"} /\ args.config # None) =>
    \A field \in Fields :
      LET v == resolved.thresholds[field] IN
        /\ v >= 0 /\ (field \in Unbounded \/ v <= Scale)
        /\ \/ Says(args.config, field, v)
           \/ /\ ~ \E u \in Mentioned(args.config) : Says(args.config, field, u)
              /\ v = COMPARISON_THRESHOLD_PRESETS[resolved.preset][field]
        /\ Present(args.preset) => resolved.preset = args.preset
=============================================================================
