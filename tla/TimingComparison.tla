------------------------- MODULE TimingComparison --------------------------
(***************************************************************************)
(* How nvbench-compare-robust decides whether a state became faster,       *)
(* slower or stayed the same: the center and the interval each side's      *)
(* timings are summarized by, the clear gap between them and its           *)
(* confirmation in clock cycles, and the evidence for "same".              *)
(*                                                                         *)
(* A time is an integer of some unit, a clock rate an integer, so cycles   *)
(* are their product; a relative dispersion is a fraction <<num, den>>.    *)
(* Bulk data are read run by run: a sequence of [value, count], which is   *)
(* how the order of samples is forgotten but not their pairing with the    *)
(* frequencies.                                                            *)
(***************************************************************************)
EXTENDS ComparisonConfig, SequencesExt

-----------------------------------------------------------------------------
(* What there is *)

Numbers == Int \cup {None, NonFinite}
Dispersions == (Int \X (Nat \ {0})) \cup {None, NonFinite}
Runs == Seq([value : Int \cup {NonFinite}, count : Nat])
Sources == [count : Int, file : Runs \cup {None}] \cup {None}

\* GpuTimingData
Timings ==
  [minimum : Numbers, maximum : Numbers, mean : Numbers, stdev : Numbers,
   stdev_relative : Dispersions, first_quartile : Numbers, median : Numbers,
   third_quartile : Numbers, iqr : Numbers, iqr_relative : Dispersions, clock : Numbers,
   sample_source : Sources, frequency_source : Sources]

Intervals == [lower : Int, center : Int, upper : Int]
Estimates == [center : Numbers, noise : Dispersions]
Inputs == [center : Numbers, noise : Dispersions, interval : Intervals \cup {None}]
Statuses == {"FAST", "SLOW", "SAME", "AMBG", "????"}
Reasons ==
  {"timing_center_missing", "timing_center_nonfinite", "timing_center_nonpositive",
   "missing_interval", "no_clear_gap", "missing_clock_rate", "invalid_clock_rate",
   "clear_gap_confirmed_by_summary_cycles", "summary_cycle_gap_not_confirmed",
   "clear_gap_confirmed_by_bulk_cycles", "bulk_cycle_gap_not_confirmed",
   "bulk_cycle_data_unusable", "noise_unavailable", "noise_too_high", "centers_not_close",
   "weak_interval_overlap", "same_summary", "same_without_clock_rate",
   "same_confirmed_by_cycles", "cycle_same_not_confirmed", "bulk_data_unavailable",
   "bulk_time_data_unusable", "bulk_time_support_mismatch",
   "bulk_time_same_without_cycles", "bulk_time_same_confirmed_by_summary_cycles",
   "bulk_cycle_support_mismatch", "bulk_same"}
Decisions == [status : Statuses, reason : Reasons]

\* What is absent or not finite is no value of any kind.
ASSUME AbsenceAssumption ==
  /\ None # NonFinite
  /\ \A c \in {None, NonFinite} :
       /\ c \notin Int /\ c \notin Statuses /\ c \notin Int \X (Nat \ {0}) /\ c \notin Runs
       /\ c \notin Intervals /\ c \notin Estimates /\ c \notin Inputs /\ c \notin Decisions

-----------------------------------------------------------------------------
(* Numbers *)

is_positive_finite(v) == v \notin {None, NonFinite} /\ v > 0
is_nonnegative_finite(v) == v \notin {None, NonFinite} /\ v >= 0

is_usable_noise(noise) == noise \notin {None, NonFinite} /\ noise[1] >= 0

NoiseExceeds(noise, ceiling) == noise[1] * Scale > ceiling * noise[2]

\* symmetric_frac_diff(high, low) >= relative, for 0 < low < high
ApartBy(high, low, relative) == (high - low) * Scale >= relative * low

Distance(a, b) == IF a < b THEN b - a ELSE a - b

Closer(a, b, relative) == Distance(a, b) * Scale <= relative * Min({a, b})

OrElse(first, second) == IF Present(first) THEN first ELSE second

compute_relative_dispersion(dispersion, center) ==
  IF \/ None \in {dispersion, center}
     \/ ~ is_positive_finite(center)
  THEN None
  ELSE IF dispersion = NonFinite THEN NonFinite
  ELSE IF dispersion < 0 THEN None
  ELSE <<dispersion, center>>

-----------------------------------------------------------------------------
(* Bulk data *)

SamplesIn(runs) == UNION {{i} \X (1..runs[i].count) : i \in DOMAIN runs}
Total(runs) == Cardinality(SamplesIn(runs))
Values(runs) == {runs[i].value : i \in DOMAIN runs}
Weight(runs, in) == Cardinality({s \in SamplesIn(runs) : runs[s[1]].value \in in})

\* A Float32BinarySource: what the summary announces and what the file holds.
SourceValues(source) ==
  IF source = None \/ source.file = None \/ source.count # Total(source.file)
  THEN None ELSE source.file

has_material_bulk_source(source) ==
  source # None /\ source.count > 0 /\ source.file # None /\ Total(source.file) > 0

has_material_bulk_cycle_sources(timing) ==
  /\ has_material_bulk_source(timing.sample_source)
  /\ has_material_bulk_source(timing.frequency_source)

positive_finite_array(runs) ==
  IF runs = None \/ Total(runs) = 0 \/ \E v \in Values(runs) : ~ is_positive_finite(v)
  THEN None ELSE runs

SampleTimes(timing) == positive_finite_array(SourceValues(timing.sample_source))
Frequencies(timing) == positive_finite_array(SourceValues(timing.frequency_source))

\* The runs of a timing's samples and of its frequencies are cut at the same
\* samples, when there are as many of both.
CutAlike(times, frequencies) ==
  Total(times) = Total(frequencies) =>
    /\ DOMAIN times = DOMAIN frequencies
    /\ \A i \in DOMAIN times : times[i].count = frequencies[i].count

\* samples * frequencies
Cycles(times, frequencies) ==
  [i \in DOMAIN times |->
     [value |-> times[i].value * frequencies[i].value, count |-> times[i].count]]

PairedCycles(times, frequencies) ==
  IF None \in {times, frequencies} \/ Total(times) # Total(frequencies)
  THEN None ELSE Cycles(times, frequencies)

get_bulk_cycles(timing) == PairedCycles(SampleTimes(timing), Frequencies(timing))

-----------------------------------------------------------------------------
(* Intervals *)

make_timing_interval(lower, center, upper) ==
  IF /\ \A v \in {lower, center, upper} : is_positive_finite(v)
     /\ lower <= center /\ center <= upper
  THEN [lower |-> lower, center |-> center, upper |-> upper]
  ELSE None

compute_robust_summary_interval(t) ==
  IF /\ \A v \in {t.minimum, t.first_quartile, t.median, t.third_quartile} :
          is_positive_finite(v)
     /\ t.minimum <= t.first_quartile
     /\ t.first_quartile <= t.median
     /\ t.median <= t.third_quartile
  THEN make_timing_interval(t.minimum, t.median, t.third_quartile)
  ELSE None

\* The lower bound stays positive: mean * 0.001.
compute_mean_summary_interval(t) ==
  IF ~ is_positive_finite(t.mean) \/ ~ is_nonnegative_finite(t.stdev) THEN None
  ELSE LET lower == Max({t.mean - t.stdev, t.mean \div 1000})
           upper == t.mean + t.stdev
       IN make_timing_interval(
            IF is_positive_finite(t.minimum) THEN Max({lower, t.minimum}) ELSE lower,
            t.mean,
            IF is_positive_finite(t.maximum) THEN Min({upper, t.maximum}) ELSE upper)

\* The value at a rank of the sorted samples
AtRank(runs, rank) ==
  Min({v \in Values(runs) : Weight(runs, {u \in Values(runs) : u <= v}) > rank})

percentile_rank(percentile, n) == (percentile * (n - 1) + 50) \div 100

Percentile(runs, percentile) == AtRank(runs, percentile_rank(percentile, Total(runs)))

Input(center, noise, interval) == [center |-> center, noise |-> noise, interval |-> interval]

InputFromQuartiles(lower, q1, median, q3) ==
  Input(median, compute_relative_dispersion(q3 - q1, median),
        make_timing_interval(lower, median, q3))

InputFromSamples(runs) ==
  IF runs = None THEN None
  ELSE InputFromQuartiles(Min(Values(runs)), Percentile(runs, 25), Percentile(runs, 50),
                          Percentile(runs, 75))

scale_interval(interval, rate) ==
  IF ~ is_positive_finite(rate) THEN None
  ELSE make_timing_interval(interval.lower * rate, interval.center * rate,
                            interval.upper * rate)

-----------------------------------------------------------------------------
(* What both sides are summarized by *)

Relative(relative, absolute, center) ==
  OrElse(relative, compute_relative_dispersion(absolute, center))

compute_robust_summary_estimate(t) ==
  IF Present(t.median) /\ (Present(t.iqr_relative) \/ Present(t.iqr))
  THEN [center |-> t.median, noise |-> Relative(t.iqr_relative, t.iqr, t.median)]
  ELSE None

compute_mean_summary_estimate(t) ==
  IF Present(t.mean) /\ (Present(t.stdev_relative) \/ Present(t.stdev))
  THEN [center |-> t.mean, noise |-> Relative(t.stdev_relative, t.stdev, t.mean)]
  ELSE None

WithInterval(estimate, interval) ==
  IF None \in {estimate, interval} THEN None
  ELSE Input(estimate.center, estimate.noise, interval)

compute_robust_timing_input(t) ==
  OrElse(WithInterval(compute_robust_summary_estimate(t), compute_robust_summary_interval(t)),
         InputFromSamples(SampleTimes(t)))

compute_mean_summary_timing_input(t) ==
  WithInterval(compute_mean_summary_estimate(t), compute_mean_summary_interval(t))

\* The first pair that both sides have
FirstCommon(pair, other) == IF None \notin Range(pair) THEN pair ELSE other

\* Without intervals: estimates of one kind for both sides
compute_common_time_estimates(ref, cmp) ==
  LET bare(t) == [center |-> t.mean, noise |-> compute_relative_dispersion(t.stdev, t.mean)] IN
    FirstCommon(<<compute_robust_summary_estimate(ref), compute_robust_summary_estimate(cmp)>>,
    FirstCommon(<<compute_mean_summary_estimate(ref), compute_mean_summary_estimate(cmp)>>,
                <<bare(ref), bare(cmp)>>))

WithoutIntervals(estimates) ==
  [i \in 1..2 |-> Input(estimates[i].center, estimates[i].noise, None)]

\* <<ref, cmp>>
compute_timing_comparison_inputs(ref, cmp) ==
  FirstCommon(<<compute_robust_timing_input(ref), compute_robust_timing_input(cmp)>>,
  FirstCommon(<<compute_mean_summary_timing_input(ref), compute_mean_summary_timing_input(cmp)>>,
              WithoutIntervals(compute_common_time_estimates(ref, cmp))))

-----------------------------------------------------------------------------
(* A clear gap, confirmed in cycles *)

Decision(status, reason) == [status |-> status, reason |-> reason]
Ambiguous(reason) == Decision("AMBG", reason)

compare_intervals_for_clear_gap(r, c, th) ==
  IF c.upper < r.lower /\ ApartBy(r.lower, c.upper, th.clear_gap_relative) THEN "FAST"
  ELSE IF c.lower > r.upper /\ ApartBy(c.lower, r.upper, th.clear_gap_relative) THEN "SLOW"
  ELSE None

\* Mutant: the reference's clock rate for both.
ConfirmsWithOneClock(status, ref, cmp, r, c, th) ==
  IF None \in {ref.clock, cmp.clock} THEN Ambiguous("missing_clock_rate")
  ELSE IF ~ is_positive_finite(ref.clock) THEN Ambiguous("invalid_clock_rate")
  ELSE Decision(status, "clear_gap_confirmed_by_summary_cycles")

confirm_clear_gap_with_clock_rate(status, ref, cmp, r, c, th) ==
  LET ref_cycles == scale_interval(r, ref.clock)
      cmp_cycles == scale_interval(c, cmp.clock)
  IN IF None \in {ref.clock, cmp.clock} THEN Ambiguous("missing_clock_rate")
     ELSE IF None \in {ref_cycles, cmp_cycles} THEN Ambiguous("invalid_clock_rate")
     ELSE IF compare_intervals_for_clear_gap(ref_cycles, cmp_cycles, th) = status
     THEN Decision(status, "clear_gap_confirmed_by_summary_cycles")
     ELSE Ambiguous("summary_cycle_gap_not_confirmed")

BulkCyclesConfirm(status, ref_bulk, cmp_bulk, th) ==
  IF None \in {ref_bulk, cmp_bulk} THEN Ambiguous("bulk_cycle_data_unusable")
  ELSE IF compare_intervals_for_clear_gap(InputFromSamples(ref_bulk).interval,
                                          InputFromSamples(cmp_bulk).interval, th) = status
  THEN Decision(status, "clear_gap_confirmed_by_bulk_cycles")
  ELSE Ambiguous("bulk_cycle_gap_not_confirmed")

\* Mutant: the cycles' verdict replaces that of the times.
TrustsCycles(status, ref, cmp, th) ==
  LET ref_bulk == get_bulk_cycles(ref) cmp_bulk == get_bulk_cycles(cmp)
      by_cycles == compare_intervals_for_clear_gap(InputFromSamples(ref_bulk).interval,
                                                   InputFromSamples(cmp_bulk).interval, th)
  IN IF ~ (has_material_bulk_cycle_sources(ref) /\ has_material_bulk_cycle_sources(cmp))
     THEN None
     ELSE IF None \in {ref_bulk, cmp_bulk} THEN Ambiguous("bulk_cycle_data_unusable")
     ELSE IF Present(by_cycles) THEN Decision(by_cycles, "clear_gap_confirmed_by_bulk_cycles")
     ELSE Ambiguous("bulk_cycle_gap_not_confirmed")

\* None: there is no bulk evidence on both sides
confirm_clear_gap_with_bulk_cycles(status, ref, cmp, th) ==
  IF has_material_bulk_cycle_sources(ref) /\ has_material_bulk_cycle_sources(cmp)
  THEN BulkCyclesConfirm(status, get_bulk_cycles(ref), get_bulk_cycles(cmp), th)
  ELSE None

ConfirmClearGap(status, ref, cmp, r, c, th) ==
  IF status = None THEN Ambiguous("no_clear_gap")
  ELSE OrElse(confirm_clear_gap_with_bulk_cycles(status, ref, cmp, th),
              confirm_clear_gap_with_clock_rate(status, ref, cmp, r, c, th))

compare_timings_for_clear_gap(ref, cmp, r, c, th) ==
  IF None \in {r, c} THEN Ambiguous("missing_interval")
  ELSE ConfirmClearGap(compare_intervals_for_clear_gap(r, c, th), ref, cmp, r, c, th)

-----------------------------------------------------------------------------
(* The same *)

\* <<num, den>>; an interval without width overlaps wholly or not at all.
interval_overlap_fraction(r, c) ==
  LET lower == Max({r.lower, c.lower})
      upper == Min({r.upper, c.upper})
      width == Min({r.upper - r.lower, c.upper - c.lower})
  IN IF upper < lower THEN <<0, 1>>
     ELSE IF width > 0 THEN <<upper - lower, width>>
     ELSE <<1, 1>>

compare_intervals_for_same(r, c, th) ==
  LET overlap == interval_overlap_fraction(r, c) IN
    IF ~ Closer(r.center, c.center, th.same_center_relative)
    THEN Ambiguous("centers_not_close")
    ELSE IF overlap[1] * Scale < th.same_overlap_fraction * overlap[2]
    THEN Ambiguous("weak_interval_overlap")
    ELSE Decision("SAME", "same_summary")

confirm_same_with_clock_rate(ref, cmp, r, c, th) ==
  LET ref_cycles == scale_interval(r, ref.clock)
      cmp_cycles == scale_interval(c, cmp.clock)
  IN IF None \in {ref.clock, cmp.clock} THEN Decision("SAME", "same_without_clock_rate")
     ELSE IF None \in {ref_cycles, cmp_cycles} THEN Ambiguous("invalid_clock_rate")
     ELSE IF compare_intervals_for_same(ref_cycles, cmp_cycles, th).status = "SAME"
     THEN Decision("SAME", "same_confirmed_by_cycles")
     ELSE Ambiguous("cycle_same_not_confirmed")

CountOf(runs, v) == Weight(runs, {v})

FrequentValues(runs, rare_count) ==
  {v \in Values(runs) : CountOf(runs, v) >= Max({2, rare_count})}

\* The values kept, unless what is left out weighs too much
KeepMost(runs, kept, th) ==
  IF \/ th.bulk_support_rare_sample_fraction = 0
     \/ th.bulk_support_max_removed_sample_fraction = 0
     \/ kept = {}
     \/ Weight(runs, Values(runs) \ kept) * Scale
          > th.bulk_support_max_removed_sample_fraction * Total(runs)
  THEN Values(runs) ELSE kept

\* The values support coverage is taken over: rare ones are left out when all
\* of them together weigh little.
compute_effective_support_mask(runs, th) ==
  KeepMost(runs,
           FrequentValues(runs,
             (th.bulk_support_rare_sample_fraction * Total(runs) + Scale - 1) \div Scale),
           th)

\* The values of runs that have a near neighbor among those of others
Covered(runs, others, th) ==
  {v \in Values(runs) : \E u \in Values(others) : Closer(u, v, th.same_center_relative)}

coverages_support_same(runs, covered, support, th) ==
  /\ Weight(runs, covered) * Scale >= th.bulk_same_sample_coverage * Total(runs)
  /\ Cardinality(covered \cap support) * Scale
       >= th.bulk_same_support_coverage * Cardinality(support)

CoverageSupportsSame(runs, others, th) ==
  coverages_support_same(runs, Covered(runs, others, th),
                         compute_effective_support_mask(runs, th), th)

\* Mutant: one direction is enough.
CoversOneWay(ref_values, cmp_values, label, th) ==
  IF CoverageSupportsSame(ref_values, cmp_values, th)
  THEN Decision("SAME", "bulk_same") ELSE Ambiguous(label)

compare_values_for_bulk_same(ref_values, cmp_values, label, th) ==
  IF /\ CoverageSupportsSame(ref_values, cmp_values, th)
     /\ CoverageSupportsSame(cmp_values, ref_values, th)
  THEN Decision("SAME", "bulk_same") ELSE Ambiguous(label)

\* Once the times support it, the cycles have to.
BulkCyclesSame(by_time, ref, cmp, th) ==
  IF by_time.status # "SAME" THEN by_time
  ELSE IF None \in {ref.frequency_source, cmp.frequency_source}
  THEN Decision("SAME", "bulk_time_same_without_cycles")
  ELSE IF None \in {get_bulk_cycles(ref), get_bulk_cycles(cmp)}
  THEN Ambiguous("bulk_cycle_data_unusable")
  ELSE compare_values_for_bulk_same(get_bulk_cycles(ref), get_bulk_cycles(cmp),
                                    "bulk_cycle_support_mismatch", th)

compare_timings_for_bulk_same(ref, cmp, th) ==
  IF None \in {SampleTimes(ref), SampleTimes(cmp)}
  THEN IF None \in {ref.sample_source, cmp.sample_source}
       THEN Ambiguous("bulk_data_unavailable")
       ELSE Ambiguous("bulk_time_data_unusable")
  ELSE BulkCyclesSame(compare_values_for_bulk_same(SampleTimes(ref), SampleTimes(cmp),
                                                   "bulk_time_support_mismatch", th),
                      ref, cmp, th)

\* None: there is no bulk evidence
BulkSame(bulk, summary) ==
  IF bulk.reason = "bulk_data_unavailable" THEN None
  ELSE IF bulk.reason # "bulk_time_same_without_cycles" THEN bulk
  ELSE IF summary.reason = "same_without_clock_rate" THEN bulk
  ELSE IF summary.status = "SAME"
  THEN Decision("SAME", "bulk_time_same_confirmed_by_summary_cycles")
  ELSE summary

SummarySame(noises, summary, th) ==
  IF \E noise \in noises : NoiseExceeds(noise, th.same_relative_dispersion_ceiling)
  THEN Ambiguous("noise_too_high") ELSE summary

\* What is left when the summaries look the same: bulk data, else the clocks
ConfirmSame(bulk, summary, noises, th) ==
  OrElse(BulkSame(bulk, summary), SummarySame(noises, summary, th))

compare_timings_for_same(ref, cmp, i, th) ==
  LET r == i[1].interval  c == i[2].interval IN
    IF ~ is_usable_noise(i[1].noise) \/ ~ is_usable_noise(i[2].noise)
    THEN Ambiguous("noise_unavailable")
    ELSE IF None \in {r, c} THEN Ambiguous("missing_interval")
    ELSE IF compare_intervals_for_same(r, c, th).status # "SAME"
    THEN compare_intervals_for_same(r, c, th)
    ELSE ConfirmSame(compare_timings_for_bulk_same(ref, cmp, th),
                     confirm_same_with_clock_rate(ref, cmp, r, c, th),
                     {i[1].noise, i[2].noise}, th)

-----------------------------------------------------------------------------
(* The comparison *)

unusable_timing_center_decision(ref_time, cmp_time) ==
  IF None \in {ref_time, cmp_time} THEN Decision("????", "timing_center_missing")
  ELSE IF NonFinite \in {ref_time, cmp_time} THEN Decision("????", "timing_center_nonfinite")
  ELSE IF ref_time <= 0 \/ cmp_time <= 0 THEN Decision("????", "timing_center_nonpositive")
  ELSE None

GapOrSame(gap, ref, cmp, i, th) ==
  IF gap.reason \in {"no_clear_gap", "missing_interval"}
  THEN compare_timings_for_same(ref, cmp, i, th) ELSE gap

CompareInputs(ref, cmp, i, th) ==
  OrElse(unusable_timing_center_decision(i[1].center, i[2].center),
         GapOrSame(compare_timings_for_clear_gap(ref, cmp, i[1].interval, i[2].interval, th),
                   ref, cmp, i, th))

compare_gpu_timings(ref, cmp, th) ==
  CompareInputs(ref, cmp, compute_timing_comparison_inputs(ref, cmp), th)
=============================================================================
