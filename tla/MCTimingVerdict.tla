-------------------------- MODULE MCTimingVerdict --------------------------
(***************************************************************************)
(* Instances of TimingVerdict: pairs of timings whose intervals touch,     *)
(* overlap or leave a gap near each preset's threshold, with clock rates   *)
(* that confirm the gap, undo it or are unusable; pairs with bulk data in  *)
(* every state of repair; pairs with classical summaries only; and, for    *)
(* one pair of timings, configurations that are complete, partial, out of  *)
(* range or malformed.                                                     *)
(***************************************************************************)
EXTENDS TimingVerdict

Unmeasured ==
  [minimum |-> None, maximum |-> None, mean |-> None, stdev |-> None,
   stdev_relative |-> None, first_quartile |-> None, median |-> None,
   third_quartile |-> None, iqr |-> None, iqr_relative |-> None, clock |-> None,
   sample_source |-> None, frequency_source |-> None]

Quartiles(lower, q1, median, q3) ==
  [Unmeasured EXCEPT !.minimum = lower, !.first_quartile = q1, !.median = median,
                     !.third_quartile = q3, !.iqr = q3 - q1]

\* Around the thresholds: gaps of 0.2, 0.4, 0.7 and 2 percent, centers apart by
\* 0, 0.2, 0.4, 0.8 percent, and intervals of no width
Shapes ==
  {Quartiles(1000, 1002, 1004, 1008), Quartiles(1001, 1003, 1006, 1012),
   Quartiles(1010, 1011, 1012, 1014), Quartiles(1012, 1013, 1014, 1016),
   Quartiles(1015, 1016, 1017, 1018), Quartiles(1028, 1030, 1032, 1036),
   Quartiles(1004, 1004, 1004, 1004), Quartiles(1000, 1000, 1008, 1060)}

Clocks == {None, NonFinite, 0, 100, 101, 103}

Summarized == {[shape EXCEPT !.clock = clock] : shape \in Shapes, clock \in Clocks}

\* Summaries that cannot be used, or only in part
Partial ==
  LET base == [Quartiles(1000, 1002, 1004, 1008) EXCEPT !.clock = 100] IN
    {base, [base EXCEPT !.iqr = None], [base EXCEPT !.iqr = NonFinite],
     [base EXCEPT !.iqr_relative = <<-1, Scale>>], [base EXCEPT !.iqr_relative = <<150, Scale>>],
     [base EXCEPT !.first_quartile = 1005], [base EXCEPT !.median = NonFinite],
     [base EXCEPT !.median = None], [base EXCEPT !.median = 0], [base EXCEPT !.minimum = None]}

Means ==
  {[Unmeasured EXCEPT !.mean = mean, !.stdev = stdev, !.minimum = lower, !.maximum = upper,
                      !.clock = 100] :
     mean \in {None, -1, 1004, 1020}, stdev \in {None, NonFinite, 3, 2000},
     lower \in {None, 1002}, upper \in {None, 1006}}
  \cup {[Unmeasured EXCEPT !.mean = 1004, !.stdev_relative = <<30, Scale>>]}

Run(v, n) == [value |-> v, count |-> n]

Good(runs) == [count |-> Total(runs), file |-> runs]

Samples ==
  {<<Run(1000, 3), Run(1004, 8), Run(1008, 3)>>,
   <<Run(1001, 3), Run(1006, 8), Run(1012, 3)>>,
   <<Run(1003, 1), Run(1005, 1), Run(1011, 1)>>,
   <<Run(1004, 990), Run(1080, 6), Run(1090, 1)>>,
   <<Run(1004, 992), Run(1081, 1), Run(1005, 1)>>,
   <<Run(1030, 5), Run(1034, 8), Run(1036, 3)>>}

SteadyClock(runs, rate) == [i \in DOMAIN runs |-> Run(rate, runs[i].count)]

InRepair ==
  UNION {{[s |-> Good(runs), f |-> Good(SteadyClock(runs, 100))],
          [s |-> Good(runs), f |-> Good(SteadyClock(runs, 103))],
          [s |-> Good(runs), f |-> None]} : runs \in Samples}

Damaged ==
  LET runs == <<Run(1000, 3), Run(1004, 8), Run(1008, 3)>>
      missing == [count |-> 14, file |-> None]
      short == [count |-> 20, file |-> runs]
      empty == [count |-> 0, file |-> <<>>]
      rate == Good(SteadyClock(runs, 100))
  IN {[s |-> None, f |-> None], [s |-> missing, f |-> missing], [s |-> empty, f |-> empty],
      [s |-> short, f |-> rate], [s |-> Good(runs), f |-> missing],
      [s |-> Good(runs), f |-> Good(SteadyClock(runs, 0))], [s |-> None, f |-> rate],
      [s |-> Good(<<Run(NonFinite, 14)>>), f |-> Good(<<Run(100, 14)>>)]}

WithBulk(timing, bulk) ==
  [timing EXCEPT !.sample_source = bulk.s, !.frequency_source = bulk.f]

Sampled ==
  {WithBulk([Quartiles(q[1], q[2], q[3], q[4]) EXCEPT !.clock = clock], bulk) :
     q \in {<<1000, 1002, 1004, 1008>>, <<1028, 1030, 1032, 1036>>},
     clock \in {None, 101}, bulk \in InRepair \cup Damaged}
  \cup {WithBulk(Unmeasured, bulk) : bulk \in InRepair \cup Damaged}

Pairs ==
  (Summarized \X Summarized) \cup (Sampled \X Sampled) \cup
  ((Partial \cup Means) \X (Partial \cup Means))

(* Configurations *)

ConfigNumbers == {-1, 0, 60, Scale, Scale + 1, NonFinite, NotANumber}

Small ==
  {"version" :> 1 @@ "same" :> (k :> v) :
     k \in {"center_relative", "overlap_fraction", "unknown"}, v \in ConfigNumbers}
  \cup {"version" :> 1 @@ "bulk" :> ("sample_coverage" :> 9000 @@ "rare_support" :> (k :> v)) :
     k \in {"sample_fraction", "max_removed_sample_fraction", "sample_coverage"}, v \in ConfigNumbers}

Presets == {"version" :> v @@ "preset" :> ("name" :> name) @@ "clear_gap" :> ("relative" :> 70) :
              v \in {1, 2, NotANumber}, name \in {"strict", "permissive", "unknown", NotANumber}}

Odd ==
  {"version" :> 1, "clear_gap" :> ("relative" :> 70), "version" :> 1 @@ "gap" :> NotATable,
   "version" :> 1 @@ "bulk" :> NotATable, "version" :> 1 @@ "preset" :> NotATable,
   "version" :> 1 @@ "preset" :> <<>>, "version" :> 1 @@ "bulk" :> ("rare_support" :> NotATable),
   "version" :> 1 @@ "bulk" :> ("center_relative" :> 70),
   "version" :> 1 @@ "preset" :> ("title" :> "strict")}

Configs == {None} \cup Small \cup Presets \cup Odd

Names == {None, "default", "strict", "permissive"}

Comparison(preset, config, pair) ==
  [preset |-> preset, config |-> config, ref |-> pair[1], cmp |-> pair[2]]

OnePair == <<Quartiles(1000, 1002, 1004, 1008), Quartiles(1010, 1011, 1012, 1014)>>

\* Intervals need not overlap.
Lenient == "version" :> 1 @@ "same" :> ("overlap_fraction" :> 0)

AllComparisons ==
  {Comparison(name, config, OnePair) : name \in Names, config \in Configs}
  \cup {Comparison(None, None, pair) : pair \in Pairs}
  \cup {Comparison("strict", Lenient, pair) : pair \in Summarized \X Summarized}
=============================================================================
