-------------------------- MODULE MCCompareTools --------------------------
(***************************************************************************)
(* Commands for CompareTools, a family for each thing that can go wrong:   *)
(* every order and multiplicity of a few states on both sides; devices     *)
(* that differ in number, order and description; filters in every order of *)
(* -a and -b; plots whose names collide; and arguments and files that are  *)
(* refused.                                                                *)
(***************************************************************************)
EXTENDS CompareTools

Unmeasured == TimingOf([timing |-> None])

Timed(lower, q1, median, q3) ==
  [Unmeasured EXCEPT !.minimum = lower, !.first_quartile = q1, !.median = median,
                     !.third_quartile = q3, !.iqr = q3 - q1, !.clock = 100,
                     !.mean = median, !.stdev_relative = <<20, Scale>>]

Base == Timed(1000, 1002, 1004, 1008)
Slower == Timed(1028, 1030, 1032, 1036)

State(device, rest, n, timing) ==
  [device |-> device, name |-> [prefix |-> device, rest |-> rest], axes |-> "N" :> n,
   listed |-> <<"N">>, skipped |-> FALSE, timing |-> timing]

\* A state with a second axis, listed before the first one or after it
TwoAxes(rest, n, m, listed) ==
  [State(0, rest, n, Base) EXCEPT !.axes = @ @@ "M" :> m, !.listed = listed]

Bench(name, devices, states) == [name |-> name, devices |-> devices, states |-> states]

Dev(id, name) == [id |-> id, name |-> name]

File(ids, benchmarks) ==
  [devices |-> [i \in DOMAIN ids |-> Dev(ids[i], "gpu")], benchmarks |-> benchmarks]

Path(content) == [dir |-> FALSE, content |-> content]
Dir(files) == [dir |-> TRUE, files |-> files]

Command(ref, cmp) ==
  [threshold |-> 0, preset |-> None, config |-> None, dump_config |-> FALSE, bulk |-> None,
   plot |-> FALSE, plot_output |-> None, plot_along |-> None, plot_along_output |-> None,
   filter_actions |-> <<>>, reference_devices |-> None, compare_devices |-> None,
   ignore_devices |-> FALSE, paths |-> <<ref, cmp>>, existing |-> {}]

SeqsUpTo(S, n) == UNION {[1..k -> S] : k \in 0..n}

-----------------------------------------------------------------------------
(* States in every order *)

a == State(0, "a", 1, Base)
b == State(0, "a", 2, Base)    \* the same name, another axis value
c == State(0, "c", 1, Base)

OneBench(states) == Path(File(<<0>>, <<Bench("x", <<0>>, states)>>))

Orders ==
  {[Command(OneBench(ref), OneBench(cmp)) EXCEPT !.threshold = t, !.bulk = "stdout"] :
     ref \in SeqsUpTo({a, [a EXCEPT !.timing = Slower], b}, 3),
     cmp \in SeqsUpTo({a, [b EXCEPT !.timing = Slower]}, 3), t \in {0, 2}}
  \cup {[Command(OneBench(ref), OneBench(cmp)) EXCEPT !.bulk = "file", !.threshold = 2,
                                                      !.plot_along = "N"] :
     ref \in SeqsUpTo({a, c}, 2), cmp \in SeqsUpTo({a, [c EXCEPT !.timing = Slower]}, 2)}

\* States that are skipped, or whose summaries are missing, null or unusable
Oddities ==
  {Base, Slower, None, Unmeasured, [Base EXCEPT !.mean = NonFinite],
   [Base EXCEPT !.stdev_relative = None], [Base EXCEPT !.stdev_relative = <<0, Scale>>],
   [Base EXCEPT !.mean = 0, !.median = 0]}

OddStates ==
  {[Command(OneBench(<<[a EXCEPT !.timing = r], c>>),
            OneBench(<<c, [a EXCEPT !.timing = t, !.skipped = skipped]>>))
      EXCEPT !.bulk = "stdout", !.plot = TRUE, !.threshold = threshold] :
     r \in Oddities, t \in Oddities, skipped \in BOOLEAN, threshold \in {0, 2}}

-----------------------------------------------------------------------------
(* Devices *)

OnDevices(ids, states_of(_)) ==
  Bench("x", ids, FlattenSeq([i \in DOMAIN ids |-> states_of(ids[i])]))

TwoStates(id) == <<State(id, "a", 1, Base), State(id, "a", 2, Slower)>>
Prefixed(id) == <<State(id, "a", 1, Base),
                  [State(id, "a", 2, Base) EXCEPT !.name.prefix = None],
                  [State(id, "a", 2, Slower) EXCEPT !.name.prefix = 7]>>

Selections == {None, Refused, <<0>>, <<1>>, <<0, 1>>, <<1, 0>>, <<0, 0>>, <<2>>}

Devices ==
  {[Command(Path(File(ids[1], <<OnDevices(ids[2], TwoStates)>>)),
            Path(File(ids[3], <<OnDevices(ids[4], TwoStates)>>)))
      EXCEPT !.reference_devices = r, !.compare_devices = s, !.ignore_devices = ignore] :
     ids \in {<<<<0, 1>>, <<0, 1>>, <<0, 1>>, <<0, 1>>>>, <<<<0, 1>>, <<0, 1>>, <<1, 0>>, <<1, 0>>>>,
              <<<<0>>, <<0>>, <<0, 1>>, <<0, 1>>>>, <<<<0, 1>>, <<0, 1>>, <<0, 1>>, <<1>>>>,
              <<<<0, 1>>, <<0, 2>>, <<0, 1>>, <<0, 1>>>>, <<<<0>>, <<0>>, <<1>>, <<1>>>>},
     r \in Selections, s \in Selections, ignore \in BOOLEAN}
  \cup {[Command(Path(File(<<0>>, <<OnDevices(<<0>>, Prefixed)>>)),
                 Path(File(<<1>>, <<OnDevices(<<1>>, Prefixed)>>)))
           EXCEPT !.ignore_devices = TRUE]}

-----------------------------------------------------------------------------
(* Filters *)

Axis(name, pow2, values) == <<"axis", [name |-> name, pow2 |-> pow2, values |-> values]>>
Named(name) == <<"benchmark", name>>

FilterActions ==
  {Axis("N", FALSE, <<1>>), Axis("N", TRUE, <<1, 2>>), Axis("M", FALSE, <<1>>),
   Axis("N", FALSE, <<2>>), Named("x"), Named("y"), Named("z")}

Malformed ==
  {Axis("", FALSE, <<1>>), Axis("N", FALSE, <<>>), Axis("N", TRUE, <<NotANumber>>)}

Many(name) ==
  Bench(name, <<0>>,
        [i \in 1..3 |-> TwoAxes(<<"a", "b", "c">>[i], i, i % 2, <<"N", "M">>)])

TwoBenches == Path(File(<<0>>, <<Many("x"), Many("y")>>))
Swapped == Path(File(<<0>>, <<Many("w"), Many("y"), Bench("x", <<0>>, Reverse(Many("x").states))>>))

Filters ==
  {[Command(TwoBenches, Swapped) EXCEPT !.filter_actions = actions] :
     actions \in SeqsUpTo(FilterActions, 3) \cup [1..2 -> Malformed \cup {Named("x")}]}

\* A state of the reference only, that a filter leaves out or not
Extra ==
  {[Command(OneBench(<<a, b, c>>), OneBench(cmp)) EXCEPT !.filter_actions = actions] :
     cmp \in {<<a, c>>, <<c, a, b>>, <<a>>}, actions \in SeqsUpTo(FilterActions, 1)}

-----------------------------------------------------------------------------
(* Plots *)

Sanitize(name) == IF name = "x/y" THEN "x-y" ELSE name

PlotFile(benches) ==
  File(<<0, 1>>, [i \in DOMAIN benches |->
                    [OnDevices(<<0, 1>>, TwoStates) EXCEPT !.name = benches[i]]])

Repeated(id) == TwoStates(id) \o TwoStates(id)

\* Two axes, where the name tells the value of M or does not; one state repeated
Grid(name, listed) ==
  LET state(m, n) == TwoAxes(name[m], n, m, listed)
  IN <<state(1, 1), state(1, 2), state(2, 1), state(2, 2), state(1, 1)>>

PlotPaths ==
  {Path(PlotFile(<<"x-y", "x/y">>)), Path(File(<<0>>, <<OnDevices(<<0>>, Repeated)>>)),
   Dir("1.json" :> File(<<0>>, <<OnDevices(<<0>>, TwoStates)>>) @@
       "2.json" :> File(<<0>>, <<OnDevices(<<0>>, Repeated)>>) @@ "3.json" :> None),
   Path(File(<<0>>, <<Bench("x", <<0>>, <<[a EXCEPT !.axes = "N" :> NotANumber]>>)>>)),
   Path(File(<<0>>, <<Bench("x", <<0>>, <<[a EXCEPT !.axes = "M" :> 1, !.listed = <<"M">>]>>)>>))}
  \cup {OneBench(Grid(name, listed)) : name \in [1..2 -> {"a", "b"}],
                                       listed \in {<<"M", "N">>, <<"N", "M">>}}

Template(fields) == [text |-> "plot", fields |-> fields]

Plots ==
  {[Command(path, path) EXCEPT !.plot = plot, !.plot_along = along, !.plot_output = output,
                               !.plot_along_output = template, !.existing = existing] :
     path \in PlotPaths, plot \in BOOLEAN, along \in {None, "N", ""},
     output \in {None, <<Template(<<>>)>>},
     template \in {None} \cup {Template(f) : f \in {{}, {"benchmark", "axis"}, {"device"},
                                                   {"benchmark", "device", "pair"}, {"other"}}},
     existing \in {{}, {<<Template(<<>>)>>, <<Template(<<>>), 1>>}}}

-----------------------------------------------------------------------------
(* What is refused *)

GoodFile == OneBench(<<a, c>>)

Refusals ==
  LET command == Command(GoodFile, GoodFile) IN
    {[command EXCEPT !.threshold = t] : t \in {-1, NonFinite}}
    \cup {[command EXCEPT !.config = "version" :> v, !.dump_config = dump] :
            v \in {1, 2}, dump \in BOOLEAN}
    \cup {[command EXCEPT !.paths = paths] : paths \in SeqsUpTo({GoodFile}, 3)}
    \cup {[command EXCEPT !.paths = <<p, q>>] :
            p \in {GoodFile, Path(Unreadable), Dir("1.json" :> None)},
            q \in {GoodFile, Path(Unreadable), Dir("1.json" :> GoodFile.content)}}
    \cup {Command(OneBench(<<>>), OneBench(<<>>)),
          Command(OneBench(<<a>>), Path(File(<<0>>, <<>>)))}

AllCommands == Orders \cup OddStates \cup Devices \cup Filters \cup Extra \cup Plots \cup Refusals
=============================================================================
