---------------------------- MODULE OptionParser ----------------------------
(***************************************************************************)
(* The command line, one argument at a time.  An option given before any   *)
(* --benchmark is kept as a global one and handled again for every         *)
(* benchmark that is added, by the same handlers; an option after it is    *)
(* for the last benchmark.  A stopping criterion may be selected once in   *)
(* each of the two scopes, and before its parameters.                      *)
(*                                                                         *)
(* The text of a value is abstracted: a number, or Unparsable.             *)
(* Percentages are counted in percent, other fractions in thousandths.  An *)
(* argument is its option with the parameter after it.                     *)
(***************************************************************************)
EXTENDS CriterionManager, Sequences, FiniteSets, SequencesExt

CONSTANTS
  Registered,     \* the benchmarks of the program, as their authors set them
  TypeAxes,       \* the names of the axes that are over types
  DeviceIds,
  Arguments,      \* the arguments that may be given
  MaxArgs,        \* bound on their number
  Rare,           \* those of them that are given at most MaxRare times
  MaxRare

Unparsable == -99
AllDevices == -1

Int64Props == {"--min-samples", "--cold-warmup-runs"}
Float64Props == {"--skip-time", "--timeout", "--cold-max-warmup-walltime",
                 "--batch-target-time", "--throttle-threshold",
                 "--throttle-recovery-delay"}
Props == Int64Props \cup Float64Props

Printers == {"--markdown", "--csv", "--json", "--jsonbin"}
Streams == {"stdout", "stderr"}
Queries == {"--help", "--help-axes", "--version", "--list",
            "--jsonlist-benches", "--jsonlist-devices"}
Modifications == {"--persistence-mode", "--lock-gpu-clocks"}
Settings == {"--stopping-criterion", "--profile", "--no-batch", "--devices",
             "--axis", "property", "parameter"}

BenchmarkFields ==
  {"name", "is_cpu_only", "devices", "axes", "props", "run_once",
   "disable_blocking_kernel", "skip_batched", "stopping_criterion", "criterion_params"}

ASSUME OptionParserAssumption ==
  /\ MaxArgs \in Nat /\ MaxRare \in Nat /\ Rare \subseteq Arguments
  /\ DeviceIds \subseteq Nat
  /\ Registered \in Seq(Range(Registered)) /\ Registered # <<>>
  /\ \A b \in Range(Registered) :
       /\ DOMAIN b = BenchmarkFields
       /\ {b.run_once, b.disable_blocking_kernel} \subseteq BOOLEAN
       /\ b.axes \in [DOMAIN b.axes -> SUBSET Int]
       /\ b.props \in [Props -> Int]
       /\ b.stopping_criterion \in Criteria
       /\ b.criterion_params \in [DOMAIN Defaults[b.stopping_criterion] -> Int]
  /\ \A a \in Arguments :
       /\ a.opt = "property" => a.key \in Props
       /\ a.opt = "parameter" => a.key \in Params
       /\ a.opt \in {"--profile", "--no-batch", "--devices"} => a.key = ""

VARIABLES
  status,
  m_args,         \* the arguments so far
  parser          \* the option_parser

parsing == <<status, m_args, parser>>

NewScope == [selected |-> "none", params |-> {}]

NewParser ==
  [m_benchmarks |-> <<>>, m_global_benchmark_args |-> <<>>,
   global |-> NewScope, local |-> NewScope,
   m_recent_devices |-> DeviceIds, modified |-> [d \in DeviceIds |-> {}],
   m_printer |-> {}, m_have_stdout_printer |-> FALSE,
   m_exit_after_parsing |-> FALSE, m_used_devices |-> DeviceIds,
   error |-> "none"]

ParserInit ==
  /\ m_map = Defaults
  /\ status = "parsing"
  /\ m_args = <<>>
  /\ parser = NewParser

\* benchmark_manager::get_benchmark: the first of that name
Declared(name) ==
  Registered[SelectInSeq(Registered, LAMBDA b : b.name = name)]

-----------------------------------------------------------------------------
(* Handlers of the options that may be global.  p is the parser, a the     *)
(* argument.                                                               *)

Fail(p, why) == [p EXCEPT !.error = why]

IsGlobal(p) == p.m_benchmarks = <<>>

Keep(p, a) == [p EXCEPT !.m_global_benchmark_args = Append(@, a)]

\* The benchmark the options are for
Bench(p) == Last(p.m_benchmarks)

WithBench(p, b) == [p EXCEPT !.m_benchmarks[Len(p.m_benchmarks)] = b]

ScopeState(p) == IF IsGlobal(p) THEN p.global ELSE p.local

WithScope(p, s) ==
  IF IsGlobal(p) THEN [p EXCEPT !.global = s] ELSE [p EXCEPT !.local = s]

\* A selection must not overwrite or discard what its scope has given before.
WouldDiscard(s) == s.selected # "none" \/ s.params # {}

\* benchmark_base::set_stopping_criterion
SelectCriterion(b, c) ==
  [b EXCEPT !.stopping_criterion = c, !.criterion_params = m_map[c]]

\* A global selection is not looked up before it is replayed.
set_stopping_criterion(p, a) ==
  LET s == ScopeState(p)
      selected == [s EXCEPT !.selected = a.key]
  IN IF WouldDiscard(s) THEN Fail(p, "scope")
     ELSE IF IsGlobal(p) THEN WithScope(Keep(p, a), selected)
     ELSE IF a.key \notin Criteria THEN Fail(p, "no such criterion")
     ELSE WithScope(WithBench(p, SelectCriterion(Bench(p), a.key)), selected)

current_global_stopping_criterion(args) ==
  LET selections == SelectSeq(args, LAMBDA a : a.opt = "--stopping-criterion")
  IN IF selections = <<>> THEN default_stopping_criterion ELSE Last(selections).key

\* Percentages become ratios, and there is at least one warmup run.
Stored(key, v) ==
  CASE key \in {"max-noise", "--throttle-threshold"} -> 10 * v
    [] key = "--cold-warmup-runs" /\ v <= 0 -> 1
    [] OTHER -> v

\* Only a benchmark's value is parsed; a global one, when it is replayed.
update_criterion_prop(p, a) ==
  LET s == ScopeState(p)
      given == [s EXCEPT !.params = @ \cup {a.key}]
      c == current_global_stopping_criterion(p.m_global_benchmark_args)
  IN IF IsGlobal(p)
     THEN IF c \notin Criteria THEN Fail(p, "no such criterion")
          ELSE IF a.key \notin DOMAIN m_map[c] THEN Fail(p, "parameter")
          ELSE WithScope(Keep(p, a), given)
     ELSE IF a.key \notin DOMAIN Bench(p).criterion_params THEN Fail(p, "parameter")
          ELSE IF a.val = Unparsable THEN Fail(p, "value")
          ELSE WithScope(WithBench(p, [Bench(p) EXCEPT
                           !.criterion_params[a.key] = Stored(a.key, a.val)]), given)

\* Any other property of the benchmark, with its new value if that is valid
UpdateProp(p, a, is_valid) ==
  IF IsGlobal(p) THEN Keep(p, a)
  ELSE IF ~is_valid THEN Fail(p, "value")
  ELSE WithBench(p, [Bench(p) EXCEPT !.props[a.key] = Stored(a.key, a.val)])

update_int64_prop(p, a) == UpdateProp(p, a, a.val # Unparsable)

\* validate_batch_target_time
update_float64_prop(p, a) ==
  UpdateProp(p, a, /\ a.val # Unparsable
                   /\ a.key = "--batch-target-time" => a.val > 0)

enable_profile(p, a) ==
  IF IsGlobal(p) THEN Keep(p, a)
  ELSE WithBench(p, [Bench(p) EXCEPT !.disable_blocking_kernel = TRUE,
                                     !.run_once = TRUE])

disable_batched(p, a) ==
  IF IsGlobal(p) THEN Keep(p, a)
  ELSE WithBench(p, [Bench(p) EXCEPT !.skip_batched = TRUE])

parse_devices(val) == IF val = AllDevices THEN DeviceIds ELSE {val}

\* The devices are parsed at once, and are the recent ones from then on.
update_devices(p, a) ==
  LET devices == parse_devices(a.val)
      applied == IF IsGlobal(p) THEN Keep(p, a)
                 ELSE IF Bench(p).is_cpu_only THEN p
                 ELSE WithBench(p, [Bench(p) EXCEPT !.devices = devices])
  IN IF devices \subseteq DeviceIds
     THEN [applied EXCEPT !.m_recent_devices = devices]
     ELSE Fail(p, "device")

\* A type axis takes a subset of its own types, any other axis new values.
IsInput(b, a) ==
  IF a.key \in TypeAxes THEN a.val \in Declared(b.name).axes[a.key]
                        ELSE a.val # Unparsable

update_axis(p, a) ==
  IF IsGlobal(p) THEN Keep(p, a)
  ELSE IF a.key \notin DOMAIN Bench(p).axes THEN Fail(p, "axis")
  ELSE IF ~IsInput(Bench(p), a) THEN Fail(p, "value")
  ELSE WithBench(p, [Bench(p) EXCEPT !.axes[a.key] = {a.val}])

\* parse_range, for the options above.  The first error is thrown.
HandleSetting(p, a) ==
  IF p.error # "none" THEN p ELSE
  CASE a.opt = "--stopping-criterion"   -> set_stopping_criterion(p, a)
    [] a.opt = "parameter"              -> update_criterion_prop(p, a)
    [] a.opt = "property" /\ a.key \in Int64Props -> update_int64_prop(p, a)
    [] a.opt = "property" /\ a.key \in Float64Props -> update_float64_prop(p, a)
    [] a.opt = "--profile"              -> enable_profile(p, a)
    [] a.opt = "--no-batch"             -> disable_batched(p, a)
    [] a.opt = "--devices"              -> update_devices(p, a)
    [] a.opt = "--axis"                 -> update_axis(p, a)
    [] OTHER                            -> Fail(p, "unrecognized")

HandleAll(p, args) ==
  LET after[k \in 0..Len(args)] ==
        IF k = 0 THEN p ELSE HandleSetting(after[k - 1], args[k])
  IN after[Len(args)]

-----------------------------------------------------------------------------
(* Benchmarks, and what is said of the program as a whole                  *)

ForgetScope(p) == [p EXCEPT !.local = NewScope]

\* Mutant: only the first benchmark gets the global options.
ReplayOnce(p) ==
  IF Len(p.m_benchmarks) > 1 THEN p
  ELSE ForgetScope(HandleAll(ForgetScope(p), p.m_global_benchmark_args))

\* The replayed options have a scope of their own.
replay_global_args(p) ==
  ForgetScope(HandleAll(ForgetScope(p), p.m_global_benchmark_args))

\* Every setting but m_skip_batched is copied.
clone(b) == [b EXCEPT !.skip_batched = FALSE]

WithClone(p, b) ==
  replay_global_args([p EXCEPT !.m_benchmarks = Append(@, clone(b))])

Names == {Registered[b].name : b \in DOMAIN Registered}

add_benchmark(p, a) ==
  IF a.key \in Names THEN WithClone(p, Declared(a.key))
                     ELSE Fail(p, "no such benchmark")

add_printer(p, a) ==
  IF a.opt = "--jsonbin" /\ a.key \in Streams THEN Fail(p, "stream")
  ELSE [p EXCEPT !.m_printer = @ \cup {<<a.opt, a.key>>},
                 !.m_have_stdout_printer = @ \/ a.key = "stdout"]

\* set_persistence_mode, lock_gpu_clocks.  The driver is not asked whether it
\* agrees.
modify_devices(p, a) ==
  IF a.val = Unparsable THEN Fail([p EXCEPT !.m_exit_after_parsing = TRUE], "value")
  ELSE [p EXCEPT !.m_exit_after_parsing = TRUE,
                 !.modified = [d \in DeviceIds |->
                                 IF d \in p.m_recent_devices
                                 THEN @[d] \cup {<<a.opt, a.val>>} ELSE @[d]]]

WithNext(p, b) == IF p.error = "none" THEN WithClone(p, b) ELSE p

\* All benchmarks, when none is named
add_all(p) ==
  LET after[k \in 0..Len(Registered)] ==
        IF k = 0 THEN p ELSE WithNext(after[k - 1], Registered[k])
  IN after[Len(Registered)]

UsedDevices(p) ==
  UNION {p.m_benchmarks[i].devices : i \in DOMAIN p.m_benchmarks}

-----------------------------------------------------------------------------
(* parse_range, one argument after the other                               *)

PcAfter(p, next) == IF p.error = "none" THEN next ELSE "rejected"

\* The next argument is a.
Take(a) ==
  /\ status = "parsing"
  /\ Len(m_args) < MaxArgs
  /\ a \in Rare => Len(SelectSeq(m_args, LAMBDA b : b \in Rare)) < MaxRare
  /\ m_args' = Append(m_args, a)

Handle(a, p) ==
  /\ Take(a)
  /\ parser' = p
  /\ status' = PcAfter(p, "parsing")
  /\ UNCHANGED m_map

ParseSetting ==
  \E a \in Arguments : a.opt \in Settings /\ Handle(a, HandleSetting(parser, a))

ParseBenchmark ==
  \E a \in Arguments : a.opt = "--benchmark" /\ Handle(a, add_benchmark(parser, a))

ParseModification ==
  \E a \in Arguments :
    a.opt \in Modifications /\ Handle(a, modify_devices(parser, a))

ParsePrinter ==
  \E a \in Arguments : a.opt \in Printers /\ Handle(a, add_printer(parser, a))

ParseQuiet ==
  \E a \in Arguments :
    a.opt = "--quiet" /\ Handle(a, [parser EXCEPT !.m_have_stdout_printer = TRUE])

\* Also the last option, when its parameter is missing
ParseUnrecognized ==
  \E a \in Arguments :
    a.opt = "unrecognized" /\ Handle(a, Fail(parser, "unrecognized"))

\* The answer is printed, and the process exits.
ParseQuery ==
  /\ \E a \in Arguments : a.opt \in Queries /\ Take(a)
  /\ status' = "exited"
  /\ UNCHANGED <<parser, m_map>>

ExitAfterModification ==
  /\ status = "parsing"
  /\ parser.m_exit_after_parsing
  /\ status' = "exited"
  /\ UNCHANGED <<m_args, parser, m_map>>

\* The end of parse_impl
FinishParsing ==
  /\ status = "parsing"
  /\ ~parser.m_exit_after_parsing
  /\ LET p == IF parser.m_benchmarks = <<>> THEN add_all(parser) ELSE parser
         q == IF p.m_have_stdout_printer THEN p
              ELSE add_printer(p, [opt |-> "--markdown", key |-> "stdout"])
     IN /\ parser' = IF p.error # "none" THEN p
                     ELSE [q EXCEPT !.m_used_devices = UsedDevices(q)]
        /\ status' = PcAfter(p, "parsed")
  /\ UNCHANGED <<m_args, m_map>>

Parse == \/ ParseSetting \/ ParseBenchmark \/ ParseModification \/ ParsePrinter
         \/ ParseQuiet \/ ParseUnrecognized \/ ParseQuery
         \/ ExitAfterModification \/ FinishParsing

-----------------------------------------------------------------------------
(* What a command line says, read as the documentation reads it: an option *)
(* "applies to the most recent --benchmark, or all benchmarks if specified *)
(* before any --benchmark arguments" (docs/cli_help.md:93).                *)

\* The section of an argument: 0 before any --benchmark, i after the i-th
SectionOf(j) ==
  Cardinality({k \in 1..j : m_args[k].opt = "--benchmark"})

\* The arguments of a section with this option and key
GivenIn(sections, opt, key) ==
  {j \in DOMAIN m_args : /\ SectionOf(j) \in sections
                         /\ m_args[j].opt = opt /\ m_args[j].key = key}

\* Those that apply to the i-th benchmark
Given(i, opt, key) == GivenIn({0, i}, opt, key)

LastGiven(given) == m_args[Max(given)].val

SelectionsIn(sections) ==
  UNION {GivenIn(sections, "--stopping-criterion", c) : c \in Criteria}

\* The value of a setting: the last one given, or else what was there
Written(given, key, otherwise) ==
  IF given = {} THEN otherwise ELSE Stored(key, LastGiven(given))

DevicesAsWritten(i, b) ==
  LET given == Given(i, "--devices", "")
  IN b.devices = IF b.is_cpu_only \/ given = {} THEN Declared(b.name).devices
                 ELSE parse_devices(LastGiven(given))

CriterionAsWritten(i, b) ==
  LET selections == SelectionsIn({0, i})
      d          == Declared(b.name)
      criterion  == IF selections = {} THEN d.stopping_criterion
                                       ELSE m_args[Max(selections)].key
      initial    == IF selections = {} THEN d.criterion_params ELSE Defaults[criterion]
  IN /\ b.stopping_criterion = criterion
     /\ b.criterion_params =
          [p \in DOMAIN Defaults[criterion] |->
             Written({j \in Given(i, "parameter", p) : \A k \in selections : k < j},
                     p, initial[p])]

\* All settings of the i-th benchmark but its criterion and devices
SettingsAsWritten(i, b) ==
  LET d == Declared(b.name)
      profiled == Given(i, "--profile", "") # {}
  IN /\ b.props = [k \in Props |-> Written(Given(i, "property", k), k, d.props[k])]
     /\ b.axes = [x \in DOMAIN d.axes |->
                    LET given == Given(i, "--axis", x)
                    IN IF given = {} THEN d.axes[x] ELSE {LastGiven(given)}]
     /\ b.run_once = (d.run_once \/ profiled)
     /\ b.disable_blocking_kernel = (d.disable_blocking_kernel \/ profiled)
     /\ Given(i, "--no-batch", "") # {} => b.skip_batched

\* No parameter of a stopping criterion is discarded but where a benchmark
\* overrides the global criterion: "--stopping-criterion {} would discard
\* previously specified stopping-criterion parameter(s)"
\* (nvbench/option_parser.cu:895).
NothingDiscarded(i, b) ==
  \A p \in Params :
    LET sections == IF SelectionsIn({i}) = {} THEN {0, i} ELSE {i}
        given    == GivenIn(sections, "parameter", p)
    IN given # {} => /\ p \in DOMAIN b.criterion_params
                     /\ b.criterion_params[p] = Stored(p, LastGiven(given))

\* Every benchmark of an accepted command line has the settings that are
\* written for it, however the options before it, of it and after it are
\* mixed, and nothing written for its criterion is discarded.
EveryBenchmarkAsWritten ==
  status = "parsed" =>
    \A i \in DOMAIN parser.m_benchmarks :
      LET b == parser.m_benchmarks[i]
      IN /\ DevicesAsWritten(i, b)
         /\ CriterionAsWritten(i, b)
         /\ SettingsAsWritten(i, b)
         /\ NothingDiscarded(i, b)
=============================================================================
