# NVBench: TLA+ models and proofs

NVBench (`src/nvbench`) is a C++/CUDA framework for micro-benchmarks, with Python bindings
(`src/python`). This directory models the parts of it that decide what is measured, when a
measurement stops, how host and GPU keep out of each other's way, and what the tools around it make
of the results. The modules are translated from the source; TLC checks them on small instances, and the TLA+ proof system proves theorems
about them for every value of the constants.

## 1. The system

### Components

| Component | State it keeps | Operations | What makes it correct |
|---|---|---|---|
| **Blocking kernel** (`blocking_kernel.{cu,cuh}`) | two flags in host memory that a kernel polls and raises | `block`, `unblock`, `unblock_noexcept`; the kernel's loop | the stream drains whatever host and kernel do; no flag is reset or freed while a kernel may use it |
| **Cold measurement** (`detail/measure_cold.{cu,cuh}`, `measure_cold_launch_timer_core.cuh`) | cleanup flags of the timer, CUDA events, timestamp buffers, sample vectors | `run_warmup`, `run_trials`, `start`, `stop`, `cleanup_noexcept`, `record_measurements`, `is_finished`, `generate_summaries` | samples contain only work that was held back and has completed; every exit path releases and drains the stream |
| **CPU-only measurement** (`detail/measure_cpu_only.{cuh,cxx}`) | sample vector, totals | the same loop without a stream | as above, without CUDA |
| **Hot measurement** (`detail/measure_hot.{cu,cuh}`, `stream_cleanup_guard.cuh`) | batch size, totals, cleanup flags | `run_warmup`, `run_trials`, the four size predictions | few launches behind the blocking kernel; a batch fits the timeout; both targets are reached or a timeout is |
| **Stopping criteria** (`detail/{stdrel,entropy,sample_count}_criterion.cxx`) | a summary of the measurements, a window of noise estimates | `initialize`, `add_measurement`, `is_finished` | judges exactly the recorded trials; cannot keep a measurement going for ever on invalid estimates |
| **Criterion manager** (`criterion_manager.cxx`) | one shared object per criterion | `get_criterion`, `add` | one measurement's parameters do not reach another |
| **State generator** (`detail/state_generator.cxx`) | an odometer per group of axes, the states | `create` | every active configuration once per device; its number selects its template instantiation |
| **Runner and main loops** (`runner.{cuh,cxx}`, `main.cuh`, `py_nvbench.cpp`) | states, their skip reason and stream, the active device, the stop flag, the progress counter | `run`, `run_device`, `run_or_skip`, `handle_sampling_exception`, prologue and epilogue | every state dealt with once, on its device; a stop is obeyed; the first reason is reported |
| **Option parser** (`option_parser.cu`) | global and per-benchmark arguments, the benchmarks | one handler per option, `replay_global_args`, `parse` | a benchmark's settings are its defaults, overridden by the globals, overridden by its own |
| **`state::exec`** (`detail/state_exec.cuh`) | none | selects measurements by `exec_tag` and settings | no measurement of a skipped state, hot after cold |
| **State, summaries, axes, named values** | containers | accessors | – |
| **Ring buffer, regression, statistics** | a window of values and its sums | `push_back`, `slide_window` | the sums are those of the window |
| **JSON writer** (`json_printer.cu`) | the output stream, two counters of binary files | `do_process_bulk_data_float64`, `write_jsonbin_sidecar`, `do_print_benchmark_results` | a document never names a file of another run, or one that is not whole |
| **Result readers** (`_benchmark_result.py`; the bulk sources of `nvbench_compare_robust.py`) | the document, where it was found, arrays read eagerly or on demand | `BenchmarkResult.from_json`, `Float32BinarySource.values`, `has_material_payload`, the debug script | what is read for a state is what was measured for it; a lost file costs its state only |
| **Robust comparison, verdict** (`nvbench_compare_robust.py`) | thresholds | `resolve_comparison_thresholds`, `compare_gpu_timings` and its steps | favors neither side; true of cycles too; evidence of one kind never contradicts the other; thresholds as written |
| **Robust comparison, tool and plots** (`nvbench_compare_robust.py`, `_nvbench_compare_plotting.py`) | counters, tables, bulk rows, plot paths | `main`, `compare_benches`, filters, `resolve_plot_output_path` | every state asked for is compared once, with its counterpart; nothing is overwritten |
| **Legacy comparison** (`nvbench_compare.py`) | counters | `compare_benches`, `main` | judges the pairs the robust tool judges |
| **Python decorators** (`_decorators.py`) | the actions recorded on a function, its mark | `axis.*`, `option.*`, `register` | a benchmark is configured as its source reads |
| **CI example runner** (`run_python_examples.py`) | results | `selected_runs`, `run_example_case`, `main` | nothing asked for is left out; success is earned |
| **CUPTI measurement**, **devices**, **bindings**, **other scripts**, **nvbench-ctl** | see PROJECT.json | | |

### How they interact

`main` parses the options into a list of benchmarks. For each, the runner has the state generator
build the states, then walks devices, type configurations and states, and calls the benchmark's
generator with the state. The generator calls `state.exec(tags, launcher)`, which constructs the
measurements in turn: cold first, then hot, whose minimum number of samples is the cold one's
summary. A measurement owns a blocking kernel, events and timestamp buffers, and queues all its work
on the state's one stream; the launcher, which is user code, queues its kernels on the same
stream, may synchronize it, may call the timer itself (`exec_tag::timer`), and may throw at any
time. Measurements report to a stopping criterion shared by all of them. Exceptions run through the
destructors of the timer and the guards, then of the measurement, up to the runner, which turns
them into a skip reason or, for `stop_runner_loop`, into a stop of the loop.

With `--jsonbin`, every cold or CPU-only measurement hands its samples to the JSON printer, which
writes them to numbered files next to the document at once and names them in a summary of the state; the
document itself, opened and emptied when the option was parsed, is written at the end. The readers run later,
in other processes, on a disk that other runs and the user may have changed. The comparison tools
pair the states of two documents; the robust one judges each pair first by summaries, then by the
samples. A Python script registers its benchmarks through decorators that record actions and
`register`, which applies them; the CI runner starts such scripts one by one.

### What is hard

* **Host against device.** The blocking kernel and the host share two flags without
  synchronization. The kernel may time out before, while or after the host releases it; the host's
  own submissions may block because the queue behind the kernel is full.
* **Failure in the middle.** `start()` and `stop()` are each eight steps on a stream, a profiler and
  two timers. Any may throw, before or after it queued its work, and so may the launcher.
* **Ordering.** Flags, timestamp buffers and events are reused by the next trial.
* **Termination.** Four quantities (samples, noise, GPU time, wall time) decide when to stop; some
  may never come (noise not finite, GPU always throttled, launch invisible to the timer).
* **Two enumerations that must agree.** States carry the number of their type configuration, which
  a template metaprogram enumerates independently; progress totals are computed apart from states.
* **Shared and inherited settings.** Stop flags, active devices, criteria and option scopes outlive
  the loop iteration that set them.
* **Files.** A document and its binary files are written at different times and can be separated,
  overwritten or lost; two readers look for them by rules of their own.
* **Decisions from partial evidence.** Intervals, clock rates and samples may each be missing or
  unusable on either side, and the verdict must not turn with what happens to be there.

`PROJECT.json` lists these as hazards, each at its line, with the properties that look for them.

## 2. The modules

```
BlockingKernel  <--EXTENDS--  ColdLaunch, HotBatch
Measurement (abstract)  <--implemented by--  SamplingLoop, HotPrediction
StateGenerator  --its states are the input of-->  Runner  --implements-->  Campaign (abstract)
CriterionManager  <--EXTENDS--  OptionParser  <--EXTENDS--  Session

ComparisonConfig <- TimingComparison <- TimingVerdict
                           ^--- ResultSelection <- CompareTool, LegacyCompare  <- CompareTools
ResultFiles <- BenchmarkResult <- BulkSources <- ResultReaders
PythonBenchmarks <- PythonExamples                          (<- is EXTENDS)

ColdLaunchProofs, HotBatchProofs, HotPredictionProofs, StateGeneratorProofs,
ResultReadersProofs                                         (each <X>Proofs EXTENDS <X>)
RunnerProofs                                                (EXTENDS Runner, PythonExamples)
StoppingProofs                                              (EXTENDS Session, SamplingLoop)
RobustComparisonProofs                                      (EXTENDS TimingVerdict, CompareTools)
```

The two measurements are each cut in two: what happens on the stream during one launch or batch
(ColdLaunch, HotBatch), and how many launches there are and when they end (SamplingLoop,
HotPrediction). The first half leaves the loop's decision free (`MaxLaunches`, `MaxBatch`), the
second leaves the launch's outcome free (any duration), so each holds for every behaviour of
the other. `MC*` modules hold only the constants of the runs.

**BlockingKernel.** `stream` is the queue of work, its head in execution; `Submit` waits for room
(`QueueDepth`). `Block`, `UnblockNoexcept` and `TimeoutDetected` are the host's calls;
`KernelStart`, `KernelTimeOut`, `KernelLeaveLoop`, `KernelReport`, `KernelReturn` are the
statements of the device function, one per access to shared memory or to the clock. The
clock is only `before` or `past` the timeout.

**ColdLaunch.** `pc` is the host's next call, one action per call of `start()`, `stop()` and
`cleanup_noexcept()` plus those of the loops around them. A call that queues work may fail before or
after it did. `flags` holds the timer's Boolean members; `flow` and `scope` say which destructor an
exception reaches next (the guard inside `start`/`stop`, then the timer). `ran` is a history
variable: which recorded work has completed since the last `start()`, and `early` if `event_start`
completed before `event_stop` was queued.

**HotBatch.** The same for `run_trials`' batches: guard, blocked launches, release after at most two
launches, the remaining launches, event, sync, accounting. `m_disable_blocking_kernel` is the
member as the code leaves it.

**HotPrediction.** `predict_batch_size`, `predict_cuda_batch_size`, `predict_timeout_batch_cap` and
`grow_batch_size` as operators on ticks with the width of the integer (`MaxInt`), and the
`do ... while` loop around them.

**SamplingLoop.** `Record` and `Discard` are the two ends of `record_measurements`, `IsFinished` is
`is_finished`, `GenerateSummaries` the choice of summaries and warnings. A criterion is a record of
what it counted; a noise estimate is `under` or `over` the limit or `invalid`, at random; where the
code's verdict depends on the numbers, `Verdict` is the set of the answers the numbers can give.

**StateGenerator.** One action per iteration of `build_axis_configs` and per device and type configuration; `NextIndices` is
`state_iterator::next`. `get_config_count` is the announced total.

**Runner.** One action per loop header of `run_interruptible`/`main_run_benchmarks`, `run`,
`run_device`, and per way a generator may end: it returns (measured or skipped), throws a
`std::exception`, throws `stop_runner_loop`, or throws anything else. `interruptible` chooses the
Python loop, whose stop flag outlives a benchmark.

**CriterionManager.** `m_map` is the parameter map of each shared criterion object;
`do_initialize` copies a measurement's parameters over it, as every criterion does.

**OptionParser.** `parser` is the `option_parser` object: the recorded global arguments, the
benchmarks so far, the recent devices and default settings, the printers. The command line `m_args` is
chosen argument by argument as it is parsed. Each `Parse*` action reads one argument and
runs its whole handler; the handlers of settings are operators from a parser to a parser, because
`replay_global_args` runs the same handlers again, over `m_global_benchmark_args`, for each new
benchmark. Beside the handlers the module states what a command line *means*, as a function of its
arguments alone; the properties compare the two.

**Session.** What follows the parsing: one state per benchmark gets its settings, may
select another criterion (`SetStoppingCriterion`, `state::set_stopping_criterion`), and is measured,
all on the same `m_map`. `measured` is what each measurement judged by.

**Measurement** and **Campaign** are the promises: samples are only gained, a measurement is complete
only with its minimum of samples, gives up only with a timeout, and with one it ends (`Promise`); each
state is dealt with once and none is measured after a stop that was meant for it.

**ComparisonConfig, TimingComparison, TimingVerdict.** The robust comparison of two timings.
Thresholds and relative quantities are integers of `1/Scale`, times and clock rates integers, cycles
their product; samples are runs of equal values, which keeps their pairing with the frequencies. A
configuration file is a function from its keys, with values that are not numbers, not finite or not tables where
the code tells them apart. TimingVerdict is the two steps, resolving and comparing; its properties compare a
verdict with that of the swapped pair, of the pair in cycles, of the pair without bulk data, and under other
presets, and the thresholds with what the file says.

**ResultSelection, CompareTool, LegacyCompare, CompareTools.** An invocation of the robust
tool: one action per check of the command line, per pair of files, per benchmark, per pair of
devices and per state, with the lists and counters `main` and `compare_benches` keep. Each way to
refuse a command is an outcome of its own with its exit code, and what was printed before it stays.
LegacyCompare computes what the legacy tool makes of the same files, as the set of pairs it judges (a state is judged
once per device, and nothing depends on the order); CompareTools states the properties of both. They are compared where
a command means the same to both (`Plain`): one device, names that are unique, no `-a` after a `-b`, and states named
after their device as `state.cxx:225` writes them. The last one is needed: the robust tool takes that prefix away before it
matches, and would pair a state that has it with one that has not.

**ResultFiles.** The disk is a function from paths to contents; a binary file is its owner (run,
state, kind) and its size. A program opens and empties its document, then creates and finishes
one file after the other, fails on some, prints the document, or crashes at any of these steps.

**BenchmarkResult, BulkSources, ResultReaders.** The two readers, as operators on the disk at the moment of
each access, and their composition with running programs and a user who moves directories and deletes
files. `reader.values` and `reader.material` are what one reading has cached; which of its questions a
verdict asks, and when, is left open. `steady` says that nothing else happened during the reading.

**PythonBenchmarks, PythonExamples.** A script is a sequence of definitions with their decorators and calls of
`register`; executing it is one action per statement. PythonExamples runs the child processes of the
cases the command line selects, with the table of cases and the group aliases of the source.

## 3. The runs

| Run | Shows |
|---|---|
| `cold_launch` | every setting, failing call and interleaving of one or two launches per phase: NVBench never waits for a stream only it can release, a destroyed measurement leaves nothing on the stream but an abandoned warmup kernel (section 5), no flag or buffer is reset underfoot, recorded trials were held back and are complete, nothing is left started; the measurement ends |
| `hot_batch` | batches of up to four launches, with a launcher whose two launches overfill the queue: a batch that counts was held back and ran in full, and every measurement that can proceed ends |
| `hot_prediction` | all targets, minima, timeouts (finite, used up, none) and launch costs that change from batch to batch: one more batch brings exactly the missing samples, and the loop implements Measurement, its end included |
| `sampling_loop` | three criteria, cold and CPU-only, any pattern of throttling, durations and noise: vectors, counters and criterion agree, a timeout with the noise unmet is reported, the loop implements Measurement, its end included |
| `state_generator` | 17 724 benchmarks (up to two type axes with every mask, up to two other axes, four device lists): states are exactly the active configurations, numbered in the order of the instantiations, as many as announced |
| `runner` | three benchmarks (two devices and two type configurations; CPU-only with a masked type configuration; one state) under both loops and every way a generator may end: Campaign is implemented, nothing is forgotten, each state runs on its device |
| `session` | command lines of up to five arguments (benchmarks, criteria, their parameters, axis values, devices, printers, modifications), two benchmarks run after each other: every benchmark has the settings its command line writes, no criterion parameter is dropped, and each state is judged by its own parameters whatever the ones before it left in the shared criteria |
| `session_generator_defaults` | the finding of section 5 |
| `timing_verdict` | pairs of timings near every threshold, with clock rates that confirm or undo a gap, bulk files in every state of repair, classical summaries only, and configurations that are whole, partial, out of range or malformed: the verdict is antisymmetric, agrees with the cycles, is not contradicted by bulk data, weakens with stricter presets; thresholds are those written, and `--dump-config` reproduces them |
| `compare_run` | whole invocations on files with repeated and reordered states, devices that differ, up to three filters in any order, colliding plot names and everything that is refused: each state asked for is compared once with its counterpart, bulk rows name the right row, no plot is written over another, no point is lost but those section 5 names, and the legacy tool judges the same pairs |
| `result_readers` | two runs of three plans, with a failure or a crash, a move or a deletion, and one reading by either reader in any interleaving: without deletions what is read is the run's own and whole, a deleted file costs the robust reader its state only, the payload that is found and the values that are read agree, the debug script loads what was compared |
| `python_examples` | command lines by group and case, with missing files and modules, broken, hanging and raising scripts: benchmarks are configured as written, what is asked for is run, the exit status tells |

Every property has a mutant in `PROJECT.json`: a change of the modelled code that a bug could make, and
that the run of the property finds.

### Bounds, and why they are enough

* `QueueDepth = 6`: a blocked cold trial of one kernel just fits, one of two fills the queue and
  has to be freed by the timeout. In `hot_batch` a launcher of three kernels does so.
* `MaxLaunches = 2`, `MaxBatches = 2`: what one launch leaves (flags, flow, queue, `ran`) meets the
  next, in the warmup and in the trials. `start()` drains the stream, so nothing but this is handed on.
  The proofs hold for every number of launches.
* `MaxBatch = 4`: batches shorter than, equal to, and longer than the two blocked launches.
* `MaxInt = 16` stands for the largest `int64_t`; predictions and doublings exceed it.
* SamplingLoop's constants are the code's 5, 64, 64 and 16 shrunk to 2, 2, 1 and 2 and are reached
  within the timeout of 9 ticks; the recovery delay grows by at most 5 ticks and
  up to `MaxDelay = 12`, beyond the timeout; past the timeout, readings of the clock are alike.
* StateGenerator: with two axes every carry of the odometer occurs; axes of one value and of none
  (a product of zero) are among them.
* Runner: stops, exceptions and skips hit the first, the middle and the last state of a benchmark, and
  there is a benchmark before and one after.
* Session: five arguments are a global criterion, a parameter of it, a benchmark, an override of its
  own and a second benchmark. Options that interact with no other are rare (`MaxRare = 1` per
  command line). `MaySelect` is the one criterion a generator may select itself; a
  benchmark has one state, since the next benchmark's is as good a successor as a second one.
* TimingVerdict: gaps of 0.2, 0.4, 0.7 and 2 percent and centers apart by 0 to 0.8 percent lie on either
  side of each preset's thresholds; every pair of the shapes with every pair of clock rates is compared.
* CompareTools: three filter arguments are two scopes with an axis between, before or after them; two
  states with equal names make order matter. Plots along an axis have a second one listed before or after it, in
  states that are repeated and whose name tells the second axis or does not.
* ResultReaders: `MaxRuns = 2` (one run to be overwritten), `MaxFaults = 1`, `MaxChanges = 1`, files of
  one and two samples (so that a file of the wrong run or a cut one, of 0 or 6 bytes, may have the wrong or the right
  size), directories above, at and below the document. The model ends with the reading (`Over`).
* PythonExamples: the whole table of cases; what goes wrong hits the first, a middle and the last of a group.

### Fairness

* `FairSpec` of ColdLaunch and HotBatch: weak fairness of the host's steps that *return* (its thread
  runs, and a call that can return does), of the check of the timeout flag (whose outcome the flag
  decides), and of the device's step (the GPU executes what is queued, and a clock that is read for
  ever passes its timeout). Nothing obliges a call or a launcher to throw, so a host that waits
  for its own stream is not rescued by an exception; that is what makes `Ends` depend on the kernel's
  timeout.
* `Spec` of HotPrediction and SamplingLoop: weak fairness of the loop's step. That each trial and
  each launch takes at least one tick of the wall clock stands for a clock that advances.
* The other specifications have safety properties only, and no fairness: they are sequential programs that
  end when their input does.

### Assumptions

* A stream is FIFO, and one measurement is the only user of its stream. A synchronization that
  throws does so after the stream has drained (a device error ends the stream's work).
* The launcher queues kernels, synchronizes, throws, or calls the timer once; user code that breaks
  CUDA's own rules is outside.
* Durations are whole ticks; the rounding of doubles is left out. Noise is never exactly at the
  limit.
* A generator's `skip("")` with an empty reason, which the code takes for no skip, is left out.
* A launcher that synchronizes, or overfills the queue, with the timeout disabled deadlocks, as the
  documentation of the blocking kernel warns; `Ends` excludes the first, the instance the second.
* The devices of a benchmark are distinct. The code does not check it: a device listed twice has its
  states generated twice, and each of them run twice (`runner.cuh:122`), beyond the announced total.
* The names of a program's benchmarks are distinct. The code does not check it (`benchmark_manager::add` takes any, and
  `get_benchmark` finds the first), so of two with one name the second can only be run with all others. Only
  `SettingsAreAlwaysAsWritten` assumes it (`DistinctNames`).
* A generator selects only criteria that exist (`SelectionAssumption`): for any other name `get_criterion` throws.
* The value of an option is a number or `Unparsable` (percentages in percent, other fractions in
  thousandths); opening a file or asking the driver for a device does not fail; criteria
  defined by a user's program are left out.
* Scaled integers stand for doubles in the comparison: a difference that only rounding makes is left out.
* A write that reports success has reached the disk; directories are moved and files deleted by the user
  only while no program runs. Older versions recorded paths relative to their working directory (the
  readers have a fallback for them); their plans are marked `"cwd"`.
* The CI runner's interpreter either starts for every case or for none. A script is definitions and calls that
  register a function defined before; the examples are in order, and those that the surroundings break have a
  script that is `Faulty`: it registers nothing, has a setting above a `@register`, or registers a function
  that names an unknown criterion (`ExamplesAssumption`).
* No document is written to a directory that is named like a directory of binary files, and the working
  directory does not move with what is in it (`DirectoriesAssumption`). With a path of an older version,
  what a reader tries before the right place leads to no other result: it takes the first file it finds.

## 4. What is proved

Every theorem is about all values of the constants, from the assumptions the modules name on them. None
of the properties is inductive as it stands: each speaks of one place, and holds there because of what
happened several steps earlier. The proof modules state the inductive invariant, one lemma for each of its parts or for each
action, and then the theorems.

**ColdLaunchProofs** – every set of settings, of failing calls, every queue depth and number of launches: `Typing`,
`NoSelfDeadlock`, `LaunchesAreDrained`, `NoResetIsUnderfoot`, `RecordedTrialsWereHeldBack`, `RecordedTrialsAreComplete`,
`NothingIsLeftStarted`. `IInv` says for every place of the host which cleanup flags may and must be set
(`Guards`), where the blocking kernel, the timestamp kernels and the events may still be queued, and which flag answers
for them there (`BlockGuarded`, `StampsGuarded`, `EventsGuarded`), where the stream is drained (`Emptied`), in which order
it is (`Order`), that the kernel holds the stream until it is released or reports (`Kernel`, `Held`),
and that everything recorded that is no longer queued has run (`Completes`). The proof made
explicit what cleanup depends on: the block is armed *before* it is queued, and `stop()` clears a flag only
after its call has returned.

**HotBatchProofs** – any size and number of batches: `HotInvariant` and `CountedBatchIsAlwaysSound`. `IInv` says how many
launches have returned and what is armed (`Progress`), what is queued and in which order (`Placed`, `Order`,
`Kernel`), that completed and pending kernels are together those of all launches made (`Counted`), and
that what began too early is found out by the check before it is counted (`Held`).
Both begin with the same lemmas on what appending to the stream and removing its head do to what
the stream contains.

**HotPredictionProofs** – any targets, minima, timeouts, width of the integers and cost of a launch: `OneMoreBatchAlwaysSuffices`
and `PredictionIsMeasurement`. It rests on lemmas about the predictions: whatever the estimate, a batch has at
least one launch and no more than an integer counts, and a batch predicted for samples alone is exactly what is missing.

**StoppingProofs**, what a measurement is told – every command line (any arguments, of any number, in any order), any benchmarks
and any criteria that generators select: `SettingsAreAlwaysAsWritten` and `AlwaysJudgedByItsOwn`. While the command line is parsed,
`ParsedSoFar` says what the parser remembers of the arguments so far: the list of global arguments is those before the first
`--benchmark`, in their order (`Listed`); each of the two scopes knows of every criterion and every parameter given in it (`Scope`),
so that no selection comes after a parameter (`Ordered`); and benchmark i is configured by the arguments of two
sections, the global one and its own (`ConfiguredAt`). One lemma for each handler says what one more argument
changes of a benchmark (`SettingAccepted` puts them together); the replay walks through the global list by the same
lemma, from a clone that nothing has been written to (`Replayed`). When parsing ends, "the last of each counts" in the order of the
handlers is shown to be what the definition by positions says. `SettingsAreAlwaysAsWritten` has the hypothesis `DistinctNames`
(section 3), used only to know which registered benchmark a clone is of. `AlwaysJudgedByItsOwn` needs of all this that a
benchmark has exactly the parameters of its criterion: a measurement then overwrites everything that the one before
it left in the shared object (`Shared`, `Prepared`), so nothing is inherited.

**StoppingProofs**, that it stops by it – any settings, durations and noise: `SamplesAlwaysAgree`, `StdrelTimeoutAlwaysReported` and
`SamplingIsMeasurement`. `NoiseTracked` ties what stdrel's window holds to the samples it has seen, and `TimedOutUnmet` says
why a measurement that timed out had not finished. The assumption on the constants excludes a sample-count goal of zero, which the
criterion rejects too.

`PredictionIsMeasurement` and `SamplingIsMeasurement` prove `Spec => M!Spec`, the safety of the abstract `Measurement`; that it
concludes is liveness and stays with TLC.

**StateGeneratorProofs** – every benchmark that satisfies `BenchmarkAssumption` (sizes are numbers, the active values of a type axis are some
of its values, those of another axis all of them): `NumberedAsInstantiated` and `EveryConfigurationRuns`. `IInv` has two halves. `Building`:
the iterator has gone through the index vectors that come before its own in the odometer's order, each once and in that order (`Counted`),
and all of them when it is done (`Complete`); the configuration built from a vector is its reverse, masked unless every value is
active (`TypesFound`). That nothing is passed over is `NextIsNext` and `LastIsLast`: no vector lies between an index and its successor, and
none after the one where every axis carries. `Stating`: the states so far are one to one with the triples of device, type configuration and
other configuration that the three loops have been through (`Placed`). At the end, the triples are counted: as many index vectors
as the product of the sizes (`ChoicesCounted`), the product turned round with the axes (`ProductTurnedRound`), and
the masked ones left out (`ChoicesAreMany`), which gives `get_config_count`.

**RunnerProofs**, the benchmarks – every list of benchmarks, both main loops and whatever may fail: `Typing`, `GeneratorsRunOnTheirDevice`,
`StreamsAreReleased`, `TheFirstReasonIsReported` (of single steps), `RunImplementsCampaign` and `NothingIsForgotten`. `IInv`'s `Position` says
that the current state belongs to the device and type configuration the loops stand at and that the device is active.
`StillPending` (what the position of the loops leaves to `Coming` has not been dealt with) and `StopInForce`
give the refinement; for `NothingIsForgotten`, `NoneLost` adds the other half (a state that is not coming *has* been dealt with, or a
stop was meant for it), `RecordsAgree` ties a state's record to what was done, and `ProgressAgrees` makes the counter the cardinality
of the set of states dealt with. The last two theorems have the hypothesis `DistinctDevices` (section 3), which is used in one
place: a state that was dealt with does not come again on a later device.

**RunnerProofs**, the examples – every command line, any surroundings and scripts of any length: `AlwaysConfiguredAsWritten`,
`NothingAskedForIsEverLeftOut`, `SuccessIsAlwaysEarned`. `ReportInv` says of the runner that what was reported, followed by what is
queued, is the list of checks the help promises (the groups and aliases, expanded, select exactly the cases `AskedFor`), and that a failure without
`--continue-on-failure` is the last result. `Progress` says of a script at a line what each function has recorded (`Gathered`: its
decorators from the function outward up to the first that registers it, and all above it register it), which functions are registered and why, and that none of
them names an unknown criterion; so it raises exactly if it is `Faulty` (`MisplacedIsFaulty`, `UnknownIsFaulty`, `RanIsNotFaulty`), and
`ExampleInv` concludes that a result is "failed" exactly if something is wrong with its check that may not be skipped. For
the configuration, `Reads` says what the first p decorators of a function set, by positions; the actions, reversed, start below the
last decorator that registers and extend it by one decorator each (`ReadsNext`).

**RobustComparisonProofs**, the verdict – all configurations and all timings: `ThresholdsAreAlwaysAsWritten`, `DumpAlwaysReproduces`,
`SwappingAlwaysSwapsTheVerdict`, `AlwaysFasterInCyclesToo`, `BulkNeverEverContradicts`, `StricterAlwaysDecidesLess`. The invariant
(`DecidedByTheFunctions`) only says that thresholds and verdict are those the functions compute; the work is in the
lemmas about these functions. Symmetry: intersections, gaps and coverages of mirrored inputs are mirrored, reason by reason.
Cycles: a gap that is confirmed by clock rates keeps its direction when the times are multiplied by them. Strictness: each
test of the stricter preset implies that of the permissive one, for products of arbitrary integers. Sets of samples are compared through
`Cardinality`. `VerdictAssumption` gives the types of presets, configurations and timings, and that `CutAlike`: when there are as many samples as
frequencies, the runs of equal values are cut at the same places in both.

**RobustComparisonProofs**, the tool – all files and command lines that satisfy `CommandAssumption` (which only gives the types of paths, filters and
files): `CounterpartsAreCompared`, `StatesAreComparedOnce`, `BulkRowsFindTheirWay`, `PlotsAreKept`, `PointsAreApart`,
`LegacyAlwaysJudgesTheSamePairs`. `Standing` says which benchmarks, devices and states the loops are at; `ComparedSoFar` that every comparison made is one of a state
with its counterpart, at an earlier place or earlier in this section. A state is compared exactly once because
the places passed are judged for good (`JudgedSoFar`): at the end of a section, the states compared are those of the device
that satisfy the filters, by `SectionRecorded` and `ComparedApart` on this side, and on the reference's by a counting
argument (`CounterpartsCover`: the n-th with the n-th is onto, as the groups are of the same size). What the filters ask for
is `FiltersAsWritten`: the plan that one pass over the arguments builds scope by scope is the one the help describes by
positions. The pass is a recursive function of the argument's number; an argument where the two differed first is
shown not to exist. The rows and plots have invariants of their own (`BulkSoFar`, `PlotsWritten`, `PointsPlaced`). `PointsAreApart`
has the hypothesis `NamesTellTheRest`: states with one name agree in the axes listed after the plotted one. With it, two states on one
point agree in all axes (`AxesInThreeParts`), so they are repeated ones, which their occurrence tells apart. NVBench's own files
satisfy it unless two values of a floating-point axis look alike in a name (section 5). The
legacy tool follows from the first two: on plain files a state and its counterpart have the same whole name, which is unique, so that
`SameCounterpart` makes the place by name that of the n-th equal one, and `StatesAreComparedOnce` gives the other direction;
`ComparedWhereItIs` adds that nothing was compared at a place the files do not have.

**ResultReadersProofs** – whatever programs write to the same names and end in the middle of it, and wherever directories are
moved: `ReadsTheRunsOwn`, `LossesStayTheirs`, `PayloadMeansValues`, `ScriptFindsTheSameArrays`. Each is about a reading during which nothing
else runs (`steady`), and deletions limit them differently. That the samples are the run's own is proved where no file was deleted; after a
deletion only their number is, since another run's file may be found instead. That a file deleted costs its own state only is proved
for the robust reader and holds of every document it does not refuse; it refuses none but those with a file that was never written.
That values which can be read have a payload is proved in any case, that a payload which is found can be read only if no file was
deleted. That the script loads what was compared is proved in any case. The
first half of `IInv` is about the disk (`OnDisk`): wherever a complete document stands, each file it names
is there, whole and of the run that printed the document, unless files were deleted (`Backed`); a document whose files
have been overwritten is no longer one, because a program empties the document before it writes its first file (`Programming`).
Moving a directory takes the document and its files along together, which is where the assumptions on directory names are
used: the two names of a place are one path only if directory and file are the same (`Split`). The second half is about the reading: it
has the document it opened (`Reads`), asks only about states it is at or has passed (`Asked`), has arrays of the announced
length (`Lengths`), and, as long as nothing else runs, has cached what a reading would give now (`Fresh`); `Refusal` says why a
result was refused.

The type invariants (`TypeOK`), `StreamsReleased` and `FirstReasonIsKept` are proved and not run again by TLC.

Only model-checked, and why: liveness (`Ends`, and that a `Measurement` concludes): fairness and ENABLED are beyond the prover.

What the recursive definitions of the model compute is proved all the same where a theorem needs it: a pass is a recursive
function of a number (OptionParser, ResultSelection, StateGenerator, PythonBenchmarks), and a least counterexample or the
library's recursion theorem replaces the induction.

## 5. Where the code and what is said of it differ

Shown by a run (`session_generator_defaults`): `state.cxx:328` – a generator that selects a criterion
gets the parameters the last measurement left in the shared object, not the criterion's defaults.

Modelled as the code has it, so that a property that says what the text says is violated:

* `blocking_kernel.cu:58` – a negative timeout, which `state.cuh:258` says disables the check, still
  makes every released kernel report a deadlock.
* `measure_cold.cuh:275` – the warmup's blocking kernel has no guard; a launcher that throws before
  it starts its timer leaves it on the stream of a destroyed measurement, whose flags it polls.
* `measure_hot.cu:74` – the hot measurement does not copy `disable_blocking_kernel`.
* `benchmark_base.cxx:37` – `clone()` leaves out `m_skip_batched`, so a benchmark loses it when it is selected.
* `json_printer.cu:308` – a binary file that could not be written leaves a summary without name and
  size, for which both readers refuse the document; `docs/nvbench_compare_robust.md:248` says missing, empty or
  unresolved files are treated as unavailable.
* `nvbench_compare_robust.py:1919` – a sample file that is announced but missing or empty makes the comparison
  ambiguous; the same document (line 453) says that summaries can then still support SAME.

Modelled as the code has it, and not as a reader of its plots may expect: `_nvbench_compare_plotting.py:58` –
the search for the plotted axis ends where it is found, so a line is named after the axes listed before it only.
States of one name that differ in a later axis are compared as two (`state_comparison_key` has all axes), but
fall on one line and, where the plotted axis has one value, on one point: the later one replaces the earlier one
(line 463). Names that NVBench writes tell all axis values and keep such states apart, except that a floating-
point value has five digits in a name (`state.cxx:242`) and all of them in the axis values. `NoPointLost` is
stated for the other states (`NamesTellTheRest`); without this condition it is violated by the states of `Grid`.

Observed while modelling: a kernel that times out while it is being released may
report after the host looked (`blocking_kernel.cuh:101`), and the trial is recorded; a timeout with the
entropy or sample-count criterion unmet is not reported (`measure_timeout_warnings.cuh:55`); the replay for a
new benchmark makes the global `--devices` the recent ones again (`option_parser.cu:1002`), so a
`--lock-gpu-clocks` after it is for those; `nvbench_compare.py:762` exits with the number of differing states,
of which the system keeps eight bits, and line 562 looks a device up with the last state of a loop;
`_benchmark_result.py:395` keys centers by axis values, so that of states on several devices one is kept.

## 6. Not modelled

Tables, CSV and logging, device queries and NVML, the CUPTI profiler library, the values of statistics
and summaries, the syntax of option values, the bindings and the lifetime of Python objects, the scripts that
only print or plot one document, build files and example kernels. Each component, with the reason, is
in `PROJECT.json`.

## 7. What is left

Modules: **StateExec** (the measurements selected by tags and settings, cold's summary feeding hot),
**RingBuffer** (a bounded FIFO and the regression's sliding window) and **MeasureCupti** (passes, guard and
cleanup over the same stream).
