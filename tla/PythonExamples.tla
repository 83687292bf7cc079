---------------------------- MODULE PythonExamples ----------------------------
(***************************************************************************)
(* ci/run_python_examples.py: the checks of a command line are run one     *)
(* after the other, each example in a process of its own.                  *)
(***************************************************************************)
EXTENDS PythonBenchmarks

CONSTANTS
  Invocations,   \* [list, groups, cases, skip_missing_deps, continue_on_failure]
  Surroundings,  \* [python, broken, script, absent, missing, hung]: what goes wrong, where;
                 \* script is that of the broken examples
  ScriptOf(_)    \* the script of a case, by its name, when nothing is wrong with it

VARIABLES args, world, stage, queue, results, exit

examples_vars == <<args, world, stage, queue, results, exit, child>>

Case(name, groups, modules, gpu) ==
  [name |-> name, groups |-> groups, required_modules |-> modules, requires_gpu |-> gpu]

EXAMPLE_RUNS ==
  <<Case("python-smoke", {"smoke"}, {"cuda.bench"}, FALSE),
    Case("cpu-activity-cpu-only", {"example-cpu"}, {"cuda.bench", "cuda.cccl.headers", "cuda.core"}, FALSE),
    Case("axes-default-value", {"core-cccl"}, {"cuda.bench", "cuda.cccl.headers", "cuda.core"}, TRUE),
    Case("exec-tag-sync", {"core-cccl"}, {"cuda.bench", "cuda.cccl.headers", "cuda.core"}, TRUE),
    Case("exec-tag-timer", {"core-cccl"}, {"cuda.bench", "cuda.cccl.headers", "cuda.core"}, TRUE),
    Case("skip", {"core-cccl"}, {"cuda.bench", "cuda.cccl.headers", "cuda.core"}, TRUE),
    Case("throughput", {"numba-cuda-mlir"}, {"cuda.bench", "numba_cuda_mlir", "numpy"}, TRUE),
    Case("cupy-extract", {"cupy"}, {"cuda.bench", "cupy"}, TRUE),
    Case("stream", {"cupy"}, {"cuda.bench", "cupy"}, TRUE),
    Case("cuda-compute-segmented-reduce", {"cuda-compute"},
         {"cuda.bench", "cuda.compute.algorithms", "cuda.compute.iterators", "cuda.core", "cupy", "numpy"}, TRUE),
    Case("benchmark-result-autotune", {"autotune"},
         {"cuda.bench", "cuda.bench.results", "numba_cuda_mlir", "numpy", "tabulate"}, TRUE),
    Case("pytorch-bench", {"torch"}, {"cuda.bench", "torch"}, TRUE),
    Case("cute-dsl-sgemm", {"cute"},
         {"cuda.bench", "cuda.bindings.driver", "cuda.core", "cupy", "cutlass", "numpy"}, TRUE)>>

Cases == ToSet(EXAMPLE_RUNS)

\* Mutant: a group that was added is forgotten in "all".
AliasesWithoutTorch ==
  [alias \in {"light-gpu", "pr", "cpu", "gpu", "all"} |->
     CASE alias = "light-gpu" -> {"core-cccl"}
       [] alias = "pr" -> {"syntax", "smoke"}
       [] alias = "cpu" -> {"smoke", "example-cpu"}
       [] alias = "gpu" -> {"core-cccl", "numba-cuda-mlir", "cupy", "cuda-compute"}
       [] alias = "all" -> {"syntax", "smoke", "example-cpu", "core-cccl", "numba-cuda-mlir", "cupy",
                       "cuda-compute", "autotune", "cute"}]

GROUP_ALIASES ==
  [alias \in {"light-gpu", "pr", "cpu", "gpu", "all"} |->
     CASE alias = "light-gpu" -> {"core-cccl"}
       [] alias = "pr" -> {"syntax", "smoke"}
       [] alias = "cpu" -> {"smoke", "example-cpu"}
       [] alias = "gpu" -> {"core-cccl", "numba-cuda-mlir", "cupy", "cuda-compute"}
       [] alias = "all" -> {"syntax", "smoke", "example-cpu", "core-cccl", "numba-cuda-mlir", "cupy",
                       "cuda-compute", "autotune", "torch", "cute"}]

expand_groups(groups) ==
  UNION {IF g \in DOMAIN GROUP_ALIASES THEN GROUP_ALIASES[g] ELSE {g} : g \in ToSet(groups)}

\* The examples are in order unless the surroundings break them; what hangs or
\* is absent is one of them.
ASSUME ExamplesAssumption ==
  /\ \A a \in Invocations : a.cases \in Seq(ToSet(a.cases))
  /\ \A run \in Cases : IsScript(ScriptOf(run.name)) /\ ~ Faulty(ScriptOf(run.name))
  /\ \A w \in Surroundings : /\ IsScript(w.script) /\ Faulty(w.script)
                             /\ "syntax" \notin w.absent \cup w.hung

Groups == expand_groups(IF args.groups = <<>> THEN <<"syntax">> ELSE args.groups)

\* A name that is not one of the selected groups' cases refuses the command.
selected_runs(groups, names) ==
  LET runs == Keep(EXAMPLE_RUNS, {run \in Cases : run.groups \cap groups # {}})
      missing == names \ {runs[i].name : i \in DOMAIN runs}
  IN IF names = {} THEN runs
     ELSE IF missing # {} THEN None
     ELSE Keep(runs, {run \in Cases : run.name \in names})

\* An interpreter that cannot be started is reported as a missing module.
find_missing_modules(run) ==
  IF ~ world.python THEN {"failed to run"} ELSE run.required_modules \cap world.missing

FailureCount(rs) == Cardinality({i \in DOMAIN rs : rs[i].result = "failed"})

\* Mutant: the last result decides.
LastDecides(rs) == IF rs # <<>> /\ Last(rs).result = "failed" THEN 1 ELSE 0

ExitStatus(rs) == IF FailureCount(rs) > 0 THEN 1 ELSE 0

-----------------------------------------------------------------------------

ExamplesInit ==
  /\ args \in Invocations /\ world \in Surroundings
  /\ stage = "start" /\ queue = <<>> /\ results = <<>> /\ exit = None /\ child = None

Exit(status) == stage' = "exited" /\ exit' = status

\* --list ends at once; the syntax check comes first if it is asked for.
ParseArguments ==
  /\ stage = "start"
  /\ IF args.list THEN Exit(0)
     ELSE stage' = (IF "syntax" \in Groups THEN "syntax" ELSE "select") /\ UNCHANGED exit
  /\ UNCHANGED <<args, world, queue, results, child>>

\* A failure is the last thing that happens, unless the run is to continue.
Report(name, result, next) ==
  /\ results' = Append(results, [name |-> name, result |-> result])
  /\ IF result = "failed" /\ ~ args.continue_on_failure THEN Exit(1)
     ELSE stage' = next /\ UNCHANGED exit

RunSyntaxCheck ==
  /\ stage = "syntax"
  /\ Report("syntax", IF world.python /\ "syntax" \notin world.broken THEN "passed" ELSE "failed", "select")
  /\ UNCHANGED <<args, world, queue, child>>

SelectRuns ==
  /\ stage = "select"
  /\ LET runs == selected_runs(Groups, ToSet(args.cases)) IN
       IF runs = None THEN Exit(2) /\ UNCHANGED queue
       ELSE queue' = runs /\ stage' = "cases" /\ UNCHANGED exit
  /\ UNCHANGED <<args, world, results, child>>

NextCase == queue[1]
Broken == NextCase.name \in world.broken

CaseCannotRun ==
  /\ stage = "cases" /\ queue # <<>>
  /\ LET missing == find_missing_modules(NextCase) IN
       /\ NextCase.name \in world.absent \/ missing # {}
       /\ Report(NextCase.name,
                 IF NextCase.name \notin world.absent /\ args.skip_missing_deps THEN "skipped" ELSE "failed",
                 "cases")
  /\ queue' = Tail(queue)
  /\ UNCHANGED <<args, world, child>>

StartCase ==
  /\ stage = "cases" /\ queue # <<>>
  /\ NextCase.name \notin world.absent /\ find_missing_modules(NextCase) = {}
  /\ StartScript(IF Broken THEN world.script ELSE ScriptOf(NextCase.name))
  /\ stage' = "child"
  /\ UNCHANGED <<args, world, queue, results, exit>>

\* One that hangs does so in its benchmarks, at the latest.
ChildRuns ==
  /\ stage = "child" /\ RunScript
  /\ NextCase.name \in world.hung => child'.pc # "ran"
  /\ UNCHANGED <<args, world, stage, queue, results, exit>>

ChildReturns ==
  /\ stage = "child" /\ child.pc \in {"ran", "raised"}
  /\ Report(NextCase.name, IF child.pc = "ran" THEN "passed" ELSE "failed", "cases")
  /\ queue' = Tail(queue)
  /\ UNCHANGED <<args, world, child>>

\* subprocess.run kills a child that exceeds its timeout.
ChildTimesOut ==
  /\ stage = "child" /\ Running /\ NextCase.name \in world.hung
  /\ Report(NextCase.name, "failed", "cases")
  /\ queue' = Tail(queue) /\ child' = None
  /\ UNCHANGED <<args, world>>

PrintSummary ==
  /\ stage = "cases" /\ queue = <<>>
  /\ Exit(ExitStatus(results))
  /\ UNCHANGED <<args, world, queue, results, child>>

ExamplesNext ==
  \/ ParseArguments \/ RunSyntaxCheck \/ SelectRuns
  \/ CaseCannotRun \/ StartCase \/ ChildRuns \/ ChildReturns \/ ChildTimesOut
  \/ PrintSummary

ExamplesSpec == ExamplesInit /\ [][ExamplesNext]_examples_vars

-----------------------------------------------------------------------------
(* Properties *)

Has(group) == group \in ToSet(args.groups)

\* What the help says of the groups: "all" is every case, "pr" the syntax and
\* the smoke test, no group the syntax.
AskedFor(run) ==
  /\ \/ Has("all")
     \/ \E g \in run.groups : Has(g)
     \/ run.groups \cap {"smoke"} # {} /\ (Has("pr") \/ Has("cpu"))
     \/ run.groups \cap {"example-cpu"} # {} /\ Has("cpu")
     \/ run.requires_gpu /\ Has("gpu") /\ run.groups \cap {"autotune", "torch", "cute"} = {}
     \/ run.groups \cap {"core-cccl"} # {} /\ Has("light-gpu")
  /\ args.cases = <<>> \/ run.name \in ToSet(args.cases)

SyntaxAsked == args.groups = <<>> \/ Has("syntax") \/ Has("pr") \/ Has("all")

Checks ==
  LET runs == Keep(EXAMPLE_RUNS, {run \in Cases : AskedFor(run)})
      names == [i \in DOMAIN runs |-> runs[i].name]
  IN IF SyntaxAsked THEN <<"syntax">> \o names ELSE names

Reported == [i \in DOMAIN results |-> results[i].name]

\* When the runner ends with 0 or 1, every check that was asked for was run,
\* once, in the order of the table; or, without --continue-on-failure, those
\* up to the first that failed, and that one was the last.
NothingAskedForIsLeftOut ==
  (stage = "exited" /\ exit # 2 /\ ~ args.list) =>
    \/ Reported = Checks
    \/ /\ ~ args.continue_on_failure /\ IsPrefix(Reported, Checks)
       /\ FailureCount(results) = 1 /\ Last(results).result = "failed"

\* What is really wrong with a check
Wrong(name) ==
  \/ name \in world.broken
  \/ name \in world.absent \cup world.hung
  \/ \E i \in DOMAIN EXAMPLE_RUNS :
       EXAMPLE_RUNS[i].name = name /\ EXAMPLE_RUNS[i].required_modules \cap world.missing # {}

MayBeSkipped(name) ==
  /\ args.skip_missing_deps /\ name \notin world.absent
  /\ \E i \in DOMAIN EXAMPLE_RUNS :
       EXAMPLE_RUNS[i].name = name /\ EXAMPLE_RUNS[i].required_modules \cap world.missing # {}

\* With an interpreter that starts, the runner ends with 0 exactly if nothing
\* is wrong with any of the checks that were asked for, but for modules that
\* are missing and may be: one failure among many is not lost, whatever comes
\* after it, and none is made up.
SuccessIsEarned ==
  (stage = "exited" /\ exit # 2 /\ ~ args.list /\ world.python) =>
    (exit = 0) <=> \A i \in DOMAIN Checks : Wrong(Checks[i]) => MayBeSkipped(Checks[i])
=============================================================================
