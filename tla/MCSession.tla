----------------------------- MODULE MCSession -----------------------------
(***************************************************************************)
(* Instances of Session: a program of two benchmarks, one on two devices   *)
(* and one of the CPU alone, whose author selected sample-count.           *)
(***************************************************************************)
EXTENDS Session

Arg(opt, key, val) == [opt |-> opt, key |-> key, val |-> val]

DefaultProps ==
  [k \in Props |->
     CASE k = "--min-samples"             -> 10
       [] k = "--cold-warmup-runs"        -> 1
       [] k = "--timeout"                 -> 15000
       [] k = "--batch-target-time"       -> 500
       [] k = "--throttle-threshold"      -> 750
       [] k = "--throttle-recovery-delay" -> 50
       [] OTHER                           -> -1000]

OnDevices ==
  [name |-> "gpu", is_cpu_only |-> FALSE, devices |-> {0, 1},
   axes |-> "T" :> {1, 2} @@ "n" :> {3}, props |-> DefaultProps,
   run_once |-> FALSE, disable_blocking_kernel |-> FALSE, skip_batched |-> FALSE,
   stopping_criterion |-> default_stopping_criterion,
   criterion_params |-> Defaults[default_stopping_criterion]]

OnCpu ==
  [OnDevices EXCEPT !.name = "cpu", !.is_cpu_only = TRUE, !.devices = {},
                    !.axes = "n" :> {3}, !.stopping_criterion = "sample-count",
                    !.criterion_params = "target-samples" :> 7]

TwoBenchmarks == <<OnDevices, OnCpu>>

OneTypeAxis == {"T"}

Selections == {Arg("--stopping-criterion", c, 0) : c \in {"stdrel", "sample-count"}}

Interacting ==
  Selections \cup {Arg("--benchmark", "gpu", 0), Arg("--benchmark", "cpu", 0),
                   Arg("parameter", "max-noise", 2), Arg("parameter", "target-samples", 3),
                   Arg("--devices", "", 1)}

Others ==
  {Arg("--profile", "", 0), Arg("--no-batch", "", 0), Arg("--quiet", "", 0),
   Arg("--axis", "T", 2), Arg("--axis", "n", 8), Arg("--axis", "n", Unparsable),
   Arg("property", "--cold-warmup-runs", 0), Arg("property", "--batch-target-time", 0),
   Arg("property", "--min-samples", 4), Arg("parameter", "target-samples", 0),
   Arg("--csv", "stdout", 0), Arg("--jsonbin", "stdout", 0), Arg("--help", "", 0),
   Arg("--lock-gpu-clocks", "base", 1), Arg("--devices", "", AllDevices), Arg("--devices", "", 5),
   Arg("--stopping-criterion", "unknown", 0), Arg("--benchmark", "unknown", 0),
   Arg("unrecognized", "", 0)}

AllArguments == Interacting \cup Others

Nothing == {}
=============================================================================
