----------------------------- MODULE Measurement -----------------------------
(***************************************************************************)
(* What every measurement of NVBench promises about its samples, whatever  *)
(* it runs and however it decides to stop: it gathers samples and never    *)
(* loses one; it is complete only when it has its minimum, and at least    *)
(* one; it may give up only if it has a timeout, and then it does end.     *)
(* SamplingLoop (cold and CPU-only) and HotPrediction implement it.        *)
(***************************************************************************)
EXTENDS Integers

VARIABLES
  minimum,   \* samples a complete measurement needs
  limited,   \* it has a finite timeout
  samples,
  outcome    \* "running", "complete" or "timed_out"

vars == <<minimum, limited, samples, outcome>>

Init ==
  /\ samples = 0
  /\ outcome = "running"

Gather ==
  /\ outcome = "running"
  /\ samples' > samples
  /\ UNCHANGED <<minimum, limited, outcome>>

Complete ==
  /\ outcome = "running"
  /\ samples > 0 /\ samples >= minimum
  /\ outcome' = "complete"
  /\ UNCHANGED <<minimum, limited, samples>>

TimeOut ==
  /\ outcome = "running"
  /\ limited
  /\ outcome' = "timed_out"
  /\ UNCHANGED <<minimum, limited, samples>>

Next == Gather \/ Complete \/ TimeOut

Spec == Init /\ [][Next]_vars

Concludes == limited => <>(outcome # "running")

Promise == Spec /\ Concludes
=============================================================================
