------------------------------- MODULE Runner -------------------------------
(***************************************************************************)
(* The loop over benchmarks, devices, type configurations and states: the  *)
(* C++ main (main_run_benchmarks) and the Python one (run_interruptible),  *)
(* runner::run_or_skip and run_device, the exceptions a kernel generator   *)
(* may end with, and the progress the printer is told of.  What a          *)
(* generator does is abstracted to how it ends.  The states are those that *)
(* module StateGenerator generates.                                        *)
(***************************************************************************)
EXTENDS Integers, Sequences, FiniteSets

CONSTANTS
  Benchmarks,     \* the benchmarks of a run, in order
  Loops,          \* which loops run them: TRUE is the Python one
  MayThrow        \* what may fail

NoDevice == -1

\* set_active, and how a generator may end, other than by returning
Failures == {"set_active", "exception", "stop_runner_loop", "foreign"}

ASSUME RunnerAssumption ==
  /\ \A b \in DOMAIN Benchmarks :
       /\ Benchmarks[b].num_type_configs \in Nat \ {0}
       /\ \A i \in DOMAIN Benchmarks[b].states :
            Benchmarks[b].states[i].type_config_index \in
              0..(Benchmarks[b].num_type_configs - 1)
  /\ Benchmarks \in Seq([num_type_configs : Nat, devices : Seq(Nat),
                         states : Seq([device : Nat \cup {NoDevice},
                                       type_config_index : Nat])])
  /\ Loops \subseteq BOOLEAN
  /\ MayThrow \subseteq Failures

\* What the state generator guarantees: a state is for one of the devices of
\* its benchmark, or for none when there are none (build_states).
StatesOnTheirDevices ==
  \A b \in DOMAIN Benchmarks : \A i \in DOMAIN Benchmarks[b].states :
    IF Benchmarks[b].devices = <<>>
    THEN Benchmarks[b].states[i].device = NoDevice
    ELSE \E d \in DOMAIN Benchmarks[b].devices :
           Benchmarks[b].states[i].device = Benchmarks[b].devices[d]

ASSUME GeneratedStates == StatesOnTheirDevices

VARIABLES
  interruptible,          \* the Python loop
  pc,
  bench,                  \* the benchmark that is run
  device,                 \* position of its device
  type_config_index,
  cur_state,              \* position of the state that is run, or was last
  active_device,          \* cudaGetDevice
  skip_remaining,
  m_skip_reason,          \* of every state
  m_cuda_stream,          \* the states that own a stream
  completed_state_count,
  outcome,                \* history: how every state was dealt with
  stopped                 \* history: the states a stop was meant for

loop == <<bench, device, type_config_index, cur_state>>
history == <<outcome, stopped>>
vars == <<interruptible, pc, loop, active_device, skip_remaining, m_skip_reason,
          m_cuda_stream, completed_state_count, history>>

\* All states there will be: each benchmark generates its own.
States == UNION {{b} \X DOMAIN Benchmarks[b].states : b \in DOMAIN Benchmarks}

current == <<bench, cur_state>>

m_states == Benchmarks[bench].states

\* A benchmark of the CPU alone is run once, without a device.
Devices == IF Benchmarks[bench].devices = <<>> THEN <<NoDevice>>
                                               ELSE Benchmarks[bench].devices

\* The announced total, by get_config_count (see StateGenerator)
total_state_count == Cardinality(States)

-----------------------------------------------------------------------------
Init ==
  /\ interruptible \in Loops
  /\ pc = "benchmark"
  /\ bench = 1 /\ device = 1 /\ type_config_index = 0 /\ cur_state = 0
  /\ active_device = 0
  /\ skip_remaining = FALSE
  /\ m_skip_reason = [s \in States |-> "none"]
  /\ m_cuda_stream = {}
  /\ completed_state_count = 0
  /\ outcome = [s \in States |-> "pending"]
  /\ stopped = {}

\* Mutant: every benchmark has a flag of its own.
OwnFlag == FALSE

\* run_interruptible has one flag for all benchmarks, run() one for each.
InitialFlag == interruptible /\ skip_remaining

BeginBenchmark ==
  /\ pc = "benchmark"
  /\ bench <= Len(Benchmarks)
  /\ device' = 1
  /\ skip_remaining' = InitialFlag
  /\ pc' = "device"
  /\ UNCHANGED <<bench, type_config_index, cur_state, active_device,
                 m_skip_reason, m_cuda_stream, completed_state_count, history>>

Finish ==
  /\ pc = "benchmark"
  /\ bench > Len(Benchmarks)
  /\ pc' = "finished"
  /\ UNCHANGED <<loop, active_device, skip_remaining, m_skip_reason,
                 m_cuda_stream, completed_state_count, history>>

\* Mutant: the first device of a benchmark stays active.
FirstDevice == Devices[1]

DeviceToActivate == Devices[device]

EnterDevice ==
  /\ pc = "device"
  /\ device <= Len(Devices)
  /\ active_device' = IF Devices[device] = NoDevice THEN active_device
                                                    ELSE DeviceToActivate
  /\ type_config_index' = 0 /\ cur_state' = 0
  /\ pc' = "state"
  /\ UNCHANGED <<bench, device, skip_remaining, m_skip_reason, m_cuda_stream,
                 completed_state_count, history>>

\* An exception out of run() ends main.
EnterDeviceThrows ==
  /\ pc = "device"
  /\ device <= Len(Devices)
  /\ Devices[device] # NoDevice
  /\ "set_active" \in MayThrow
  /\ pc' = "aborted"
  /\ UNCHANGED <<loop, active_device, skip_remaining, m_skip_reason,
                 m_cuda_stream, completed_state_count, history>>

LeaveBenchmark ==
  /\ pc = "device"
  /\ device > Len(Devices)
  /\ bench' = bench + 1
  /\ pc' = "benchmark"
  /\ UNCHANGED <<device, type_config_index, cur_state, active_device,
                 skip_remaining, m_skip_reason, m_cuda_stream,
                 completed_state_count, history>>

\* The states of this device and this type configuration that are still ahead
Ahead == {i \in DOMAIN m_states :
            /\ i > cur_state
            /\ m_states[i].device = Devices[device]
            /\ m_states[i].type_config_index = type_config_index}

\* run_state_prologue logs the next of them.
EnterState ==
  /\ pc = "state"
  /\ \E i \in Ahead : (\A j \in Ahead : i <= j) /\ cur_state' = i
  /\ pc' = "generator"
  /\ UNCHANGED <<bench, device, type_config_index, active_device,
                 skip_remaining, m_skip_reason, m_cuda_stream,
                 completed_state_count, history>>

\* Mutant: the last type configuration is left out.
BeforeLastTypeConfig == Benchmarks[bench].num_type_configs - 2

LastTypeConfig == Benchmarks[bench].num_type_configs - 1

NextTypeConfig ==
  /\ pc = "state"
  /\ Ahead = {}
  /\ IF type_config_index < LastTypeConfig
     THEN /\ type_config_index' = type_config_index + 1
          /\ cur_state' = 0
          /\ UNCHANGED <<pc, device>>
     ELSE /\ device' = device + 1
          /\ pc' = "device"
          /\ UNCHANGED <<type_config_index, cur_state>>
  /\ UNCHANGED <<bench, active_device, skip_remaining, m_skip_reason,
                 m_cuda_stream, completed_state_count, history>>

-----------------------------------------------------------------------------
(* One state *)

IsSkipped == m_skip_reason[current] # "none"

Skip(reason) == m_skip_reason' = [m_skip_reason EXCEPT ![current] = reason]

\* The generator may have asked for a stream when it ends.
MayOwnStream ==
  m_cuda_stream' \in {m_cuda_stream, m_cuda_stream \cup {current}}

Dealt(how) == outcome' = [outcome EXCEPT ![current] = how]

SkipRemaining ==
  /\ pc = "generator"
  /\ skip_remaining
  /\ IF IsSkipped THEN UNCHANGED m_skip_reason ELSE Skip("stop requested")
  /\ Dealt("skipped")
  /\ pc' = "epilogue"
  /\ UNCHANGED <<loop, active_device, skip_remaining, m_cuda_stream,
                 completed_state_count, stopped>>

\* state.skip(), by the generator or by a measurement it runs.  A second skip
\* is one more by the generator.
GeneratorSkips ==
  /\ pc = "generator"
  /\ ~skip_remaining
  /\ ~IsSkipped
  /\ Skip("by generator")
  /\ UNCHANGED <<pc, loop, active_device, skip_remaining, m_cuda_stream,
                 completed_state_count, history>>

\* exec() measures no state that is skipped.
GeneratorReturns ==
  /\ pc = "generator"
  /\ ~skip_remaining
  /\ MayOwnStream
  /\ Dealt(IF IsSkipped THEN "skipped" ELSE "measured")
  /\ pc' = "epilogue"
  /\ UNCHANGED <<loop, active_device, skip_remaining, m_skip_reason,
                 completed_state_count, stopped>>

\* What the generator skipped before it threw (check_skip_time does both)
\* keeps its reason.
ReasonAfter(reason) == IF reason # "none" THEN reason ELSE "unexpected error"

handle_sampling_exception == Skip(ReasonAfter(m_skip_reason[current]))

GeneratorThrows ==
  /\ pc = "generator"
  /\ ~skip_remaining
  /\ "exception" \in MayThrow
  /\ MayOwnStream
  /\ handle_sampling_exception
  /\ Dealt("skipped")
  /\ pc' = "epilogue"
  /\ UNCHANGED <<loop, active_device, skip_remaining, completed_state_count,
                 stopped>>

\* The states a stop is meant for: those of the run, or of the benchmark
Rest == {s \in States : outcome[s] = "pending" /\ (interruptible \/ s[1] = bench)}

GeneratorStops ==
  /\ pc = "generator"
  /\ ~skip_remaining
  /\ "stop_runner_loop" \in MayThrow
  /\ MayOwnStream
  /\ handle_sampling_exception
  /\ skip_remaining' = TRUE
  /\ Dealt("skipped")
  /\ stopped' = stopped \cup Rest
  /\ pc' = "epilogue"
  /\ UNCHANGED <<loop, active_device, completed_state_count>>

\* What is no std::exception is not caught here: it ends main.
GeneratorThrowsForeign ==
  /\ pc = "generator"
  /\ ~skip_remaining
  /\ "foreign" \in MayThrow
  /\ MayOwnStream
  /\ pc' = "aborted"
  /\ UNCHANGED <<loop, active_device, skip_remaining, m_skip_reason,
                 completed_state_count, history>>

ResetCudaStream == m_cuda_stream \ {current}

\* run_state_epilogue
Epilogue ==
  /\ pc = "epilogue"
  /\ m_cuda_stream' = ResetCudaStream
  /\ completed_state_count' = completed_state_count + 1
  /\ pc' = "state"
  /\ UNCHANGED <<loop, active_device, skip_remaining, m_skip_reason, history>>

-----------------------------------------------------------------------------
RunState == SkipRemaining \/ GeneratorSkips \/ GeneratorReturns
              \/ GeneratorThrows \/ GeneratorStops \/ GeneratorThrowsForeign \/ Epilogue

Step == BeginBenchmark \/ Finish \/ EnterDevice \/ EnterDeviceThrows
          \/ LeaveBenchmark \/ EnterState \/ NextTypeConfig \/ RunState

Stopped == pc \in {"finished", "aborted"} /\ UNCHANGED vars

Next == (Step /\ UNCHANGED interruptible) \/ Stopped

Spec == Init /\ [][Next]_vars

-----------------------------------------------------------------------------
\* Every variable keeps to its domain.
TypeOK ==
  /\ interruptible \in Loops
  /\ pc \in {"benchmark", "device", "state", "generator", "epilogue",
             "finished", "aborted"}
  /\ bench \in 1..(Len(Benchmarks) + 1)
  /\ pc \notin {"benchmark", "finished"} => bench <= Len(Benchmarks)
  /\ pc \in {"state", "generator", "epilogue"} =>
       /\ device \in 1..Len(Devices)
       /\ type_config_index \in 0..(Benchmarks[bench].num_type_configs - 1)
       /\ cur_state \in 0..Len(m_states)
  /\ pc \in {"generator", "epilogue"} => current \in States
  /\ skip_remaining \in BOOLEAN
  /\ m_skip_reason \in [States -> {"none", "by generator", "unexpected error",
                                   "stop requested"}]
  /\ m_cuda_stream \subseteq States
  /\ completed_state_count \in Nat
  /\ outcome \in [States -> {"pending", "measured", "skipped"}]
  /\ stopped \subseteq States

C == INSTANCE Campaign

\* Each state is dealt with once, and none is measured after a stop that was
\* meant for it: "Skipped because a previous state requested the runner loop to
\* stop" (nvbench/runner.cuh:126).
IsCampaign == C!Spec

\* When the run is over every state has been dealt with, the state's own record
\* agrees, and the progress display has reached its total.
NothingForgotten ==
  pc = "finished" =>
    /\ C!Pending = {}
    /\ \A s \in States : outcome[s] = "skipped" <=> m_skip_reason[s] # "none"
    /\ completed_state_count = total_state_count

\* A generator is called while the device of its state is active; the
\* measurements rely on it ("Current device is not active").
RunsOnItsDevice ==
  pc = "generator" =>
    m_states[cur_state].device \in {NoDevice, active_device}

\* Between states no stream is kept: "Release per-state stream resources after
\* state execution has completed" (nvbench/runner.cxx:72).
StreamsReleased ==
  m_cuda_stream \subseteq IF pc \in {"epilogue", "aborted"} THEN {current} ELSE {}

\* The first reason a state is skipped for is the one that is reported.
FirstReasonIsKept ==
  [][\A s \in States :
       m_skip_reason[s] # "none" => m_skip_reason'[s] = m_skip_reason[s]]_vars
=============================================================================
