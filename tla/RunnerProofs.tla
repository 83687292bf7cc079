---------------------------- MODULE RunnerProofs ----------------------------
(***************************************************************************)
(* The safety of the two runners: of benchmarks (Runner) and of the Python *)
(* examples in CI (PythonExamples).                                        *)
(*                                                                         *)
(* Runner, for every list of benchmarks, both main loops and whatever may  *)
(* fail.  The inductive invariant adds to the types where the loop stands  *)
(* (Position) and who holds a stream; for the promises of Campaign, what   *)
(* is still to come (StillPending) and when a stop is in force             *)
(* (StopInForce); and for a complete run, that what has not been dealt     *)
(* with is still to come (NoneLost), that records and outcomes agree, and  *)
(* what the progress display counts.                                       *)
(*                                                                         *)
(* PythonExamples, for every invocation, whatever is wrong and scripts of  *)
(* any length.  ReportInv says that what was reported and what is queued   *)
(* are the checks that were asked for, in order; Progress, what a script   *)
(* has recorded and registered when it is at a line, from which it raises  *)
(* exactly if it is faulty; ExampleInv, that a result tells what is wrong  *)
(* with its check.  For the configuration of a benchmark, Reads says what  *)
(* the first decorators of its function say, and the actions, applied in   *)
(* reverse, extend it decorator by decorator.                              *)
(***************************************************************************)
EXTENDS Runner, PythonExamples, FiniteSetTheorems, SequenceTheorems, WellFoundedInduction, TLAPS

OnState == {"generator", "epilogue"}
OnDevice == {"state"} \cup OnState

\* Where the loop stands: the state it is at belongs to the device and the
\* type configuration it is at, and this device is active.
Position ==
  /\ device \in Nat \ {0}
  /\ pc = "device" => bench <= Len(Benchmarks)
  /\ pc \in OnDevice => Devices[device] \in {NoDevice, active_device}
  /\ pc \in OnState =>
       /\ cur_state \in DOMAIN m_states
       /\ m_states[cur_state].device = Devices[device]
       /\ m_states[cur_state].type_config_index = type_config_index

IInv == TypeOK /\ Position /\ StreamsReleased

-----------------------------------------------------------------------------
\* What the assumption says of the benchmark that is run
LEMMA ThisBenchmark ==
  ASSUME NEW b \in 1..Len(Benchmarks)
  PROVE  /\ Benchmarks[b].devices \in Seq(Nat)
         /\ Benchmarks[b].states \in Seq([device : Nat \cup {NoDevice},
                                          type_config_index : Nat])
         /\ Benchmarks[b].num_type_configs \in Nat \ {0}
         /\ \A i \in DOMAIN Benchmarks[b].states :
              Benchmarks[b].states[i].type_config_index \in
                0..(Benchmarks[b].num_type_configs - 1)
  <1> DEFINE R == [num_type_configs : Nat, devices : Seq(Nat),
                   states : Seq([device : Nat \cup {NoDevice},
                                 type_config_index : Nat])]
  <1>1. Benchmarks[b] \in R
    <2>1. Benchmarks \in Seq(R)
      BY RunnerAssumption DEF RunnerAssumption
    <2> HIDE DEF R
    <2> QED
      BY <2>1
  <1>2. b \in DOMAIN Benchmarks
    BY RunnerAssumption DEF RunnerAssumption
  <1>3. /\ Benchmarks[b].num_type_configs \in Nat \ {0}
        /\ \A i \in DOMAIN Benchmarks[b].states :
             Benchmarks[b].states[i].type_config_index \in
               0..(Benchmarks[b].num_type_configs - 1)
    BY <1>2, RunnerAssumption DEF RunnerAssumption
  <1> QED
    BY <1>1, <1>3

\* Benchmarks are counted by a number.
LEMMA Count == Len(Benchmarks) \in Nat /\ DOMAIN Benchmarks = 1..Len(Benchmarks)
  BY RunnerAssumption DEF RunnerAssumption

\* A benchmark of the CPU alone has one place in the loop over devices.
LEMMA DevicesTyped ==
  ASSUME bench \in 1..Len(Benchmarks)
  PROVE  Devices \in Seq(Nat \cup {NoDevice}) /\ Len(Devices) \in Nat
  <1>1. Benchmarks[bench].devices \in Seq(Nat)
    BY ThisBenchmark
  <1>2. CASE Benchmarks[bench].devices = <<>>
    BY <1>2 DEF Devices
  <1>3. CASE Benchmarks[bench].devices # <<>>
    BY <1>1, <1>3 DEF Devices
  <1> QED
    BY <1>2, <1>3

\* A state is named by its benchmark and its position in it.
LEMMA StateNames ==
  /\ \A b, i : <<b, i>> \in States <=>
                 b \in 1..Len(Benchmarks) /\ i \in DOMAIN Benchmarks[b].states
  /\ \A s \in States : s = <<s[1], s[2]>>
  BY Count DEF States

\* The first step has the types and stands at the first benchmark.
LEMMA Start == Init => IInv
  <1> SUFFICES ASSUME Init PROVE IInv
    OBVIOUS
  <1>1. TypeOK
    <2>1. bench \in 1..(Len(Benchmarks) + 1)
      BY Count DEF Init
    <2>2. /\ m_skip_reason \in [States -> {"none", "by generator",
                                        "unexpected error", "stop requested"}]
          /\ outcome \in [States -> {"pending", "measured", "skipped"}]
      BY DEF Init
    <2> QED
      BY <2>1, <2>2 DEF Init, TypeOK
  <1>2. Position /\ StreamsReleased
    BY DEF Init, Position, StreamsReleased, OnDevice, OnState
  <1> QED
    BY <1>1, <1>2 DEF IInv

-----------------------------------------------------------------------------
\* The loop variables of TypeOK; the rest of it speaks of the states' records.
LoopTyped ==
  /\ pc \in {"benchmark", "device", "state", "generator", "epilogue",
             "finished", "aborted"}
  /\ bench \in 1..(Len(Benchmarks) + 1)
  /\ pc \notin {"benchmark", "finished"} => bench <= Len(Benchmarks)
  /\ pc \in OnDevice =>
       /\ device \in 1..Len(Devices)
       /\ type_config_index \in 0..(Benchmarks[bench].num_type_configs - 1)
       /\ cur_state \in 0..Len(m_states)
  /\ pc \in OnState => current \in States

\* The other half of TypeOK
RecordsTyped ==
  /\ interruptible \in Loops
  /\ skip_remaining \in BOOLEAN
  /\ m_skip_reason \in [States -> {"none", "by generator", "unexpected error",
                                   "stop requested"}]
  /\ m_cuda_stream \subseteq States
  /\ completed_state_count \in Nat
  /\ outcome \in [States -> {"pending", "measured", "skipped"}]
  /\ stopped \subseteq States

\* The two halves make up the types.
LEMMA TypeParts == TypeOK <=> LoopTyped /\ RecordsTyped
  BY DEF TypeOK, LoopTyped, RecordsTyped, OnDevice, OnState

\* The same of the next state.
LEMMA TypePartsNext == TypeOK' <=> LoopTyped' /\ RecordsTyped'
  BY DEF TypeOK, LoopTyped, RecordsTyped, OnDevice, OnState

\* The steps of the loops keep every record, but for the stop flag.
LoopStep ==
  BeginBenchmark \/ Finish \/ EnterDevice \/ EnterDeviceThrows
    \/ LeaveBenchmark \/ EnterState \/ NextTypeConfig

\* The steps of the loops keep the types and lead to a position.
LEMMA LoopStepKeeps ==
  ASSUME LoopTyped, RecordsTyped, Position, LoopStep,
         UNCHANGED interruptible
  PROVE  LoopTyped' /\ RecordsTyped' /\ Position'
  <1> USE Count
  <1>1. RecordsTyped'
    BY DEF RecordsTyped, LoopStep, BeginBenchmark, Finish, EnterDevice,
           EnterDeviceThrows, LeaveBenchmark, EnterState, NextTypeConfig,
           InitialFlag, loop, history
  <1>2. CASE BeginBenchmark
    BY <1>1, <1>2
    DEF BeginBenchmark, LoopTyped, Position, OnDevice, OnState
  <1>3. CASE Finish
    BY <1>1, <1>3
    DEF Finish, LoopTyped, Position, OnDevice, OnState, loop
  <1>4. CASE EnterDevice
    <2>1. bench \in 1..Len(Benchmarks) /\ bench' = bench /\ device' = device
      BY <1>4 DEF EnterDevice, LoopTyped
    <2>2. Devices' = Devices /\ m_states' = m_states
      BY <2>1 DEF Devices, m_states
    <2>3. /\ device \in 1..Len(Devices)
          /\ Benchmarks[bench].num_type_configs \in Nat \ {0}
          /\ Len(m_states) \in Nat
      BY <1>4, <2>1, DevicesTyped, ThisBenchmark
      DEF EnterDevice, Position, m_states
    <2>4. LoopTyped'
      BY <1>4, <2>1, <2>2, <2>3
      DEF EnterDevice, LoopTyped, OnDevice, OnState
    <2>5. Devices[device] \in {NoDevice, active_device'}
      BY <1>4 DEF EnterDevice, DeviceToActivate
    <2> QED
      BY <1>1, <1>4, <2>1, <2>2, <2>4, <2>5
      DEF EnterDevice, Position, OnDevice, OnState
  <1>5. CASE EnterDeviceThrows
    BY <1>1, <1>5
    DEF EnterDeviceThrows, LoopTyped, Position, OnDevice, OnState, loop
  <1>6. CASE LeaveBenchmark
    BY <1>1, <1>6
    DEF LeaveBenchmark, LoopTyped, Position, OnDevice, OnState
  <1>7. CASE EnterState
    <2>1. /\ bench \in 1..Len(Benchmarks) /\ bench' = bench /\ device' = device
          /\ type_config_index' = type_config_index
          /\ active_device' = active_device
      BY <1>7 DEF EnterState, LoopTyped
    <2>2. Devices' = Devices /\ m_states' = m_states
      BY <2>1 DEF Devices, m_states
    <2>3. PICK i \in Ahead : cur_state' = i
      BY <1>7 DEF EnterState
    <2>4. /\ i \in DOMAIN m_states
          /\ m_states[i].device = Devices[device]
          /\ m_states[i].type_config_index = type_config_index
      BY DEF Ahead
    <2>5. current' \in States
      BY <2>1, <2>3, <2>4, StateNames DEF current, m_states
    <2>6. i \in 0..Len(m_states)
      BY <2>1, <2>4, ThisBenchmark DEF m_states
    <2>7. LoopTyped'
      BY <1>7, <2>1, <2>2, <2>3, <2>5, <2>6
      DEF EnterState, LoopTyped, OnDevice, OnState
    <2>8. Position'
      BY <1>7, <2>1, <2>2, <2>3, <2>4
      DEF EnterState, Position, OnDevice, OnState
    <2> QED
      BY <1>1, <2>7, <2>8
  <1>8. CASE NextTypeConfig
    <2>1. /\ bench \in 1..Len(Benchmarks) /\ bench' = bench
          /\ active_device' = active_device
      BY <1>8 DEF NextTypeConfig, LoopTyped
    <2>2. Devices' = Devices /\ m_states' = m_states
      BY <2>1 DEF Devices, m_states
    <2>3. /\ Benchmarks[bench].num_type_configs \in Nat \ {0}
          /\ Len(m_states) \in Nat
      BY <2>1, ThisBenchmark DEF m_states
    <2>4. LoopTyped'
      BY <1>8, <2>1, <2>2, <2>3
      DEF NextTypeConfig, LastTypeConfig, LoopTyped, OnDevice, OnState
    <2>5. Position'
      BY <1>8, <2>1, <2>2
      DEF NextTypeConfig, Position, OnDevice, OnState
    <2> QED
      BY <1>1, <2>4, <2>5
  <1> QED
    BY <1>1, <1>2, <1>3, <1>4, <1>5, <1>6, <1>7, <1>8 DEF LoopStep

\* The steps of one state keep the types and stay where they are.
LEMMA RunStateKeeps ==
  ASSUME LoopTyped, RecordsTyped, Position, RunState,
         UNCHANGED interruptible
  PROVE  LoopTyped' /\ RecordsTyped' /\ Position'
  <1> DEFINE Reasons == {"none", "by generator", "unexpected error",
                         "stop requested"}
  <1>1. /\ pc \in OnState
        /\ pc' \in {"generator", "epilogue", "state", "aborted"}
        /\ UNCHANGED <<loop, active_device>>
    BY DEF RunState, SkipRemaining, GeneratorSkips, GeneratorReturns,
           GeneratorThrows, GeneratorStops, GeneratorThrowsForeign, Epilogue,
           OnState
  <1>2. Devices' = Devices /\ m_states' = m_states /\ current' = current
    BY <1>1 DEF Devices, m_states, current, loop
  <1>3. LoopTyped' /\ Position'
    BY <1>1, <1>2 DEF LoopTyped, Position, OnDevice, OnState, loop
  <1>4. current \in States
    BY <1>1 DEF LoopTyped
  <1>5. m_skip_reason' \in [States -> Reasons]
    BY <1>4
    DEF RecordsTyped, RunState, SkipRemaining, GeneratorSkips, GeneratorReturns,
        GeneratorThrows, GeneratorStops, GeneratorThrowsForeign, Epilogue,
        handle_sampling_exception, ReasonAfter, Skip
  <1>6. m_cuda_stream' \subseteq States
    BY <1>4
    DEF RecordsTyped, RunState, SkipRemaining, GeneratorSkips, GeneratorReturns,
        GeneratorThrows, GeneratorStops, GeneratorThrowsForeign, Epilogue,
        MayOwnStream, ResetCudaStream
  <1>7. /\ outcome' \in [States -> {"pending", "measured", "skipped"}]
        /\ stopped' \subseteq States
    BY <1>4
    DEF RecordsTyped, RunState, SkipRemaining, GeneratorSkips, GeneratorReturns,
        GeneratorThrows, GeneratorStops, GeneratorThrowsForeign, Epilogue,
        Dealt, Rest, history
  <1>8. skip_remaining' \in BOOLEAN
    <2>1. skip_remaining' \in {skip_remaining, TRUE}
      BY ZenonT(30)
      DEF RunState, SkipRemaining, GeneratorSkips, GeneratorReturns,
          GeneratorThrows, GeneratorStops, GeneratorThrowsForeign, Epilogue
    <2> QED
      BY <2>1 DEF RecordsTyped
  <1>9. completed_state_count' \in Nat
    <2>1. completed_state_count' \in
            {completed_state_count, completed_state_count + 1}
      BY ZenonT(30)
      DEF RunState, SkipRemaining, GeneratorSkips, GeneratorReturns,
          GeneratorThrows, GeneratorStops, GeneratorThrowsForeign, Epilogue,
          history
    <2>2. completed_state_count \in Nat
      BY DEF RecordsTyped
    <2> QED
      BY <2>1, <2>2
  <1> QED
    BY <1>3, <1>5, <1>6, <1>7, <1>8, <1>9 DEF RecordsTyped

\* Where a stream may be held, and that it is given back
LEMMA StreamsKept ==
  ASSUME LoopTyped, StreamsReleased, Step
  PROVE  StreamsReleased'
  <1>1. CASE LoopStep
    BY <1>1
    DEF LoopStep, BeginBenchmark, Finish, EnterDevice, EnterDeviceThrows,
        LeaveBenchmark, EnterState, NextTypeConfig, StreamsReleased
  <1>2. CASE RunState
    <2>1. UNCHANGED loop /\ pc \in OnState
      BY <1>2
      DEF RunState, SkipRemaining, GeneratorSkips, GeneratorReturns,
          GeneratorThrows, GeneratorStops, GeneratorThrowsForeign, Epilogue,
          OnState
    <2>2. current' = current
      BY <2>1 DEF current, loop
    <2>3. CASE pc = "epilogue"
      <3>1. Epilogue
        BY <1>2, <2>3
        DEF RunState, SkipRemaining, GeneratorSkips, GeneratorReturns,
            GeneratorThrows, GeneratorStops, GeneratorThrowsForeign
      <3> QED
        BY <3>1 DEF Epilogue, ResetCudaStream, StreamsReleased
    <2>4. CASE pc = "generator"
      <3>1. m_cuda_stream = {}
        BY <2>4 DEF StreamsReleased
      <3>2. CASE GeneratorSkips
        BY <3>1, <3>2 DEF GeneratorSkips, StreamsReleased
      <3>3. CASE ~GeneratorSkips
        <4>1. pc' \in {"epilogue", "aborted"} /\ m_cuda_stream' \subseteq {current}
          BY <1>2, <2>4, <3>1, <3>3
          DEF RunState, SkipRemaining, GeneratorReturns, GeneratorThrows,
              GeneratorStops, GeneratorThrowsForeign, Epilogue, MayOwnStream
        <4> QED
          BY <2>2, <4>1 DEF StreamsReleased
      <3> QED
        BY <3>2, <3>3
    <2> QED
      BY <2>1, <2>3, <2>4 DEF OnState
  <1> QED
    BY <1>1, <1>2 DEF Step, LoopStep

\* Every step keeps the inductive invariant.
LEMMA Inductive == IInv /\ [Next]_vars => IInv'
  <1> SUFFICES ASSUME IInv, [Next]_vars PROVE IInv'
    OBVIOUS
  <1>1. LoopTyped /\ RecordsTyped /\ Position /\ StreamsReleased
    BY TypeParts DEF IInv
  <1>2. CASE Step /\ UNCHANGED interruptible
    <2>1. CASE LoopStep
      BY <1>1, <1>2, <2>1, LoopStepKeeps, StreamsKept, TypePartsNext DEF IInv
    <2>2. CASE RunState
      BY <1>1, <1>2, <2>2, RunStateKeeps, StreamsKept, TypePartsNext DEF IInv
    <2> QED
      BY <1>2, <2>1, <2>2 DEF Step, LoopStep
  <1>3. CASE UNCHANGED vars
    BY <1>3
    DEF IInv, TypeOK, Position, StreamsReleased, Devices, m_states, current,
        OnDevice, OnState, vars, loop, history
  <1> QED
    BY <1>2, <1>3 DEF Next, Stopped

-----------------------------------------------------------------------------
\* Every variable of the loop over states keeps to its domain.
THEOREM Typing == Spec => []TypeOK
  <1>1. IInv => TypeOK
    BY DEF IInv
  <1> QED
    BY Start, Inductive, <1>1, PTL DEF Spec

\* A generator is called while the device of its state is active.
THEOREM GeneratorsRunOnTheirDevice == Spec => []RunsOnItsDevice
  <1>1. IInv => RunsOnItsDevice
    BY DEF IInv, Position, RunsOnItsDevice, OnDevice, OnState
  <1> QED
    BY Start, Inductive, <1>1, PTL DEF Spec

\* Between states no stream is kept, however the generator ended.
THEOREM StreamsAreReleased == Spec => []StreamsReleased
  <1>1. IInv => StreamsReleased
    BY DEF IInv
  <1> QED
    BY Start, Inductive, <1>1, PTL DEF Spec

\* The first reason a state is skipped for is the one that is reported.
THEOREM TheFirstReasonIsReported == Spec => FirstReasonIsKept
  <1> DEFINE Keeps ==
        \A s \in States :
          m_skip_reason[s] # "none" => m_skip_reason'[s] = m_skip_reason[s]
  <1>1. IInv /\ Next => Keeps
    <2> SUFFICES ASSUME IInv, Next, NEW s \in States,
                        m_skip_reason[s] # "none"
                 PROVE  m_skip_reason'[s] = m_skip_reason[s]
      OBVIOUS
    <2>1. DOMAIN m_skip_reason = States
      BY DEF IInv, TypeOK
    <2>2. CASE UNCHANGED m_skip_reason
      BY <2>2
    <2>3. CASE SkipRemaining \/ GeneratorSkips
      BY <2>1, <2>3 DEF SkipRemaining, GeneratorSkips, IsSkipped, Skip
    <2>4. CASE GeneratorThrows \/ GeneratorStops
      BY <2>1, <2>4
      DEF GeneratorThrows, GeneratorStops, handle_sampling_exception,
          ReasonAfter, Skip
    <2> QED
      BY <2>2, <2>3, <2>4
      DEF Next, Step, Stopped, vars, RunState, BeginBenchmark, Finish,
          EnterDevice, EnterDeviceThrows, LeaveBenchmark, EnterState,
          NextTypeConfig, GeneratorReturns, GeneratorThrowsForeign, Epilogue
  <1>2. IInv /\ [Next]_vars => [Keeps]_vars
    BY <1>1
  <1> QED
    BY Start, Inductive, <1>2, PTL DEF Spec, FirstReasonIsKept

-----------------------------------------------------------------------------
(* A run is a campaign. *)

\* What the loop relies on, and no code checks: no device is listed twice.
DistinctDevices ==
  \A b \in DOMAIN Benchmarks :
    \A i, j \in DOMAIN Benchmarks[b].devices :
      i # j => Benchmarks[b].devices[i] # Benchmarks[b].devices[j]

\* The state s of the benchmark that is run belongs to one of the devices from
\* position d on.
OnDeviceFrom(s, d) ==
  \E e \in d..Len(Devices) : m_states[s[2]].device = Devices[e]

\* The state s is ahead on the device that is active.
AheadOnDevice(s) ==
  /\ m_states[s[2]].device = Devices[device]
  /\ \/ m_states[s[2]].type_config_index > type_config_index
     \/ /\ m_states[s[2]].type_config_index = type_config_index
        /\ s[2] > cur_state

\* The states the loops will still come to
Coming ==
  {s \in States :
     \/ s[1] > bench
     \/ /\ s[1] = bench
        /\ \/ pc = "benchmark"
           \/ pc = "device" /\ OnDeviceFrom(s, device)
           \/ pc \in OnDevice /\ OnDeviceFrom(s, device + 1)
           \/ pc \in OnDevice /\ AheadOnDevice(s)
           \/ pc = "generator" /\ s[2] = cur_state}

\* What is still to come has not been dealt with.
StillPending == \A s \in Coming : outcome[s] = "pending"

\* A stop is in force as long as a state it is meant for may come.
StopInForce ==
  /\ interruptible /\ ~skip_remaining => stopped = {}
  /\ ~interruptible =>
       \A s \in stopped :
         \/ s[1] < bench
         \/ s[1] = bench /\ skip_remaining /\ pc # "benchmark"

CampaignInv == IInv /\ StillPending /\ StopInForce

\* At the start all is to come and nothing is stopped.
LEMMA CampaignStart == Init => CampaignInv
  BY Start DEF Init, CampaignInv, StillPending, StopInForce, Coming

\* The steps of the loops bring no state back.
LEMMA LoopStepsGoOn ==
  ASSUME IInv, LoopStep
  PROVE  Coming' \subseteq Coming
  <1> SUFFICES ASSUME NEW s \in Coming' PROVE s \in Coming
    OBVIOUS
  <1>1. /\ s \in States /\ LoopTyped /\ device \in Nat \ {0}
        /\ s = <<s[1], s[2]>> /\ s[1] \in 1..Len(Benchmarks)
    BY TypeParts, StateNames DEF Coming, IInv, Position
  <1>2. bench \in Nat /\ s[1] \in Nat
    BY <1>1, Count DEF LoopTyped
  <1>3. bench' = bench => Devices' = Devices /\ m_states' = m_states
    BY DEF Devices, m_states
  <1>4. CASE BeginBenchmark
    BY <1>1, <1>2, <1>4 DEF BeginBenchmark, Coming, OnDevice, OnState
  <1>5. CASE Finish \/ EnterDeviceThrows
    BY <1>1, <1>2, <1>5
    DEF Finish, EnterDeviceThrows, Coming, OnDevice, OnState, loop
  <1>6. CASE EnterDevice
    <2>1. bench' = bench /\ device' = device
      BY <1>6 DEF EnterDevice
    <2>2. CASE s[1] # bench
      BY <1>1, <2>1, <2>2 DEF Coming
    <2>3. CASE s[1] = bench
      <3>1. \E e \in device..Len(Devices) : m_states[s[2]].device = Devices[e]
        BY <1>1, <1>2, <1>3, <1>6, <2>1, <2>3
        DEF EnterDevice, Coming, OnDevice, OnState, OnDeviceFrom, AheadOnDevice
      <3> QED
        BY <1>1, <1>6, <2>3, <3>1 DEF EnterDevice, Coming, OnDeviceFrom
    <2> QED
      BY <2>2, <2>3
  <1>7. CASE LeaveBenchmark
    BY <1>1, <1>2, <1>7 DEF LeaveBenchmark, Coming, OnDevice, OnState
  <1>8. CASE EnterState
    <2>1. bench' = bench /\ device' = device /\ type_config_index' = type_config_index
      BY <1>8 DEF EnterState
    <2>2. CASE s[1] # bench
      BY <1>1, <2>1, <2>2 DEF Coming
    <2>3. CASE s[1] = bench
      <3>1. PICK i \in Ahead : cur_state' = i
        BY <1>8 DEF EnterState
      <3>2. /\ i > cur_state /\ i \in Nat /\ cur_state \in Nat /\ s[2] \in Nat
            /\ m_states[i].device = Devices[device]
            /\ m_states[i].type_config_index = type_config_index
        <4>1. m_states \in Seq([device : Nat \cup {NoDevice},
                                type_config_index : Nat])
          BY <1>1, <2>3, ThisBenchmark DEF m_states
        <4>2. s[2] \in DOMAIN m_states
          BY <1>1, <2>3, StateNames DEF m_states
        <4>3. cur_state \in Nat
          <5>1. Len(m_states) \in Nat
            BY <4>1
          <5>2. cur_state \in 0..Len(m_states)
            BY <1>1, <1>8 DEF EnterState, LoopTyped, OnDevice
          <5> QED
            BY <5>1, <5>2
        <4>4. DOMAIN m_states \subseteq Nat
          BY <4>1
        <4>5. /\ i > cur_state /\ i \in DOMAIN m_states
              /\ m_states[i].device = Devices[device]
              /\ m_states[i].type_config_index = type_config_index
          BY <3>1 DEF Ahead
        <4> QED
          BY <4>2, <4>3, <4>4, <4>5
      <3>3. CASE OnDeviceFrom(s, device + 1)'
        BY <1>1, <1>3, <1>8, <2>1, <2>3, <3>3
        DEF EnterState, Coming, OnDevice, OnDeviceFrom
      <3>4. CASE AheadOnDevice(s)'
        <4>1. AheadOnDevice(s)
          BY <1>3, <2>1, <3>1, <3>2, <3>4 DEF AheadOnDevice
        <4> QED
          BY <1>1, <1>8, <2>3, <4>1 DEF EnterState, Coming, OnDevice
      <3>5. CASE s[2] = cur_state'
        <4>1. AheadOnDevice(s)
          BY <3>1, <3>2, <3>5 DEF AheadOnDevice
        <4> QED
          BY <1>1, <1>8, <2>3, <4>1 DEF EnterState, Coming, OnDevice
      <3> QED
        BY <1>2, <1>8, <2>1, <2>3, <3>3, <3>4, <3>5 DEF EnterState, Coming
    <2> QED
      BY <2>2, <2>3
  <1>9. CASE NextTypeConfig
    <2>1. bench' = bench /\ pc \in OnDevice /\ pc' \in {"state", "device"}
      BY <1>9 DEF NextTypeConfig, OnDevice
    <2>2. CASE s[1] # bench
      BY <1>1, <2>1, <2>2 DEF Coming
    <2>3. CASE s[1] = bench
      <3>1. OnDeviceFrom(s, device + 1) \/ AheadOnDevice(s)
        <4>1. CASE pc' = "device"
          <5>1. device' = device + 1 /\ OnDeviceFrom(s, device)'
            BY <1>2, <1>9, <2>1, <2>3, <4>1
            DEF NextTypeConfig, Coming, OnDevice, OnState
          <5> QED
            BY <1>3, <2>1, <5>1 DEF OnDeviceFrom
        <4>2. CASE pc' = "state"
          <5>1. /\ device' = device
                /\ type_config_index' = type_config_index + 1
            BY <1>9, <4>2 DEF NextTypeConfig
          <5>2. OnDeviceFrom(s, device + 1)' \/ AheadOnDevice(s)'
            BY <1>2, <2>1, <2>3, <4>2 DEF Coming
          <5>3. /\ m_states[s[2]].type_config_index \in Nat
                /\ type_config_index \in Nat
            <6>1. s[2] \in DOMAIN m_states
              BY <1>1, <2>3, StateNames DEF m_states
            <6> QED
              BY <1>1, <1>9, <2>3, <6>1, ThisBenchmark
              DEF NextTypeConfig, m_states, LoopTyped, OnDevice
          <5> QED
            BY <1>3, <2>1, <5>1, <5>2, <5>3 DEF OnDeviceFrom, AheadOnDevice
        <4> QED
          BY <2>1, <4>1, <4>2
      <3> QED
        BY <1>1, <2>1, <2>3, <3>1 DEF Coming
    <2> QED
      BY <2>2, <2>3
  <1> QED
    BY <1>4, <1>5, <1>6, <1>7, <1>8, <1>9 DEF LoopStep

\* The steps of one state bring no other back.
LEMMA RunStateGoesOn ==
  ASSUME IInv, RunState
  PROVE  Coming' \subseteq Coming
  <1> SUFFICES ASSUME NEW s \in Coming' PROVE s \in Coming
    OBVIOUS
  <1>1. /\ pc \in OnState /\ UNCHANGED loop
        /\ pc' = "generator" => pc = "generator"
        /\ pc' \in {"generator", "epilogue", "state", "aborted"}
    BY DEF RunState, SkipRemaining, GeneratorSkips, GeneratorReturns,
           GeneratorThrows, GeneratorStops, GeneratorThrowsForeign, Epilogue,
           OnState
  <1>2. Devices' = Devices /\ m_states' = m_states
    BY <1>1 DEF Devices, m_states, loop
  <1> QED
    BY <1>1, <1>2 DEF Coming, OnDevice, OnState, OnDeviceFrom, AheadOnDevice, loop

\* A state that is dealt with does not come again, when no device does.
LEMMA DealtForGood ==
  ASSUME DistinctDevices, IInv, pc \in OnState, pc' = "epilogue",
         UNCHANGED loop
  PROVE  current \notin Coming'
  <1>1. /\ bench \in 1..Len(Benchmarks) /\ bench \in Nat
        /\ device \in 1..Len(Devices) /\ Len(Devices) \in Nat
    BY TypeParts, DevicesTyped, Count DEF IInv, LoopTyped, OnDevice, OnState
  <1>2. Devices' = Devices /\ m_states' = m_states
    BY DEF Devices, m_states, loop
  <1>3. /\ m_states[cur_state].device = Devices[device]
        /\ m_states[cur_state].type_config_index = type_config_index
        /\ type_config_index \in Nat /\ cur_state \in Nat
    <2>1. m_states \in Seq([device : Nat \cup {NoDevice},
                            type_config_index : Nat])
      BY <1>1, ThisBenchmark DEF m_states
    <2>2. /\ cur_state \in DOMAIN m_states
          /\ m_states[cur_state].device = Devices[device]
          /\ m_states[cur_state].type_config_index = type_config_index
      BY DEF IInv, Position
    <2>3. cur_state \in Nat /\ m_states[cur_state].type_config_index \in Nat
      <3>1. DOMAIN m_states \subseteq Nat
        BY <2>1
      <3> DEFINE R == [device : Nat \cup {NoDevice}, type_config_index : Nat]
      <3>2. m_states[cur_state] \in R
        <4>1. m_states \in Seq(R)
          BY <2>1
        <4> HIDE DEF R
        <4> QED
          BY <2>2, <4>1
      <3> QED
        BY <2>2, <3>1, <3>2
    <2> QED
      BY <2>2, <2>3
  <1>4. \A e \in (device + 1)..Len(Devices) : Devices[e] # Devices[device]
    <2>1. CASE Benchmarks[bench].devices = <<>>
      BY <1>1, <2>1 DEF Devices
    <2>2. CASE Benchmarks[bench].devices # <<>>
      <3>1. DOMAIN Benchmarks[bench].devices = 1..Len(Devices)
        BY <1>1, <2>2, ThisBenchmark DEF Devices
      <3> QED
        BY <1>1, <2>2, <3>1, Count DEF Devices, DistinctDevices
    <2> QED
      BY <2>1, <2>2
  <1>5. ~OnDeviceFrom(current, device + 1)' /\ ~AheadOnDevice(current)'
    BY <1>2, <1>3, <1>4 DEF OnDeviceFrom, AheadOnDevice, current, loop
  <1> QED
    BY <1>1, <1>5 DEF Coming, current, loop

\* What is to come stays untouched.
LEMMA ComingStaysPending ==
  ASSUME DistinctDevices, IInv, StillPending, Step
  PROVE  StillPending'
  <1> SUFFICES ASSUME NEW s \in Coming' PROVE outcome'[s] = "pending"
    BY DEF StillPending
  <1>1. s \in Coming
    BY LoopStepsGoOn, RunStateGoesOn DEF Step, LoopStep
  <1>2. outcome[s] = "pending"
    BY <1>1 DEF StillPending
  <1>3. CASE UNCHANGED outcome
    BY <1>2, <1>3
  <1>4. CASE SkipRemaining \/ GeneratorReturns \/ GeneratorThrows \/ GeneratorStops
    <2>1. /\ pc \in OnState /\ pc' = "epilogue" /\ UNCHANGED loop
          /\ \E how \in {"measured", "skipped"} : Dealt(how)
      BY <1>4
      DEF SkipRemaining, GeneratorReturns, GeneratorThrows, GeneratorStops,
          OnState
    <2>2. s # current
      BY <2>1, DealtForGood
    <2>3. DOMAIN outcome = States /\ s \in States
      BY <1>1 DEF IInv, TypeOK, Coming
    <2> QED
      BY <1>2, <2>1, <2>2, <2>3 DEF Dealt
  <1> QED
    BY <1>3, <1>4
    DEF Step, RunState, BeginBenchmark, Finish, EnterDevice, EnterDeviceThrows,
        LeaveBenchmark, EnterState, NextTypeConfig, GeneratorSkips,
        GeneratorThrowsForeign, Epilogue, history

\* A stop stays in force as long as it should: in the Python loop to the end,
\* in the C++ loop to the end of the benchmark.
LEMMA StopStaysInForce ==
  ASSUME IInv, StopInForce, Step, UNCHANGED interruptible
  PROVE  StopInForce'
  <1>1. bench \in Nat /\ skip_remaining \in BOOLEAN
    <2>1. LoopTyped /\ RecordsTyped
      BY TypeParts DEF IInv
    <2>2. bench \in Nat
      BY <2>1, Count DEF LoopTyped
    <2>3. skip_remaining \in BOOLEAN
      BY <2>1 DEF RecordsTyped
    <2> QED
      BY <2>2, <2>3
  <1>2. \A s \in stopped : s[1] \in Nat
    <2>1. stopped \subseteq States
      BY TypeParts DEF IInv, RecordsTyped
    <2>2. \A s \in States : s[1] \in 1..Len(Benchmarks)
      BY StateNames
    <2> QED
      BY <2>1, <2>2, Count
  <1>3. CASE BeginBenchmark
    BY <1>1, <1>3 DEF BeginBenchmark, InitialFlag, StopInForce, history
  <1>4. CASE LeaveBenchmark
    BY <1>1, <1>2, <1>4 DEF LeaveBenchmark, StopInForce, history
  <1>5. CASE GeneratorStops
    <2>1. pc' = "epilogue" /\ pc = "generator" /\ bench' = bench /\ skip_remaining'
          /\ stopped' = stopped \cup Rest
      BY <1>5 DEF GeneratorStops, loop
    <2> QED
      BY <2>1 DEF StopInForce, Rest
  <1>6. CASE Finish
    BY <1>6 DEF Finish, StopInForce, loop, history
  <1>7. CASE /\ UNCHANGED <<bench, skip_remaining, stopped>>
             /\ pc # "benchmark" /\ pc' # "benchmark"
    BY <1>7 DEF StopInForce
  <1> QED
    BY <1>3, <1>4, <1>5, <1>6, <1>7
    DEF Step, RunState, EnterDevice, EnterDeviceThrows, EnterState,
        NextTypeConfig, SkipRemaining, GeneratorSkips, GeneratorReturns,
        GeneratorThrows, GeneratorThrowsForeign, Epilogue, loop, history

\* Every step keeps the invariant that the campaign needs.
LEMMA CampaignInductive ==
  ASSUME DistinctDevices, CampaignInv, [Next]_vars
  PROVE  CampaignInv'
  <1>1. IInv'
    BY Inductive DEF CampaignInv
  <1>2. CASE Step /\ UNCHANGED interruptible
    BY <1>1, <1>2, ComingStaysPending, StopStaysInForce DEF CampaignInv
  <1>3. CASE UNCHANGED vars
    <2>1. Coming' = Coming
      BY <1>3
      DEF Coming, OnDeviceFrom, AheadOnDevice, Devices, m_states, vars, loop
    <2> QED
      BY <1>1, <1>3, <2>1
      DEF CampaignInv, StillPending, StopInForce, vars, loop, history
  <1> QED
    BY <1>2, <1>3 DEF Next, Stopped

\* What a step of the run does to the record is a step of the campaign.
LEMMA CampaignStep ==
  ASSUME CampaignInv, [Next]_vars
  PROVE  [C!Next]_(C!vars)
  <1>1. CASE UNCHANGED history
    BY <1>1 DEF history, C!vars
  <1>2. CASE /\ Step
             /\ SkipRemaining \/ GeneratorReturns \/ GeneratorThrows
                  \/ GeneratorStops
    <2>1. current \in Coming /\ pc = "generator"
      <3>1. pc = "generator"
        BY <1>2
        DEF SkipRemaining, GeneratorReturns, GeneratorThrows, GeneratorStops
      <3> QED
        BY <3>1 DEF CampaignInv, IInv, TypeOK, Coming, current
    <2>2. current \in States /\ outcome[current] = "pending"
      BY <2>1 DEF Coming, CampaignInv, StillPending
    <2>3. ~skip_remaining => current \notin stopped
      <3>1. bench \in Nat
        BY TypeParts, Count DEF CampaignInv, IInv, LoopTyped
      <3> QED
        BY <3>1 DEF CampaignInv, StopInForce, current
    <2>4. CASE SkipRemaining \/ GeneratorThrows
      <3>1. C!Skip(current)
        BY <2>2, <2>4
        DEF SkipRemaining, GeneratorThrows, Dealt, C!Skip
      <3> QED
        BY <2>2, <3>1 DEF C!Next
    <2>5. CASE GeneratorReturns
      <3>1. C!Skip(current) \/ C!Measure(current)
        BY <2>2, <2>3, <2>5
        DEF GeneratorReturns, Dealt, C!Skip, C!Measure
      <3> QED
        BY <2>2, <3>1 DEF C!Next
    <2>6. CASE GeneratorStops
      <3>1. Rest \in SUBSET C!Pending /\ current \in Rest
        BY <2>2 DEF Rest, C!Pending, current
      <3>2. C!Stop(current, Rest)
        BY <2>2, <2>3, <2>6 DEF GeneratorStops, Dealt, C!Stop
      <3> QED
        BY <2>2, <3>1, <3>2 DEF C!Next
    <2> QED
      BY <1>2, <2>4, <2>5, <2>6
  <1> QED
    BY <1>1, <1>2
    DEF Next, Step, Stopped, vars, RunState, BeginBenchmark, Finish,
        EnterDevice, EnterDeviceThrows, LeaveBenchmark, EnterState,
        NextTypeConfig, GeneratorSkips, GeneratorThrowsForeign, Epilogue, history

\* When no device is listed twice, a run deals with each state at most once and
\* measures none after a stop that was meant for it, in both main loops and
\* however its generators end.
THEOREM RunImplementsCampaign == DistinctDevices => (Spec => IsCampaign)
  <1> SUFFICES ASSUME DistinctDevices PROVE Spec => IsCampaign
    OBVIOUS
  <1>1. Init => C!Init
    BY DEF Init, C!Init
  <1>2. CampaignInv /\ [Next]_vars => CampaignInv'
    BY CampaignInductive
  <1>3. CampaignInv /\ [Next]_vars => [C!Next]_(C!vars)
    BY CampaignStep
  <1> QED
    BY CampaignStart, <1>1, <1>2, <1>3, PTL DEF Spec, IsCampaign, C!Spec


-----------------------------------------------------------------------------
(* Nothing is forgotten. *)

\* What has not been dealt with is still to come.
NoneLost ==
  pc # "aborted" => \A s \in States : outcome[s] = "pending" => s \in Coming

\* The states whose record may be ahead of their outcome
Unsettled == IF pc \in {"generator", "aborted"} THEN {current} ELSE {}

\* The record of a state that has been dealt with, or has not begun, agrees
\* with its outcome.
RecordsAgree ==
  \A s \in States \ Unsettled :
    outcome[s] = "skipped" <=> m_skip_reason[s] # "none"

DealtWith == {s \in States : outcome[s] # "pending"}

\* The state that is dealt with and that the printer has not been told of
Unreported == IF pc = "epilogue" THEN {current} ELSE {}

\* The progress display counts the states that have been dealt with.
ProgressAgrees ==
  /\ Unreported \subseteq DealtWith
  /\ completed_state_count = Cardinality(DealtWith \ Unreported)

\* The loop over benchmarks has an end.
EndsAfterTheLast == pc = "finished" => bench > Len(Benchmarks)

CompleteInv ==
  CampaignInv /\ EndsAfterTheLast /\ NoneLost /\ RecordsAgree /\ ProgressAgrees

\* There are finitely many states.
LEMMA FinitelyManyStates == IsFiniteSet(States)
  <1> DEFINE Own == [b \in 1..Len(Benchmarks) |->
                       {b} \X DOMAIN Benchmarks[b].states]
             All == {{b} \X DOMAIN Benchmarks[b].states :
                       b \in DOMAIN Benchmarks}
  <1>1. IsFiniteSet(1..Len(Benchmarks))
    BY Count, FS_Interval
  <1>2. \A b \in 1..Len(Benchmarks) :
          IsFiniteSet({b} \X DOMAIN Benchmarks[b].states)
    <2> SUFFICES ASSUME NEW b \in 1..Len(Benchmarks)
                 PROVE  IsFiniteSet({b} \X DOMAIN Benchmarks[b].states)
      OBVIOUS
    <2>1. PICK n \in Nat : DOMAIN Benchmarks[b].states = 1..n
      BY ThisBenchmark
    <2>2. IsFiniteSet(1..n)
      BY FS_Interval
    <2> QED
      BY <2>1, <2>2, FS_Singleton, FS_Product
  <1>3. Own \in Surjection(1..Len(Benchmarks), All)
    BY Count, Zenon DEF Surjection
  <1>4. IsFiniteSet(All)
    BY <1>1, <1>3, FS_Surjection
  <1>5. \A T \in All : IsFiniteSet(T)
    BY <1>2, Count
  <1>6. IsFiniteSet(UNION All)
    BY <1>4, <1>5, FS_UNION
  <1> QED
    BY <1>6 DEF States

\* At the start all is to come, and nothing has been dealt with.
LEMMA CompleteStart == Init => CompleteInv
  <1> SUFFICES ASSUME Init PROVE CompleteInv
    OBVIOUS
  <1>1. NoneLost
    <2>1. \A s \in States : s[1] \in Nat /\ s[1] >= 1
      BY StateNames, Count
    <2> QED
      BY <2>1 DEF Init, NoneLost, Coming
  <1>2. RecordsAgree
    BY DEF Init, RecordsAgree
  <1>3. ProgressAgrees
    <2>1. DealtWith = {} /\ Unreported = {}
      BY DEF Init, DealtWith, Unreported
    <2> QED
      BY <2>1, FS_EmptySet DEF Init, ProgressAgrees
  <1> QED
    BY CampaignStart, <1>1, <1>2, <1>3 DEF Init, EndsAfterTheLast, CompleteInv

\* The numbers of a state of the benchmark that is run
LEMMA StateOfThisBenchmark ==
  ASSUME NEW s \in States, s[1] = bench
  PROVE  /\ bench \in 1..Len(Benchmarks) /\ s[2] \in DOMAIN m_states
         /\ s[2] \in Nat \ {0}
         /\ m_states[s[2]].type_config_index \in
              0..(Benchmarks[bench].num_type_configs - 1)
         /\ Benchmarks[bench].num_type_configs \in Nat \ {0}
         /\ Len(m_states) \in Nat /\ DOMAIN m_states = 1..Len(m_states)
  <1>1. bench \in 1..Len(Benchmarks) /\ s[2] \in DOMAIN m_states
    BY StateNames DEF m_states
  <1>2. Len(m_states) \in Nat /\ DOMAIN m_states = 1..Len(m_states)
    BY <1>1, ThisBenchmark DEF m_states
  <1>3. /\ Benchmarks[bench].num_type_configs \in Nat \ {0}
        /\ m_states[s[2]].type_config_index \in
             0..(Benchmarks[bench].num_type_configs - 1)
    BY <1>1, ThisBenchmark DEF m_states
  <1> QED
    BY <1>1, <1>2, <1>3

\* The loops over devices, type configurations and states leave none out.
LEMMA LoopStepsLoseNone ==
  ASSUME StatesOnTheirDevices, IInv, LoopStep, pc' # "aborted"
  PROVE  Coming \subseteq Coming'
  <1> SUFFICES ASSUME NEW s \in Coming PROVE s \in Coming'
    OBVIOUS
  <1>1. /\ s \in States /\ LoopTyped /\ device \in Nat \ {0}
        /\ s[1] \in 1..Len(Benchmarks) /\ s[1] \in Nat
        /\ bench \in Nat /\ Len(Benchmarks) \in Nat
    <2>1. s \in States /\ LoopTyped /\ device \in Nat \ {0}
      BY TypeParts DEF Coming, IInv, Position
    <2> QED
      BY <2>1, StateNames, Count DEF LoopTyped
  <1>2. s[1] > bench \/ s[1] = bench
    BY DEF Coming
  <1>3. bench' = bench => Devices' = Devices /\ m_states' = m_states
    BY DEF Devices, m_states
  <1>4. CASE s[1] > bench
    <2>1. bench' \in {bench, bench + 1} /\ (bench' = bench + 1 => pc' = "benchmark")
      BY <1>1
      DEF LoopStep, BeginBenchmark, Finish, EnterDevice, EnterDeviceThrows,
          LeaveBenchmark, EnterState, NextTypeConfig, loop
    <2> QED
      BY <1>1, <1>4, <2>1 DEF Coming
  <1>5. CASE s[1] = bench
    <2>1. /\ bench \in 1..Len(Benchmarks) /\ s[2] \in DOMAIN m_states
          /\ s[2] \in Nat \ {0}
          /\ m_states[s[2]].type_config_index \in
               0..(Benchmarks[bench].num_type_configs - 1)
          /\ Benchmarks[bench].num_type_configs \in Nat \ {0}
          /\ Len(m_states) \in Nat /\ DOMAIN m_states = 1..Len(m_states)
      BY <1>1, <1>5, StateOfThisBenchmark
    <2>2. Devices \in Seq(Nat \cup {NoDevice}) /\ Len(Devices) \in Nat
      BY <2>1, DevicesTyped
    <2>3. CASE BeginBenchmark
      <3>1. bench' = bench /\ device' = 1 /\ pc' = "device"
        BY <2>3 DEF BeginBenchmark
      <3>2. \E d \in 1..Len(Devices) : m_states[s[2]].device = Devices[d]
        <4>1. Benchmarks[bench].devices \in Seq(Nat)
          BY <2>1, ThisBenchmark
        <4>2. CASE Benchmarks[bench].devices = <<>>
          BY <2>1, <4>2, Count DEF StatesOnTheirDevices, Devices, m_states
        <4>3. CASE Benchmarks[bench].devices # <<>>
          <5>1. PICK d \in DOMAIN Benchmarks[bench].devices :
                  m_states[s[2]].device = Benchmarks[bench].devices[d]
            BY <2>1, <4>3, Count DEF StatesOnTheirDevices, m_states
          <5>2. Devices = Benchmarks[bench].devices
            BY <4>3 DEF Devices
          <5> QED
            BY <2>2, <5>1, <5>2
        <4> QED
          BY <4>2, <4>3
      <3> QED
        BY <1>1, <1>3, <1>5, <3>1, <3>2 DEF Coming, OnDeviceFrom
    <2>4. CASE EnterDevice
      <3>1. /\ bench' = bench /\ device' = device /\ pc' = "state"
            /\ type_config_index' = 0 /\ cur_state' = 0 /\ pc = "device"
        BY <2>4 DEF EnterDevice
      <3>2. PICK e \in device..Len(Devices) : m_states[s[2]].device = Devices[e]
        BY <1>1, <1>5, <3>1 DEF Coming, OnDevice, OnState, OnDeviceFrom
      <3>3. CASE e = device
        <4>1. AheadOnDevice(s)'
          BY <1>3, <2>1, <3>1, <3>2, <3>3 DEF AheadOnDevice
        <4> QED
          BY <1>1, <1>5, <3>1, <4>1 DEF Coming, OnDevice
      <3>4. CASE e # device
        <4>1. OnDeviceFrom(s, device + 1)'
          BY <1>1, <1>3, <2>2, <3>1, <3>2, <3>4 DEF OnDeviceFrom
        <4> QED
          BY <1>1, <1>5, <3>1, <4>1 DEF Coming, OnDevice
      <3> QED
        BY <3>3, <3>4
    <2>5. CASE LeaveBenchmark
      BY <1>1, <1>5, <2>2, <2>5
      DEF LeaveBenchmark, Coming, OnDevice, OnState, OnDeviceFrom
    <2>6. CASE EnterState
      <3>1. /\ bench' = bench /\ device' = device /\ pc' = "generator"
            /\ type_config_index' = type_config_index /\ pc = "state"
        BY <2>6 DEF EnterState
      <3>2. PICK i \in Ahead : (\A j \in Ahead : i <= j) /\ cur_state' = i
        BY <2>6 DEF EnterState
      <3>3. OnDeviceFrom(s, device + 1) \/ AheadOnDevice(s)
        BY <1>1, <1>5, <3>1 DEF Coming
      <3>4. CASE OnDeviceFrom(s, device + 1)
        BY <1>1, <1>3, <1>5, <3>1, <3>4
          DEF Coming, OnDevice, OnState, OnDeviceFrom
      <3>5. CASE AheadOnDevice(s)
        <4>1. i \in Nat
          BY <2>1 DEF Ahead
        <4>2. CASE m_states[s[2]].type_config_index > type_config_index
          <5>1. AheadOnDevice(s)'
            BY <1>3, <3>1, <3>5, <4>2 DEF AheadOnDevice
          <5> QED
            BY <1>1, <1>5, <3>1, <5>1 DEF Coming, OnDevice, OnState
        <4>3. CASE /\ m_states[s[2]].type_config_index = type_config_index
                   /\ s[2] > cur_state
          <5>1. i <= s[2]
            BY <2>1, <3>2, <3>5, <4>3 DEF Ahead, AheadOnDevice
          <5>2. CASE i = s[2]
            BY <1>1, <1>5, <3>1, <3>2, <5>2 DEF Coming
          <5>3. CASE i # s[2]
            <6>1. s[2] > i
              BY <2>1, <4>1, <5>1, <5>3
            <6>2. AheadOnDevice(s)'
              BY <1>3, <3>1, <3>2, <3>5, <4>3, <6>1 DEF AheadOnDevice
            <6> QED
              BY <1>1, <1>5, <3>1, <6>2 DEF Coming, OnDevice, OnState
          <5> QED
            BY <5>2, <5>3
        <4> QED
          BY <3>5, <4>2, <4>3 DEF AheadOnDevice
      <3> QED
        BY <3>3, <3>4, <3>5
    <2>7. CASE NextTypeConfig
      <3>1. /\ bench' = bench /\ pc = "state" /\ Ahead = {}
            /\ type_config_index \in Nat
            /\ type_config_index <= LastTypeConfig
        <4>1. type_config_index \in 0..LastTypeConfig
          BY <1>1, <2>7 DEF NextTypeConfig, LoopTyped, OnDevice, LastTypeConfig
        <4> QED
          BY <2>1, <2>7, <4>1 DEF NextTypeConfig, LastTypeConfig
      <3>2. OnDeviceFrom(s, device + 1) \/ AheadOnDevice(s)
        BY <1>1, <1>5, <3>1 DEF Coming
      <3>3. AheadOnDevice(s) =>
              m_states[s[2]].type_config_index > type_config_index
        BY <2>1, <3>1 DEF Ahead, AheadOnDevice
      <3>4. CASE type_config_index < LastTypeConfig
        <4>1. /\ type_config_index' = type_config_index + 1 /\ cur_state' = 0
              /\ device' = device /\ pc' = "state"
          BY <2>7, <3>1, <3>4 DEF NextTypeConfig
        <4>2. OnDeviceFrom(s, device + 1)' \/ AheadOnDevice(s)'
          <5>1. CASE OnDeviceFrom(s, device + 1)
            BY <1>3, <3>1, <4>1, <5>1 DEF OnDeviceFrom
          <5>2. CASE AheadOnDevice(s)
            BY <1>3, <2>1, <3>1, <3>3, <4>1, <5>2 DEF AheadOnDevice
          <5> QED
            BY <3>2, <5>1, <5>2
        <4> QED
          BY <1>1, <1>5, <3>1, <4>1, <4>2 DEF Coming, OnDevice
      <3>5. CASE ~(type_config_index < LastTypeConfig)
        <4>1. device' = device + 1 /\ pc' = "device"
          BY <2>7, <3>5 DEF NextTypeConfig
        <4>2. OnDeviceFrom(s, device + 1)
          BY <2>1, <3>1, <3>2, <3>3, <3>5 DEF LastTypeConfig
        <4>3. OnDeviceFrom(s, device)'
          BY <1>3, <3>1, <4>1, <4>2 DEF OnDeviceFrom
        <4> QED
          BY <1>1, <1>5, <3>1, <4>1, <4>3 DEF Coming
      <3> QED
        BY <3>4, <3>5
    <2>8. CASE Finish
      BY <2>1, <2>8, Count DEF Finish
    <2>9. CASE EnterDeviceThrows
      BY <2>9 DEF EnterDeviceThrows
    <2> QED
      BY <2>3, <2>4, <2>5, <2>6, <2>7, <2>8, <2>9 DEF LoopStep
  <1> QED
    BY <1>2, <1>4, <1>5

\* The steps of one state take no other out of the loops.
LEMMA RunStateLosesNone ==
  ASSUME IInv, RunState, pc' # "aborted",
         NEW s \in Coming, s = current => pc' = "generator"
  PROVE  s \in Coming'
  <1>1. /\ pc \in OnState /\ UNCHANGED loop
        /\ pc' \in {"generator", "epilogue", "state"}
    BY DEF RunState, SkipRemaining, GeneratorSkips, GeneratorReturns,
           GeneratorThrows, GeneratorStops, GeneratorThrowsForeign, Epilogue,
           OnState
  <1>2. Devices' = Devices /\ m_states' = m_states
    BY <1>1 DEF Devices, m_states, loop
  <1>3. s = <<s[1], s[2]>>
    BY StateNames DEF Coming
  <1> QED
    BY <1>1, <1>2, <1>3
    DEF Coming, OnDevice, OnState, OnDeviceFrom, AheadOnDevice, loop, current

\* What has not been dealt with stays to come.
LEMMA NoneGetsLost ==
  ASSUME StatesOnTheirDevices, IInv, NoneLost, ProgressAgrees, Step
  PROVE  NoneLost'
  <1> SUFFICES ASSUME pc' # "aborted",
                      NEW s \in States, outcome'[s] = "pending"
               PROVE  s \in Coming'
    BY DEF NoneLost
  <1>1. DOMAIN outcome = States
    BY DEF IInv, TypeOK
  <1>2. CASE LoopStep
    <2>1. pc # "aborted" /\ UNCHANGED outcome
      BY <1>2
      DEF LoopStep, BeginBenchmark, Finish, EnterDevice, EnterDeviceThrows,
          LeaveBenchmark, EnterState, NextTypeConfig, history
    <2>2. s \in Coming
      BY <2>1 DEF NoneLost
    <2> QED
      BY <1>2, <2>2, LoopStepsLoseNone
  <1>3. CASE RunState
    <2>1. outcome[s] = "pending" /\ pc \in OnState
      BY <1>1, <1>3
      DEF RunState, SkipRemaining, GeneratorSkips, GeneratorReturns,
          GeneratorThrows, GeneratorStops, GeneratorThrowsForeign, Epilogue,
          OnState, Dealt, history
    <2>2. s \in Coming
      BY <2>1 DEF NoneLost, OnState
    <2>3. s = current => pc' = "generator"
      <3>1. s = current => pc # "epilogue"
        BY <2>1 DEF ProgressAgrees, Unreported, DealtWith
      <3> QED
        BY <1>1, <1>3, <2>1, <3>1
        DEF RunState, SkipRemaining, GeneratorSkips, GeneratorReturns,
            GeneratorThrows, GeneratorStops, GeneratorThrowsForeign, Epilogue,
            OnState, Dealt
    <2> QED
      BY <1>3, <2>2, <2>3, RunStateLosesNone
  <1> QED
    BY <1>2, <1>3 DEF Step, LoopStep

\* A state and its record settle together.
LEMMA RecordsStayInAgreement ==
  ASSUME IInv, RecordsAgree, Step
  PROVE  RecordsAgree'
  <1>1. /\ DOMAIN outcome = States /\ DOMAIN m_skip_reason = States
        /\ pc \in OnState => current \in States
    BY TypeParts DEF IInv, LoopTyped, RecordsTyped
  <1> SUFFICES ASSUME NEW s \in States, s \notin Unsettled'
               PROVE  outcome'[s] = "skipped" <=> m_skip_reason'[s] # "none"
    BY DEF RecordsAgree
  <1>2. CASE LoopStep
    <2>1. UNCHANGED <<outcome, m_skip_reason>> /\ pc \notin {"generator", "aborted"}
      BY <1>2
      DEF LoopStep, BeginBenchmark, Finish, EnterDevice, EnterDeviceThrows,
          LeaveBenchmark, EnterState, NextTypeConfig, history
    <2> QED
      BY <2>1 DEF RecordsAgree, Unsettled
  <1>3. CASE RunState
    <2>1. current' = current /\ pc \in OnState
      BY <1>3
      DEF RunState, SkipRemaining, GeneratorSkips, GeneratorReturns,
          GeneratorThrows, GeneratorStops, GeneratorThrowsForeign, Epilogue,
          OnState, current, loop
    <2>2. CASE Epilogue
      BY <2>2 DEF Epilogue, RecordsAgree, Unsettled, history
    <2>3. CASE GeneratorSkips \/ GeneratorThrowsForeign
      <3>1. s # current /\ pc = "generator"
        BY <2>1, <2>3 DEF GeneratorSkips, GeneratorThrowsForeign, Unsettled
      <3>2. outcome'[s] = outcome[s] /\ m_skip_reason'[s] = m_skip_reason[s]
        BY <1>1, <2>3, <3>1
        DEF GeneratorSkips, GeneratorThrowsForeign, Skip, history
      <3> QED
        BY <3>1, <3>2 DEF RecordsAgree, Unsettled
    <2>4. CASE SkipRemaining \/ GeneratorReturns \/ GeneratorThrows
                 \/ GeneratorStops
      <3>1. pc = "generator"
        BY <2>4
        DEF SkipRemaining, GeneratorReturns, GeneratorThrows, GeneratorStops
      <3>2. CASE s = current
        BY <1>1, <2>4, <3>2
        DEF SkipRemaining, GeneratorReturns, GeneratorThrows, GeneratorStops,
            handle_sampling_exception, ReasonAfter, Skip, Dealt, IsSkipped
      <3>3. CASE s # current
        <4>1. outcome'[s] = outcome[s] /\ m_skip_reason'[s] = m_skip_reason[s]
          BY <1>1, <2>4, <3>3
          DEF SkipRemaining, GeneratorReturns, GeneratorThrows, GeneratorStops,
              handle_sampling_exception, Skip, Dealt
        <4> QED
          BY <3>1, <3>3, <4>1 DEF RecordsAgree, Unsettled
      <3> QED
        BY <3>2, <3>3
    <2> QED
      BY <1>3, <2>2, <2>3, <2>4 DEF RunState
  <1> QED
    BY <1>2, <1>3 DEF Step, LoopStep

\* The printer is told of each state once, after it has been dealt with.
LEMMA ProgressStaysInAgreement ==
  ASSUME IInv, StillPending, ProgressAgrees, Step
  PROVE  ProgressAgrees'
  <1>1. /\ DOMAIN outcome = States
        /\ pc \in OnState => current \in States
        /\ IsFiniteSet(DealtWith)
    <2>1. DealtWith \in SUBSET States
      BY DEF DealtWith
    <2> QED
      BY <2>1, TypeParts, FinitelyManyStates, FS_Subset
      DEF IInv, LoopTyped, RecordsTyped
  <1>2. CASE LoopStep
    <2>1. UNCHANGED <<outcome, completed_state_count>>
          /\ pc # "epilogue" /\ pc' # "epilogue"
      BY <1>2
      DEF LoopStep, BeginBenchmark, Finish, EnterDevice, EnterDeviceThrows,
          LeaveBenchmark, EnterState, NextTypeConfig, history
    <2> QED
      BY <2>1 DEF ProgressAgrees, DealtWith, Unreported
  <1>3. CASE GeneratorSkips \/ GeneratorThrowsForeign
    <2>1. UNCHANGED <<outcome, completed_state_count>>
          /\ pc # "epilogue" /\ pc' # "epilogue"
      BY <1>3 DEF GeneratorSkips, GeneratorThrowsForeign, history
    <2> QED
      BY <2>1 DEF ProgressAgrees, DealtWith, Unreported
  <1>4. CASE SkipRemaining \/ GeneratorReturns \/ GeneratorThrows
               \/ GeneratorStops
    <2>1. /\ pc = "generator" /\ pc' = "epilogue" /\ current' = current
          /\ completed_state_count' = completed_state_count
          /\ \E how \in {"measured", "skipped"} : Dealt(how)
      BY <1>4
      DEF SkipRemaining, GeneratorReturns, GeneratorThrows, GeneratorStops,
          current, loop
    <2>2. current \in States /\ outcome[current] = "pending"
      <3>1. current \in Coming
        BY <1>1, <2>1 DEF OnState, Coming, current
      <3> QED
        BY <3>1 DEF StillPending, Coming
    <2>3. DealtWith' = DealtWith \cup {current} /\ current \notin DealtWith
      BY <1>1, <2>1, <2>2 DEF DealtWith, Dealt
    <2>4. DealtWith' \ Unreported' = DealtWith \ Unreported
      BY <2>1, <2>3 DEF Unreported
    <2> QED
      BY <2>1, <2>3, <2>4 DEF ProgressAgrees, Unreported
  <1>5. CASE Epilogue
    <2>1. /\ UNCHANGED outcome /\ pc = "epilogue" /\ pc' = "state"
          /\ completed_state_count' = completed_state_count + 1
      BY <1>5 DEF Epilogue, history
    <2>2. current \in DealtWith
          /\ completed_state_count = Cardinality(DealtWith \ {current})
      BY <2>1 DEF ProgressAgrees, Unreported
    <2>3. /\ Cardinality(DealtWith \ {current}) = Cardinality(DealtWith) - 1
          /\ Cardinality(DealtWith) \in Nat
      BY <1>1, <2>2, FS_RemoveElement, FS_CardinalityType
    <2>4. DealtWith' \ Unreported' = DealtWith /\ Unreported' = {}
      BY <2>1 DEF DealtWith, Unreported
    <2> QED
      BY <2>1, <2>2, <2>3, <2>4 DEF ProgressAgrees
  <1> QED
    BY <1>2, <1>3, <1>4, <1>5 DEF Step, LoopStep, RunState

\* Every step keeps the invariant of a complete run.
LEMMA CompleteInductive ==
  ASSUME DistinctDevices, StatesOnTheirDevices, CompleteInv, [Next]_vars
  PROVE  CompleteInv'
  <1>1. CampaignInv' /\ IInv /\ StillPending
    BY CampaignInductive DEF CompleteInv, CampaignInv
  <1>2. CASE Step /\ UNCHANGED interruptible
    <2>1. EndsAfterTheLast'
      BY <1>2
      DEF Step, RunState, BeginBenchmark, Finish, EnterDevice,
          EnterDeviceThrows, LeaveBenchmark, EnterState, NextTypeConfig,
          SkipRemaining, GeneratorSkips, GeneratorReturns, GeneratorThrows,
          GeneratorStops, GeneratorThrowsForeign, Epilogue, loop,
          EndsAfterTheLast
    <2> QED
      BY <1>1, <1>2, <2>1, NoneGetsLost, RecordsStayInAgreement,
         ProgressStaysInAgreement
      DEF CompleteInv
  <1>3. CASE UNCHANGED vars
    <2>1. Coming' = Coming
      BY <1>3
      DEF Coming, OnDeviceFrom, AheadOnDevice, Devices, m_states, vars, loop
    <2>2. EndsAfterTheLast' /\ NoneLost'
      BY <1>3, <2>1
      DEF CompleteInv, EndsAfterTheLast, NoneLost, vars, loop, history
    <2>3. Unsettled' = Unsettled /\ Unreported' = Unreported
          /\ DealtWith' = DealtWith
      BY <1>3 DEF Unsettled, Unreported, DealtWith, current, vars, loop, history
    <2>4. RecordsAgree' /\ ProgressAgrees'
      BY <1>3, <2>3
      DEF CompleteInv, RecordsAgree, ProgressAgrees, vars, history
    <2> QED
      BY <1>1, <2>2, <2>4 DEF CompleteInv
  <1> QED
    BY <1>2, <1>3 DEF Next, Stopped

\* A run that is over has nothing left to come.
LEMMA NothingLeft ==
  ASSUME CompleteInv
  PROVE  NothingForgotten
  <1> SUFFICES ASSUME pc = "finished"
               PROVE  /\ C!Pending = {}
                      /\ \A s \in States :
                           outcome[s] = "skipped" <=> m_skip_reason[s] # "none"
                      /\ completed_state_count = total_state_count
    BY DEF NothingForgotten
  <1>1. IInv /\ NoneLost /\ RecordsAgree /\ ProgressAgrees
    BY DEF CompleteInv, CampaignInv
  <1>2. \A s \in States : outcome[s] # "pending"
    <2>1. /\ bench \in Nat /\ bench > Len(Benchmarks) /\ Len(Benchmarks) \in Nat
          /\ \A s \in States : s[1] \in 1..Len(Benchmarks)
      BY <1>1, TypeParts, StateNames, Count
      DEF IInv, LoopTyped, CompleteInv, EndsAfterTheLast
    <2>2. Coming = {}
      BY <2>1 DEF Coming
    <2> QED
      BY <1>1, <2>2 DEF NoneLost
  <1>3. C!Pending = {}
    BY <1>2 DEF C!Pending
  <1>4. \A s \in States : outcome[s] = "skipped" <=> m_skip_reason[s] # "none"
    BY <1>1 DEF RecordsAgree, Unsettled
  <1>5. completed_state_count = total_state_count
    <2>1. DealtWith = States /\ Unreported = {}
      BY <1>2 DEF DealtWith, Unreported
    <2> QED
      BY <1>1, <2>1 DEF ProgressAgrees, total_state_count
  <1> QED
    BY <1>3, <1>4, <1>5

\* When no device is listed twice, a run that is over has dealt with every
\* state, its records agree with what was done, and the progress display has
\* reached its total.
THEOREM NothingIsForgotten == DistinctDevices => (Spec => []NothingForgotten)
  <1> SUFFICES ASSUME DistinctDevices PROVE Spec => []NothingForgotten
    OBVIOUS
  <1>1. CompleteInv /\ [Next]_vars => CompleteInv'
    BY CompleteInductive, GeneratedStates
  <1>2. CompleteInv => NothingForgotten
    BY NothingLeft
  <1> QED
    BY CompleteStart, <1>1, <1>2, PTL DEF Spec


-----------------------------------------------------------------------------
(* Finite sets of numbers, and going from 0 to n *)

LEMMA Greatest ==
  ASSUME NEW S \in SUBSET Int, IsFiniteSet(S), S # {}
  PROVE  \E g \in S : \A y \in S : y <= g
  <1>1. IsWellFoundedOn(StrictSubsetOrdering(S), SUBSET S)
    BY FS_StrictSubsetOrderingWellFounded, FS_FiniteSubsetsOfFinite
  <1> DEFINE Above(v) == {u \in S : u > v}
             above == {Above(v) : v \in S}
  <1>2. above \subseteq SUBSET S /\ above # {}
    OBVIOUS
  <1> HIDE DEF above
  <1>3. PICK a \in above : \A y \in above : ~ (<<y, a>> \in StrictSubsetOrdering(S))
    BY <1>1, <1>2, WFMin
  <1>4. PICK v \in S : a = Above(v)
    BY <1>3 DEF above
  <1>5. ASSUME NEW y \in S, y > v
        PROVE  FALSE
    <2>1. Above(y) \in above
      BY DEF above
    <2>2. \A u \in S : u > y => u > v
      BY <1>5
    <2>3. Above(y) \subseteq Above(v)
      BY <2>2
    <2>4. y \in Above(v)
      BY <1>5
    <2>5. y \in Int /\ ~ (y < y)
      OBVIOUS
    <2>6. <<Above(y), a>> \in StrictSubsetOrdering(S)
      BY <1>4, <2>3, <2>4, <2>5 DEF StrictSubsetOrdering
    <2> QED
      BY <1>3, <2>1, <2>6
  <1> QED
    BY <1>5

LEMMA MaxIsGreatest ==
  ASSUME NEW S \in SUBSET Int, IsFiniteSet(S), S # {}
  PROVE  Max(S) \in S /\ \A y \in S : y <= Max(S)
  BY Greatest DEF Max

\* A number beyond all of a set is its greatest when it joins it.
LEMMA MaxOfLater ==
  ASSUME NEW S \in SUBSET Nat, NEW j \in Nat, \A i \in S : i < j
  PROVE  Max(S \cup {j}) = j
  <1>1. j \in S \cup {j} /\ \A y \in S \cup {j} : j >= y
    OBVIOUS
  <1>2. \A x \in S \cup {j} : (\A y \in S \cup {j} : x >= y) => x = j
    OBVIOUS
  <1> QED
    BY <1>1, <1>2 DEF Max

LEMMA LeastOf ==
  ASSUME NEW S \in SUBSET Nat, IsFiniteSet(S), S # {}
  PROVE  \E l \in S : \A y \in S : l <= y
  <1>1. IsWellFoundedOn(StrictSubsetOrdering(S), SUBSET S)
    BY FS_StrictSubsetOrderingWellFounded, FS_FiniteSubsetsOfFinite
  <1> DEFINE Below(v) == {u \in S : u < v}
             below == {Below(v) : v \in S}
  <1>2. below \subseteq SUBSET S /\ below # {}
    OBVIOUS
  <1> HIDE DEF below
  <1>3. PICK a \in below : \A y \in below : ~ (<<y, a>> \in StrictSubsetOrdering(S))
    BY <1>1, <1>2, WFMin
  <1>4. PICK v \in S : a = Below(v)
    BY <1>3 DEF below
  <1>5. ASSUME NEW y \in S, y < v
        PROVE  FALSE
    <2>1. Below(y) \in below
      BY DEF below
    <2>2. \A u \in S : u < y => u < v
      BY <1>5
    <2>3. Below(y) \subseteq Below(v)
      BY <2>2
    <2>4. y \in Below(v)
      BY <1>5
    <2>5. y \in Int /\ ~ (y < y)
      OBVIOUS
    <2>6. <<Below(y), a>> \in StrictSubsetOrdering(S)
      BY <1>4, <2>3, <2>4, <2>5 DEF StrictSubsetOrdering
    <2> QED
      BY <1>3, <2>1, <2>6
  <1> QED
    BY <1>5

LEMMA StepByStep ==
  ASSUME NEW n \in Nat, NEW S, 0 \in S, \A k \in 0..n : k # n /\ k \in S => k + 1 \in S
  PROVE  \A k \in 0..n : k \in S
  <1>1. PICK P : P = {k \in 0..n : k \notin S}
    OBVIOUS
  <1>2. SUFFICES ASSUME P # {}
                 PROVE  FALSE
    BY <1>1
  <1>3. P \in SUBSET (0..n) /\ P \in SUBSET Nat
    BY <1>1
  <1>a. IsFiniteSet(0..n)
    BY FS_Interval
  <1>4. IsFiniteSet(P)
    BY <1>3, <1>a, FS_Subset
  <1>5. PICK l \in P : \A j \in P : l <= j
    BY <1>2, <1>3, <1>4, LeastOf
  <1>6. l \in Nat /\ l # 0 /\ l <= n
    BY <1>1, <1>5
  <1>7. l - 1 \in 0..n /\ l - 1 # n /\ (l - 1) + 1 = l /\ ~ (l <= l - 1)
    BY <1>6
  <1>8. l - 1 \in S
    BY <1>1, <1>5, <1>7
  <1>9. l \in S
    BY <1>7, <1>8
  <1> QED
    BY <1>1, <1>9

-----------------------------------------------------------------------------
(* What Keep keeps *)

Kept(seq, S, n, kept) ==
  kept = [i \in 0..n |-> IF i = 0 THEN <<>>
                         ELSE IF seq[i] \in S THEN Append(kept[i - 1], seq[i]) ELSE kept[i - 1]]

LEMMA KeptAtAll ==
  ASSUME NEW seq, NEW S, NEW n \in Nat
  PROVE  \E kept : Kept(seq, S, n, kept)
  <1>1. PICK P : P = {k \in 0..n : \E kept : Kept(seq, S, k, kept)}
    OBVIOUS
  <1>2. 0 \in P
    <2>1. PICK kept : kept = [i \in 0..0 |-> <<>>]
      OBVIOUS
    <2>2. kept = [i \in 0..0 |-> IF i = 0 THEN <<>>
                                 ELSE IF seq[i] \in S THEN Append(kept[i - 1], seq[i]) ELSE kept[i - 1]]
      <3>1. \A i \in 0..0 : i = 0
        OBVIOUS
      <3> QED
        BY <2>1, <3>1
    <2> QED
      BY <1>1, <2>2 DEF Kept
  <1>3. ASSUME NEW k \in 0..n, k # n, k \in P
        PROVE  k + 1 \in P
    <2>1. k \in Nat /\ k + 1 \in 0..n
      BY <1>3
    <2>2. PICK before : Kept(seq, S, k, before)
      BY <1>1, <1>3
    <2>3. PICK kept : kept = [i \in 0..(k + 1) |->
                                IF i = 0 THEN <<>>
                                ELSE IF seq[i] \in S THEN Append(before[i - 1], seq[i]) ELSE before[i - 1]]
      OBVIOUS
    <2>4. ASSUME NEW i \in 0..k
          PROVE  kept[i] = before[i]
      <3>1. i \in 0..(k + 1)
        BY <2>1
      <3> QED
        BY <2>2, <2>3, <3>1 DEF Kept
    <2>5. \A i \in 0..(k + 1) : i # 0 => i - 1 \in 0..k
      BY <2>1
    <2>6. \A i \in 0..(k + 1) :
            kept[i] = IF i = 0 THEN <<>>
                      ELSE IF seq[i] \in S THEN Append(kept[i - 1], seq[i]) ELSE kept[i - 1]
      BY <2>3, <2>4, <2>5
    <2>7. kept = [i \in 0..(k + 1) |->
                    IF i = 0 THEN <<>>
                    ELSE IF seq[i] \in S THEN Append(kept[i - 1], seq[i]) ELSE kept[i - 1]]
      BY <2>3, <2>6
    <2> QED
      BY <1>1, <2>1, <2>7 DEF Kept
  <1>4. \A k \in 0..n : k \in P
    BY <1>2, <1>3, StepByStep
  <1>5. n \in P
    BY <1>4
  <1> QED
    BY <1>1, <1>5

LEMMA KeepIs ==
  ASSUME NEW seq, NEW S, NEW n \in Nat, n = Len(seq)
  PROVE  \E kept : Kept(seq, S, n, kept) /\ Keep(seq, S) = kept[n]
  <1>1. PICK kept : kept = CHOOSE f : Kept(seq, S, n, f)
    OBVIOUS
  <1>2. Kept(seq, S, n, kept)
    BY <1>1, KeptAtAll
  <1>3. Keep(seq, S) = kept[n]
    BY <1>1 DEF Keep, Kept
  <1> QED
    BY <1>2, <1>3

LEMMA KeptFirst ==
  ASSUME NEW seq, NEW S, NEW n \in Nat, NEW kept, Kept(seq, S, n, kept)
  PROVE  kept[0] = <<>>
  <1>1. 0 \in 0..n
    OBVIOUS
  <1> QED
    BY <1>1 DEF Kept

KeptNext(seq, S, kept, k) ==
  /\ seq[k + 1] \in S => kept[k + 1] = Append(kept[k], seq[k + 1])
  /\ seq[k + 1] \notin S => kept[k + 1] = kept[k]

LEMMA KeptStep ==
  ASSUME NEW seq, NEW S, NEW n \in Nat, NEW kept, Kept(seq, S, n, kept), NEW k \in 0..n, k # n
  PROVE  KeptNext(seq, S, kept, k)
  <1>1. \A i \in 0..n : kept[i] = IF i = 0 THEN <<>>
                                  ELSE IF seq[i] \in S THEN Append(kept[i - 1], seq[i]) ELSE kept[i - 1]
    BY DEF Kept
  <1>2. k + 1 \in 0..n /\ k + 1 # 0 /\ (k + 1) - 1 = k
    OBVIOUS
  <1>3. kept[k + 1] = IF seq[k + 1] \in S THEN Append(kept[k], seq[k + 1]) ELSE kept[k]
    BY <1>1, <1>2
  <1> QED
    BY <1>3 DEF KeptNext

\* What is kept depends only on what has been looked at.
LEMMA KeptAlike ==
  ASSUME NEW s, NEW t, NEW S, NEW n \in Nat, NEW m \in Nat, n <= m, \A i \in 1..n : s[i] = t[i],
         NEW k1, Kept(s, S, n, k1), NEW k2, Kept(t, S, m, k2)
  PROVE  \A i \in 0..n : k1[i] = k2[i]
  <1>1. PICK P : P = {i \in 0..n : k1[i] = k2[i]}
    OBVIOUS
  <1>2. 0 \in P
    <2>1. 0 \in 0..n /\ 0 \in 0..m
      OBVIOUS
    <2>2. k1[0] = <<>> /\ k2[0] = <<>>
      BY KeptFirst
    <2> QED
      BY <1>1, <2>1, <2>2
  <1>3. ASSUME NEW k \in 0..n, k # n, k \in P
        PROVE  k + 1 \in P
    <2>1. k + 1 \in 0..n /\ k \in 0..m /\ k # m /\ k + 1 \in 1..n
      BY <1>3
    <2>2. s[k + 1] = t[k + 1] /\ k1[k] = k2[k]
      BY <1>1, <1>3, <2>1
    <2>3. KeptNext(s, S, k1, k)
      BY <1>3, KeptStep
    <2>4. KeptNext(t, S, k2, k)
      BY <2>1, KeptStep
    <2> QED
      BY <1>1, <2>1, <2>2, <2>3, <2>4 DEF KeptNext
  <1>4. \A k \in 0..n : k \in P
    BY <1>2, <1>3, StepByStep
  <1> QED
    BY <1>1, <1>4

LEMMA KeptTyped ==
  ASSUME NEW T, NEW seq \in Seq(T), NEW S, NEW n \in Nat, n = Len(seq), NEW kept, Kept(seq, S, n, kept)
  PROVE  \A i \in 0..n : kept[i] \in Seq(T \cap S)
  <1>a. PICK U : U = T \cap S
    OBVIOUS
  <1>1. PICK P : P = {i \in 0..n : kept[i] \in Seq(U)}
    OBVIOUS
  <1>2. 0 \in P
    <2>1. 0 \in 0..n
      OBVIOUS
    <2>2. kept[0] \in Seq(U)
      <3>1. kept[0] = <<>>
        BY KeptFirst
      <3>2. <<>> \in Seq(U)
        OBVIOUS
      <3> QED
        BY <3>1, <3>2
    <2> QED
      BY <1>1, <2>1, <2>2
  <1>3. ASSUME NEW k \in 0..n, k # n, k \in P
        PROVE  k + 1 \in P
    <2>1. k + 1 \in 0..n /\ k + 1 \in 1..n
      BY <1>3
    <2>2. seq[k + 1] \in T
      BY <2>1
    <2>3. KeptNext(seq, S, kept, k)
      BY <1>3, KeptStep
    <2>4. kept[k] \in Seq(U)
      BY <1>1, <1>3
    <2>5. seq[k + 1] \in S => seq[k + 1] \in U
      BY <1>a, <2>2
    <2>6. kept[k + 1] \in Seq(U)
      <3>1. CASE seq[k + 1] \in S
        <4>1. PICK q, e : q = kept[k] /\ e = seq[k + 1]
          OBVIOUS
        <4>2. q \in Seq(U) /\ e \in U
          BY <2>4, <2>5, <3>1, <4>1
        <4>3. Append(q, e) \in Seq(U)
          BY <4>2
        <4> QED
          BY <2>3, <3>1, <4>1, <4>3 DEF KeptNext
      <3>2. CASE seq[k + 1] \notin S
        BY <2>3, <2>4, <3>2 DEF KeptNext
      <3> QED
        BY <3>1, <3>2
    <2> QED
      BY <1>1, <2>1, <2>6
  <1>4. \A k \in 0..n : k \in P
    BY <1>2, <1>3, StepByStep
  <1> QED
    BY <1>a, <1>1, <1>4

LEMMA KeepTyped ==
  ASSUME NEW T, NEW seq \in Seq(T), NEW S
  PROVE  Keep(seq, S) \in Seq(T \cap S)
  <1>1. PICK n \in Nat : n = Len(seq)
    OBVIOUS
  <1>2. PICK kept : Kept(seq, S, n, kept) /\ Keep(seq, S) = kept[n]
    BY <1>1, KeepIs
  <1>3. \A i \in 0..n : kept[i] \in Seq(T \cap S)
    BY <1>1, <1>2, KeptTyped
  <1>4. n \in 0..n
    OBVIOUS
  <1> QED
    BY <1>2, <1>3, <1>4

LEMMA KeepNone == ASSUME NEW S PROVE Keep(<<>>, S) = <<>>
  <1>1. PICK kept : Kept(<<>>, S, 0, kept) /\ Keep(<<>>, S) = kept[0]
    BY KeepIs
  <1> QED
    BY <1>1, KeptFirst

LEMMA KeepOneMore ==
  ASSUME NEW T, NEW q \in Seq(T), NEW e \in T, NEW S
  PROVE  Keep(Append(q, e), S) = IF e \in S THEN Append(Keep(q, S), e) ELSE Keep(q, S)
  <1>1. PICK n, r : n = Len(q) /\ r = Append(q, e)
    OBVIOUS
  <1>a. n \in Nat
    BY <1>1
  <1>b. PICK m : m = n + 1
    OBVIOUS
  <1>2. r \in Seq(T) /\ Len(r) = m /\ r[n + 1] = e /\ \A i \in 1..n : q[i] = r[i]
    BY <1>1, <1>b
  <1>3. PICK k1 : Kept(q, S, n, k1) /\ Keep(q, S) = k1[n]
    BY <1>1, <1>a, KeepIs
  <1>4. m \in Nat /\ n <= m /\ n \in 0..m /\ n # m /\ n \in 0..n
    BY <1>a, <1>b
  <1>5. PICK k2 : Kept(r, S, m, k2) /\ Keep(r, S) = k2[m]
    BY <1>2, <1>4, KeepIs
  <1>c. \A i \in 1..n : q[i] = r[i]
    BY <1>2
  <1>6. \A i \in 0..n : k1[i] = k2[i]
    BY <1>a, <1>3, <1>4, <1>5, <1>c, KeptAlike
  <1>7. KeptNext(r, S, k2, n)
    BY <1>4, <1>5, KeptStep
  <1>8. k1[n] = k2[n]
    BY <1>4, <1>6
  <1> QED
    BY <1>1, <1>b, <1>2, <1>3, <1>5, <1>7, <1>8 DEF KeptNext

\* Keeping of what was kept
LEMMA KeepTwice ==
  ASSUME NEW T, NEW seq \in Seq(T), NEW A, NEW B
  PROVE  Keep(Keep(seq, A), B) = Keep(seq, A \cap B)
  <1>1. PICK n \in Nat : n = Len(seq)
    OBVIOUS
  <1>2. PICK k1 : Kept(seq, A, n, k1) /\ Keep(seq, A) = k1[n]
    BY <1>1, KeepIs
  <1>3. PICK k2 : Kept(seq, A \cap B, n, k2) /\ Keep(seq, A \cap B) = k2[n]
    BY <1>1, KeepIs
  <1>4. PICK P : P = {k \in 0..n : Keep(k1[k], B) = k2[k]}
    OBVIOUS
  <1>5. 0 \in P
    <2>1. 0 \in 0..n
      OBVIOUS
    <2>2. k1[0] = <<>> /\ k2[0] = <<>>
      BY <1>2, <1>3, KeptFirst
    <2> QED
      BY <1>4, <2>1, <2>2, KeepNone
  <1>6. ASSUME NEW k \in 0..n, k # n, k \in P
        PROVE  k + 1 \in P
    <2>1. k + 1 \in 0..n /\ k + 1 \in 1..n
      BY <1>6
    <2>2. PICK e : e = seq[k + 1] /\ e \in T
      BY <1>1, <2>1
    <2>a. KeptNext(seq, A, k1, k)
      BY <1>2, <1>6, KeptStep
    <2>b. KeptNext(seq, A \cap B, k2, k)
      BY <1>3, <1>6, KeptStep
    <2>3. /\ e \in A => k1[k + 1] = Append(k1[k], e)
          /\ e \notin A => k1[k + 1] = k1[k]
      BY <2>2, <2>a DEF KeptNext
    <2>4. /\ e \in A \cap B => k2[k + 1] = Append(k2[k], e)
          /\ e \notin A \cap B => k2[k + 1] = k2[k]
      BY <2>2, <2>b DEF KeptNext
    <2>5. k1[k] \in Seq(T)
      <3>1. k1[k] \in Seq(T \cap A)
        BY <1>1, <1>2, <1>6, KeptTyped
      <3> QED
        BY <3>1
    <2>6. Keep(Append(k1[k], e), B) = IF e \in B THEN Append(Keep(k1[k], B), e) ELSE Keep(k1[k], B)
      <3>1. PICK q : q = k1[k]
        OBVIOUS
      <3>2. q \in Seq(T) /\ e \in T
        BY <2>2, <2>5, <3>1
      <3>3. Keep(Append(q, e), B) = IF e \in B THEN Append(Keep(q, B), e) ELSE Keep(q, B)
        BY <3>2, KeepOneMore
      <3> QED
        BY <3>1, <3>3
    <2>7. Keep(k1[k], B) = k2[k]
      BY <1>4, <1>6
    <2>8. Keep(k1[k + 1], B) = k2[k + 1]
      BY <2>3, <2>4, <2>6, <2>7
    <2> QED
      BY <1>4, <2>1, <2>8
  <1>7. \A k \in 0..n : k \in P
    BY <1>5, <1>6, StepByStep
  <1>8. n \in P
    BY <1>7
  <1> QED
    BY <1>2, <1>3, <1>4, <1>8

-----------------------------------------------------------------------------
(* The table of cases, and what the groups mean *)

LEMMA TableIs ==
  /\ EXAMPLE_RUNS \in Seq(Cases)
  /\ \A run \in Cases :
       /\ run.name # "syntax"
       /\ \/ ~ run.requires_gpu /\ run.groups \in {{"smoke"}, {"example-cpu"}}
          \/ run.requires_gpu /\ run.groups \in {{"core-cccl"}, {"numba-cuda-mlir"}, {"cupy"}, {"cuda-compute"}}
          \/ run.requires_gpu /\ run.groups \in {{"autotune"}, {"torch"}, {"cute"}}
  <1>1. DOMAIN EXAMPLE_RUNS = 1..13 /\ EXAMPLE_RUNS = [i \in 1..13 |-> EXAMPLE_RUNS[i]]
    BY DEF EXAMPLE_RUNS
  <1>2. \A i \in 1..13 : EXAMPLE_RUNS[i] \in Cases
    BY <1>1 DEF Cases, ToSet
  <1>3. EXAMPLE_RUNS \in Seq(Cases)
    BY <1>1, <1>2
  <1>4. ASSUME NEW i \in 1..13
        PROVE  LET run == EXAMPLE_RUNS[i] IN
                 /\ run.name # "syntax"
                 /\ \/ ~ run.requires_gpu /\ run.groups \in {{"smoke"}, {"example-cpu"}}
                    \/ run.requires_gpu /\ run.groups \in {{"core-cccl"}, {"numba-cuda-mlir"}, {"cupy"}, {"cuda-compute"}}
                    \/ run.requires_gpu /\ run.groups \in {{"autotune"}, {"torch"}, {"cute"}}
    BY <1>4 DEF EXAMPLE_RUNS, Case
  <1> QED
    BY <1>1, <1>3, <1>4 DEF Cases, ToSet

Aliases == {"light-gpu", "pr", "cpu", "gpu", "all"}

LEMMA AliasesAre ==
  /\ DOMAIN GROUP_ALIASES = Aliases
  /\ GROUP_ALIASES["light-gpu"] = {"core-cccl"}
  /\ GROUP_ALIASES["pr"] = {"syntax", "smoke"}
  /\ GROUP_ALIASES["cpu"] = {"smoke", "example-cpu"}
  /\ GROUP_ALIASES["gpu"] = {"core-cccl", "numba-cuda-mlir", "cupy", "cuda-compute"}
  /\ GROUP_ALIASES["all"] = {"syntax", "smoke", "example-cpu", "core-cccl", "numba-cuda-mlir", "cupy",
                             "cuda-compute", "autotune", "torch", "cute"}
  BY DEF GROUP_ALIASES, Aliases

\* The group g is, or stands for, the group x.
Means(g, x) == (g \in Aliases /\ x \in GROUP_ALIASES[g]) \/ (g \notin Aliases /\ x = g)

LEMMA Expanded ==
  ASSUME NEW gs, NEW x
  PROVE  x \in expand_groups(gs) <=> \E g \in ToSet(gs) : Means(g, x)
  BY AliasesAre DEF expand_groups, Means

LEMMA NoGroupIsSyntax ==
  ASSUME NEW x
  PROVE  x \in expand_groups(<<"syntax">>) <=> x = "syntax"
  <1>1. ToSet(<<"syntax">>) = {"syntax"}
    BY DEF ToSet
  <1> QED
    BY <1>1, Expanded DEF Means, Aliases

\* The groups as the help describes them
LEMMA GroupsAsDescribed ==
         /\ "syntax" \in Groups <=> SyntaxAsked
         /\ "smoke" \in Groups <=> Has("smoke") \/ Has("pr") \/ Has("cpu") \/ Has("all")
         /\ "example-cpu" \in Groups <=> Has("example-cpu") \/ Has("cpu") \/ Has("all")
         /\ "core-cccl" \in Groups <=> Has("core-cccl") \/ Has("light-gpu") \/ Has("gpu") \/ Has("all")
         /\ \A x \in {"numba-cuda-mlir", "cupy", "cuda-compute"} : x \in Groups <=> Has(x) \/ Has("gpu") \/ Has("all")
         /\ \A x \in {"autotune", "torch", "cute"} : x \in Groups <=> Has(x) \/ Has("all")
  <1>1. CASE args.groups = <<>>
    <2>1. \A x : ~ Has(x)
      BY <1>1 DEF Has, ToSet
    <2>2. \A x : x \in Groups <=> x = "syntax"
      BY <1>1, NoGroupIsSyntax DEF Groups
    <2> QED
      BY <1>1, <2>1, <2>2 DEF SyntaxAsked
  <1>2. CASE args.groups # <<>>
    <2>1. \A x : x \in Groups <=> \E g : Has(g) /\ Means(g, x)
      BY <1>2, Expanded DEF Groups, Has
    <2>2. \A x : Means("light-gpu", x) <=> x = "core-cccl"
      BY AliasesAre DEF Means, Aliases
    <2>3. \A x : Means("pr", x) <=> x \in {"syntax", "smoke"}
      BY AliasesAre DEF Means, Aliases
    <2>4. \A x : Means("cpu", x) <=> x \in {"smoke", "example-cpu"}
      BY AliasesAre DEF Means, Aliases
    <2>5. \A x : Means("gpu", x) <=> x \in {"core-cccl", "numba-cuda-mlir", "cupy", "cuda-compute"}
      BY AliasesAre DEF Means, Aliases
    <2>6. \A x : Means("all", x) <=> x \in {"syntax", "smoke", "example-cpu", "core-cccl", "numba-cuda-mlir", "cupy",
                                            "cuda-compute", "autotune", "torch", "cute"}
      BY AliasesAre DEF Means, Aliases
    <2>7. \A g, x : g \notin Aliases => (Means(g, x) <=> x = g)
      BY DEF Means
    <2>8. \A g : g \in Aliases => g \in {"light-gpu", "pr", "cpu", "gpu", "all"}
      BY DEF Aliases
    <2>9. \A x : x \in {"syntax", "smoke", "example-cpu", "core-cccl", "numba-cuda-mlir", "cupy", "cuda-compute",
                        "autotune", "torch", "cute"} => x \notin Aliases
      BY DEF Aliases
    <2> QED
      BY <1>2, <2>1, <2>2, <2>3, <2>4, <2>5, <2>6, <2>7, <2>8, <2>9 DEF SyntaxAsked
  <1> QED
    BY <1>1, <1>2

\* A case is in the groups exactly if the help says so.
InAskedGroup(run) ==
  \/ Has("all")
  \/ \E g \in run.groups : Has(g)
  \/ run.groups \cap {"smoke"} # {} /\ (Has("pr") \/ Has("cpu"))
  \/ run.groups \cap {"example-cpu"} # {} /\ Has("cpu")
  \/ run.requires_gpu /\ Has("gpu") /\ run.groups \cap {"autotune", "torch", "cute"} = {}
  \/ run.groups \cap {"core-cccl"} # {} /\ Has("light-gpu")

LEMMA InGroups ==
  ASSUME NEW run \in Cases
  PROVE  run.groups \cap Groups # {} <=> InAskedGroup(run)
  <1>1. PICK x : run.groups = {x} /\ x \in {"smoke", "example-cpu", "core-cccl", "numba-cuda-mlir", "cupy",
                                            "cuda-compute", "autotune", "torch", "cute"}
    BY TableIs
  <1>2. run.groups \cap Groups # {} <=> x \in Groups
    BY <1>1
  <1>3. (\E g \in run.groups : Has(g)) <=> Has(x)
    BY <1>1
  <1>4. CASE x = "smoke"
    <2>1. ~ run.requires_gpu
      BY <1>1, <1>4, TableIs
    <2> QED
      BY <1>1, <1>2, <1>3, <1>4, <2>1, GroupsAsDescribed DEF InAskedGroup
  <1>5. CASE x = "example-cpu"
    <2>1. ~ run.requires_gpu
      BY <1>1, <1>5, TableIs
    <2> QED
      BY <1>1, <1>2, <1>3, <1>5, <2>1, GroupsAsDescribed DEF InAskedGroup
  <1>6. CASE x = "core-cccl"
    <2>1. run.requires_gpu
      BY <1>1, <1>6, TableIs
    <2> QED
      BY <1>1, <1>2, <1>3, <1>6, <2>1, GroupsAsDescribed DEF InAskedGroup
  <1>7. CASE x \in {"numba-cuda-mlir", "cupy", "cuda-compute"}
    <2>1. run.requires_gpu
      BY <1>1, <1>7, TableIs
    <2> QED
      BY <1>1, <1>2, <1>3, <1>7, <2>1, GroupsAsDescribed DEF InAskedGroup
  <1>8. CASE x \in {"autotune", "torch", "cute"}
    BY <1>1, <1>2, <1>3, <1>8, GroupsAsDescribed DEF InAskedGroup
  <1> QED
    BY <1>1, <1>4, <1>5, <1>6, <1>7, <1>8

-----------------------------------------------------------------------------
(* What was asked for is what is selected *)

Asked == Keep(EXAMPLE_RUNS, {run \in Cases : AskedFor(run)})

LEMMA SelectedAreAsked ==
  ASSUME args.cases \in Seq(ToSet(args.cases)), selected_runs(Groups, ToSet(args.cases)) # None
  PROVE  selected_runs(Groups, ToSet(args.cases)) = Asked
  <1>1. PICK A, B, names : /\ A = {run \in Cases : run.groups \cap Groups # {}}
                           /\ names = ToSet(args.cases)
                           /\ B = {run \in Cases : run.name \in names}
    OBVIOUS
  <1>2. A = {run \in Cases : InAskedGroup(run)}
    BY <1>1, InGroups
  <1>3. names = {} <=> args.cases = <<>>
    <2>1. PICK cases, T : cases = args.cases /\ T = ToSet(cases)
      OBVIOUS
    <2>2. cases \in Seq(T) /\ T = {cases[i] : i \in DOMAIN cases}
      BY <2>1 DEF ToSet
    <2>3. cases # <<>> => 1 \in DOMAIN cases
      BY <2>2
    <2>4. cases = <<>> => DOMAIN cases = {}
      OBVIOUS
    <2> QED
      BY <1>1, <2>1, <2>2, <2>3, <2>4
  <1>4. CASE names = {}
    <2>1. {run \in Cases : AskedFor(run)} = A
      BY <1>2, <1>3, <1>4 DEF AskedFor, InAskedGroup
    <2> QED
      BY <1>1, <1>4, <2>1 DEF selected_runs, Asked
  <1>5. CASE names # {}
    <2>1. {run \in Cases : AskedFor(run)} = A \cap B
      BY <1>1, <1>2, <1>3, <1>5 DEF AskedFor, InAskedGroup
    <2>2. selected_runs(Groups, ToSet(args.cases)) = Keep(Keep(EXAMPLE_RUNS, A), B)
      BY <1>1, <1>5 DEF selected_runs
    <2>3. Keep(Keep(EXAMPLE_RUNS, A), B) = Keep(EXAMPLE_RUNS, A \cap B)
      BY TableIs, KeepTwice
    <2> QED
      BY <2>1, <2>2, <2>3 DEF Asked
  <1> QED
    BY <1>4, <1>5

LEMMA AskedTyped == Asked \in Seq(Cases)
  <1>1. PICK S : S = {run \in Cases : AskedFor(run)}
    OBVIOUS
  <1>2. Keep(EXAMPLE_RUNS, S) \in Seq(Cases \cap S)
    BY TableIs, KeepTyped
  <1>3. Cases \cap S = S /\ S \subseteq Cases
    BY <1>1
  <1> QED
    BY <1>1, <1>2, <1>3 DEF Asked

First == IF SyntaxAsked THEN 1 ELSE 0

CheckNames == {"syntax"} \cup {run.name : run \in Cases}

LEMMA ChecksAre ==
  /\ Checks \in Seq(CheckNames)
  /\ Len(Checks) = First + Len(Asked)
  /\ SyntaxAsked => Checks[1] = "syntax"
  /\ \A i \in 1..Len(Asked) : Checks[First + i] = Asked[i].name
  <1>1. PICK names : names = [i \in DOMAIN Asked |-> Asked[i].name]
    OBVIOUS
  <1>2. PICK n \in Nat : n = Len(Asked) /\ DOMAIN Asked = 1..n
    BY AskedTyped
  <1>3. \A i \in 1..n : Asked[i] \in Cases
    BY <1>2, AskedTyped
  <1>4. names = [i \in 1..n |-> Asked[i].name] /\ \A i \in 1..n : Asked[i].name \in CheckNames
    BY <1>1, <1>2, <1>3 DEF CheckNames
  <1>5. names \in Seq(CheckNames) /\ Len(names) = n /\ \A i \in 1..n : names[i] = Asked[i].name
    BY <1>4
  <1>6. Checks = IF SyntaxAsked THEN <<"syntax">> \o names ELSE names
    BY <1>1 DEF Checks, Asked
  <1>7. CASE SyntaxAsked
    <2>1. <<"syntax">> \in Seq(CheckNames) /\ Len(<<"syntax">>) = 1
      BY DEF CheckNames
    <2>2. PICK one, all : one = <<"syntax">> /\ all = one \o names
      OBVIOUS
    <2>3. one \in Seq(CheckNames) /\ Len(one) = 1 /\ one[1] = "syntax"
      BY <2>1, <2>2
    <2>4. all \in Seq(CheckNames) /\ Len(all) = 1 + n /\ all[1] = "syntax"
      BY <1>5, <2>2, <2>3
    <2>5. \A i \in 1..n : all[1 + i] = names[i]
      BY <1>5, <2>2, <2>3
    <2> QED
      BY <1>2, <1>5, <1>6, <1>7, <2>2, <2>4, <2>5 DEF First
  <1>8. CASE ~ SyntaxAsked
    BY <1>2, <1>5, <1>6, <1>8 DEF First
  <1> QED
    BY <1>7, <1>8

-----------------------------------------------------------------------------
(* The runner *)

Outcomes == [name : CheckNames, result : {"passed", "failed", "skipped"}]

\* The results so far, and that a failure would have ended the run
ReportedSoFar ==
  /\ results \in Seq(Outcomes)
  /\ Len(results) <= Len(Checks)
  /\ \A i \in 1..Len(results) : results[i].name = Checks[i]

NoneFailed(n) == \A i \in 1..n : results[i].result # "failed"

Expected ==
  /\ stage \in {"start", "syntax"} => results = <<>>
  /\ stage = "syntax" => SyntaxAsked
  /\ stage = "select" => Len(results) = First
  /\ stage \in {"cases", "child"} =>
       /\ queue \in Seq(Cases)
       /\ Len(results) + Len(queue) = Len(Checks)
       /\ \A i \in 1..Len(queue) : queue[i].name = Checks[Len(results) + i]
  /\ stage = "child" => queue # <<>>

Ending ==
  IF stage # "exited" THEN ~ args.continue_on_failure => NoneFailed(Len(results))
  ELSE (~ args.list /\ exit # 2) =>
         \/ /\ Len(results) = Len(Checks)
            /\ ~ args.continue_on_failure => NoneFailed(Len(results))
            /\ exit = ExitStatus(results)
         \/ /\ ~ args.continue_on_failure /\ exit = 1
            /\ results # <<>> /\ results[Len(results)].result = "failed"
            /\ NoneFailed(Len(results) - 1)

ReportInv ==
  /\ args \in Invocations
  /\ ReportedSoFar
  /\ Expected
  /\ Ending

LEMMA ReportInit == ExamplesInit => ReportInv
  <1> SUFFICES ASSUME ExamplesInit PROVE ReportInv
    OBVIOUS
  <1>1. args \in Invocations /\ stage = "start" /\ results = <<>>
    BY DEF ExamplesInit
  <1>2. ReportedSoFar
    <2>1. Len(Checks) \in Nat
      BY ChecksAre
    <2> QED
      BY <1>1, <2>1 DEF ReportedSoFar
  <1>3. Expected
    BY <1>1 DEF Expected
  <1>4. Ending
    BY <1>1 DEF Ending, NoneFailed
  <1> QED
    BY <1>1, <1>2, <1>3, <1>4 DEF ReportInv

\* One more result, of the check that is next
LEMMA OneMoreResult ==
  ASSUME ReportInv, stage # "exited", Len(results) < Len(Checks),
         NEW name, name = Checks[Len(results) + 1], NEW result \in {"passed", "failed", "skipped"},
         NEW next, next # "exited", Report(name, result, next), args' = args, world' = world
  PROVE  /\ ReportedSoFar' /\ Ending'
         /\ stage' = next \/ stage' = "exited"
         /\ Len(results') = Len(results) + 1
  <1>1. PICK n, more, r : n = Len(results) /\ more = results' /\ r = [name |-> name, result |-> result]
    OBVIOUS
  <1>2. PICK c : c = Checks
    OBVIOUS
  <1>3. c \in Seq(CheckNames) /\ Len(c) \in Nat /\ Checks' = c
    <2>1. Checks' = Checks
      BY DEF Checks, AskedFor, SyntaxAsked, Has
    <2> QED
      BY <1>2, <2>1, ChecksAre
  <1>4. results \in Seq(Outcomes) /\ n \in Nat /\ n < Len(c) /\ name = c[n + 1]
    BY <1>1, <1>2 DEF ReportInv, ReportedSoFar
  <1>5. r \in Outcomes
    <2>1. n + 1 \in 1..Len(c)
      BY <1>3, <1>4
    <2>2. name \in CheckNames
      BY <1>3, <1>4, <2>1
    <2> QED
      BY <1>1, <2>2 DEF Outcomes
  <1>6. more = Append(results, r)
    BY <1>1 DEF Report
  <1>7. more \in Seq(Outcomes) /\ Len(more) = n + 1 /\ more[n + 1] = r /\ \A i \in 1..n : more[i] = results[i]
    BY <1>1, <1>4, <1>5, <1>6
  <1>8. ReportedSoFar'
    <2>1. \A i \in 1..n : results[i].name = c[i]
      BY <1>1, <1>2 DEF ReportInv, ReportedSoFar
    <2>2. \A i \in 1..(n + 1) : i \in 1..n \/ i = n + 1
      BY <1>4
    <2>3. \A i \in 1..(n + 1) : more[i].name = c[i]
      BY <1>1, <1>4, <1>7, <2>1, <2>2
    <2>4. n + 1 <= Len(c)
      BY <1>3, <1>4
    <2> QED
      BY <1>1, <1>3, <1>7, <2>3, <2>4 DEF ReportedSoFar
  <1>9. ~ args.continue_on_failure => NoneFailed(n)
    BY <1>1 DEF ReportInv, Ending
  <1>10. (NoneFailed(n))' <=> NoneFailed(n)
    BY <1>1, <1>7 DEF NoneFailed
  <1>11. CASE result = "failed" /\ ~ args.continue_on_failure
    <2>1. stage' = "exited" /\ exit' = 1
      BY <1>11 DEF Report, Exit
    <2>2. (NoneFailed(Len(results) - 1))'
      <3>1. Len(more) - 1 = n
        BY <1>4, <1>7
      <3> QED
        BY <1>1, <1>9, <1>10, <1>11, <3>1 DEF NoneFailed
    <2>3. more # <<>> /\ more[Len(more)].result = "failed"
      <3>1. Len(more) # 0
        BY <1>4, <1>7
      <3>2. more # <<>>
        BY <3>1
      <3> QED
        BY <1>1, <1>7, <1>11, <3>2
    <2>4. Ending'
      BY <1>1, <1>11, <2>1, <2>2, <2>3 DEF Ending
    <2> QED
      BY <1>1, <1>7, <1>8, <2>1, <2>4
  <1>12. CASE ~ (result = "failed" /\ ~ args.continue_on_failure)
    <2>1. stage' = next
      BY <1>12 DEF Report
    <2>2. ~ args.continue_on_failure => \A i \in 1..(n + 1) : more[i].result # "failed"
      <3>1. \A i \in 1..(n + 1) : i \in 1..n \/ i = n + 1
        BY <1>4
      <3> QED
        BY <1>1, <1>7, <1>9, <1>12, <3>1 DEF NoneFailed
    <2>3. Ending'
      BY <1>1, <1>7, <2>1, <2>2 DEF Ending, NoneFailed
    <2> QED
      BY <1>1, <1>7, <1>8, <2>1, <2>3
  <1> QED
    BY <1>11, <1>12

LEMMA ChecksStay == ASSUME args' = args PROVE Checks' = Checks /\ First' = First /\ SyntaxAsked' = SyntaxAsked
  BY DEF Checks, AskedFor, First, SyntaxAsked, Has

\* The case at the head of the queue gets its result.
LEMMA QueueGoesOn ==
  ASSUME ReportInv, stage \in {"cases", "child"}, queue # <<>>, NEW result \in {"passed", "failed", "skipped"},
         Report(NextCase.name, result, "cases"), queue' = Tail(queue), args' = args, world' = world
  PROVE  ReportInv'
  <1>1. PICK n, m, c : n = Len(results) /\ m = Len(queue) /\ c = Checks
    OBVIOUS
  <1>2. /\ queue \in Seq(Cases) /\ n + m = Len(c)
        /\ \A i \in 1..m : queue[i].name = c[n + i]
    BY <1>1 DEF ReportInv, Expected
  <1>3. m \in Nat /\ m # 0
    BY <1>1, <1>2
  <1>4. n \in Nat
    BY <1>1 DEF ReportInv, ReportedSoFar
  <1>5. Len(c) \in Nat /\ Checks' = c
    BY <1>1, ChecksAre, ChecksStay
  <1>6. n < Len(c) /\ queue[1].name = c[n + 1]
    <2>1. 1 \in 1..m
      BY <1>3
    <2> QED
      BY <1>2, <1>3, <1>4, <1>5, <2>1
  <1>7. PICK name : name = NextCase.name /\ name = c[n + 1]
    BY <1>6 DEF NextCase
  <1>8. "cases" # "exited" /\ stage # "exited"
    OBVIOUS
  <1>9. /\ ReportedSoFar' /\ Ending'
        /\ stage' = "cases" \/ stage' = "exited"
        /\ Len(results') = n + 1
    BY <1>1, <1>6, <1>7, <1>8, OneMoreResult
  <1>10. PICK rest : rest = Tail(queue)
    OBVIOUS
  <1>11. rest \in Seq(Cases) /\ Len(rest) = m - 1 /\ \A i \in 1..(m - 1) : rest[i] = queue[i + 1]
    BY <1>1, <1>2, <1>3, <1>10
  <1>12. \A i \in 1..(m - 1) : rest[i].name = c[(n + 1) + i]
    <2> SUFFICES ASSUME NEW i \in 1..(m - 1) PROVE rest[i].name = c[(n + 1) + i]
      OBVIOUS
    <2>1. i + 1 \in 1..m /\ n + (i + 1) = (n + 1) + i
      BY <1>3, <1>4
    <2> QED
      BY <1>2, <1>11, <2>1
  <1>13. (n + 1) + (m - 1) = Len(c)
    BY <1>2, <1>3, <1>4
  <1>14. Expected'
    BY <1>5, <1>9, <1>10, <1>11, <1>12, <1>13 DEF Expected
  <1> QED
    BY <1>9, <1>14 DEF ReportInv

LEMMA ReportUnchanged ==
  ASSUME ReportInv, UNCHANGED <<args, stage, queue, results, exit>>
  PROVE  ReportInv'
  <1>1. Checks' = Checks /\ First' = First /\ SyntaxAsked' = SyntaxAsked
    BY ChecksStay
  <1>2. ReportedSoFar'
    BY <1>1 DEF ReportInv, ReportedSoFar
  <1>3. Expected'
    BY <1>1 DEF ReportInv, Expected
  <1>4. Ending'
    BY <1>1 DEF ReportInv, Ending, NoneFailed, ExitStatus, FailureCount
  <1> QED
    BY <1>2, <1>3, <1>4 DEF ReportInv

\* Only stage and exit change, and the run does not end.
LEMMA ReportTurns ==
  ASSUME ReportInv, stage # "exited", stage' # "exited", UNCHANGED <<args, results>>, Expected'
  PROVE  ReportInv'
  <1>1. Checks' = Checks
    BY ChecksStay
  <1>2. ReportedSoFar'
    BY <1>1 DEF ReportInv, ReportedSoFar
  <1>3. Ending'
    BY <1>1 DEF ReportInv, Ending, NoneFailed
  <1> QED
    BY <1>2, <1>3 DEF ReportInv

LEMMA ReportExits ==
  ASSUME ReportInv, UNCHANGED <<args, results, queue>>, stage' = "exited", Ending'
  PROVE  ReportInv'
  <1>1. Checks' = Checks
    BY ChecksStay
  <1>2. ReportedSoFar'
    BY <1>1 DEF ReportInv, ReportedSoFar
  <1>3. Expected'
    BY DEF Expected
  <1> QED
    BY <1>2, <1>3 DEF ReportInv

LEMMA ReportStep ==
  ASSUME ReportInv, [ExamplesNext]_examples_vars
  PROVE  ReportInv'
  <1>1. CASE ParseArguments
    <2>1. stage = "start" /\ results = <<>> /\ UNCHANGED <<args, world, queue, results>>
      BY <1>1 DEF ParseArguments, ReportInv, Expected
    <2>2. CASE args.list
      <3>1. stage' = "exited"
        BY <1>1, <2>2 DEF ParseArguments, Exit
      <3>2. Ending'
        BY <2>1, <2>2, <3>1 DEF Ending
      <3> QED
        BY <2>1, <3>1, <3>2, ReportExits
    <2>3. CASE ~ args.list
      <3>1. stage' = IF SyntaxAsked THEN "syntax" ELSE "select"
        BY <1>1, <2>3, GroupsAsDescribed DEF ParseArguments
      <3>2. First' = First /\ SyntaxAsked' = SyntaxAsked /\ results' = <<>>
        BY <2>1, ChecksStay
      <3>3. Expected'
        BY <3>1, <3>2 DEF Expected, First
      <3> QED
        BY <2>1, <3>1, <3>3, ReportTurns
    <2> QED
      BY <2>2, <2>3
  <1>2. CASE RunSyntaxCheck
    <2>1. stage = "syntax" /\ results = <<>> /\ SyntaxAsked /\ UNCHANGED <<args, world, queue, child>>
      BY <1>2 DEF RunSyntaxCheck, ReportInv, Expected
    <2>2. PICK result \in {"passed", "failed", "skipped"} : Report("syntax", result, "select")
      BY <1>2 DEF RunSyntaxCheck
    <2>3. Len(results) = 0 /\ Len(results) + 1 = 1 /\ First = 1
      BY <2>1 DEF First
    <2>4. "syntax" = Checks[Len(results) + 1]
      BY <2>1, <2>3, ChecksAre
    <2>5. Len(results) < Len(Checks)
      <3>1. Len(Asked) \in Nat
        BY AskedTyped
      <3>2. Len(Checks) = 1 + Len(Asked)
        BY <2>3, ChecksAre
      <3> QED
        BY <2>3, <3>1, <3>2
    <2>6. /\ ReportedSoFar' /\ Ending'
          /\ stage' = "select" \/ stage' = "exited"
          /\ Len(results') = 1
      <3>1. stage # "exited" /\ "select" # "exited"
        BY <2>1
      <3>2. PICK name, next : name = "syntax" /\ next = "select"
        OBVIOUS
      <3> QED
        BY <2>1, <2>2, <2>3, <2>4, <2>5, <3>1, <3>2, OneMoreResult
    <2>7. First' = 1
      BY <2>1, <2>3, ChecksStay
    <2>8. Expected'
      BY <2>6, <2>7 DEF Expected
    <2> QED
      BY <2>1, <2>6, <2>8 DEF ReportInv
  <1>3. CASE SelectRuns
    <2>1. stage = "select" /\ Len(results) = First /\ UNCHANGED <<args, world, results, child>>
      BY <1>3 DEF SelectRuns, ReportInv, Expected
    <2>2. PICK runs : runs = selected_runs(Groups, ToSet(args.cases))
      OBVIOUS
    <2>3. CASE runs = None
      <3>1. stage' = "exited" /\ exit' = 2 /\ queue' = queue
        BY <1>3, <2>2, <2>3 DEF SelectRuns, Exit
      <3>2. Ending'
        BY <3>1 DEF Ending
      <3> QED
        BY <2>1, <3>1, <3>2, ReportExits
    <2>4. CASE runs # None
      <3>1. queue' = runs /\ stage' = "cases"
        BY <1>3, <2>2, <2>4 DEF SelectRuns
      <3>2. args.cases \in Seq(ToSet(args.cases))
        BY ExamplesAssumption DEF ReportInv
      <3>3. queue' = Asked
        BY <2>2, <2>4, <3>1, <3>2, SelectedAreAsked
      <3>4. Checks' = Checks
        BY <2>1, ChecksStay
      <3>5. Expected'
        BY <2>1, <3>1, <3>3, <3>4, AskedTyped, ChecksAre DEF Expected
      <3>6. stage # "exited" /\ stage' # "exited"
        BY <2>1, <3>1
      <3> QED
        BY <2>1, <3>5, <3>6, ReportTurns
    <2> QED
      BY <2>3, <2>4
  <1>4. CASE CaseCannotRun
    <2>1. stage = "cases" /\ queue # <<>> /\ queue' = Tail(queue) /\ UNCHANGED <<args, world>>
      BY <1>4 DEF CaseCannotRun
    <2>2. PICK result \in {"passed", "failed", "skipped"} : Report(NextCase.name, result, "cases")
      BY <1>4 DEF CaseCannotRun
    <2>3. stage \in {"cases", "child"}
      BY <2>1
    <2> QED
      BY <2>1, <2>2, <2>3, QueueGoesOn
  <1>5. CASE StartCase
    <2>1. /\ stage = "cases" /\ queue # <<>> /\ stage' = "child"
          /\ UNCHANGED <<args, world, queue, results, exit>>
      BY <1>5 DEF StartCase
    <2>2. Checks' = Checks
      BY <2>1, ChecksStay
    <2>3. Expected'
      BY <2>1, <2>2 DEF Expected, ReportInv
    <2>4. stage # "exited" /\ stage' # "exited"
      BY <2>1
    <2> QED
      BY <2>1, <2>3, <2>4, ReportTurns
  <1>6. CASE ChildRuns
    <2>1. UNCHANGED <<args, stage, queue, results, exit>>
      BY <1>6 DEF ChildRuns
    <2> QED
      BY <2>1, ReportUnchanged
  <1>7. CASE ChildReturns
    <2>1. stage = "child" /\ queue # <<>> /\ queue' = Tail(queue) /\ UNCHANGED <<args, world>>
      BY <1>7 DEF ChildReturns, ReportInv, Expected
    <2>2. PICK result \in {"passed", "failed", "skipped"} : Report(NextCase.name, result, "cases")
      BY <1>7 DEF ChildReturns
    <2>3. stage \in {"cases", "child"}
      BY <2>1
    <2> QED
      BY <2>1, <2>2, <2>3, QueueGoesOn
  <1>8. CASE ChildTimesOut
    <2>1. stage = "child" /\ queue # <<>> /\ queue' = Tail(queue) /\ UNCHANGED <<args, world>>
      BY <1>8 DEF ChildTimesOut, ReportInv, Expected
    <2>2. PICK result \in {"passed", "failed", "skipped"} : Report(NextCase.name, result, "cases")
      BY <1>8 DEF ChildTimesOut
    <2>3. stage \in {"cases", "child"}
      BY <2>1
    <2> QED
      BY <2>1, <2>2, <2>3, QueueGoesOn
  <1>9. CASE PrintSummary
    <2>1. /\ stage = "cases" /\ queue = <<>> /\ stage' = "exited" /\ exit' = ExitStatus(results)
          /\ UNCHANGED <<args, world, queue, results>>
      BY <1>9 DEF PrintSummary, Exit
    <2>2. Len(results) = Len(Checks)
      <3>1. Len(results) + Len(queue) = Len(Checks) /\ Len(queue) = 0
        BY <2>1 DEF ReportInv, Expected
      <3>2. Len(results) \in Nat
        BY DEF ReportInv, ReportedSoFar
      <3> QED
        BY <3>1, <3>2
    <2>3. ~ args.continue_on_failure => NoneFailed(Len(results))
      BY <2>1 DEF ReportInv, Ending
    <2>4. Checks' = Checks
      BY <2>1, ChecksStay
    <2>5. exit' = ExitStatus(results')
      BY <2>1
    <2>6. Ending'
      BY <2>1, <2>2, <2>3, <2>4, <2>5 DEF Ending, NoneFailed, ExitStatus, FailureCount
    <2> QED
      BY <2>1, <2>6, ReportExits
  <1>10. CASE UNCHANGED examples_vars
    <2>1. UNCHANGED <<args, stage, queue, results, exit>>
      BY <1>10 DEF examples_vars
    <2> QED
      BY <2>1, ReportUnchanged
  <1> QED
    BY <1>1, <1>2, <1>3, <1>4, <1>5, <1>6, <1>7, <1>8, <1>9, <1>10 DEF ExamplesNext

LEMMA OneFailed ==
  ASSUME results \in Seq(Outcomes), results # <<>>, results[Len(results)].result = "failed",
         NoneFailed(Len(results) - 1)
  PROVE  FailureCount(results) = 1 /\ Last(results).result = "failed"
  <1>1. PICK n \in Nat : n = Len(results) /\ DOMAIN results = 1..n
    OBVIOUS
  <1>2. n # 0
    BY <1>1
  <1>3. \A i \in 1..n : i \in 1..(n - 1) \/ i = n
    BY <1>1
  <1>4. {i \in DOMAIN results : results[i].result = "failed"} = {n}
    BY <1>1, <1>2, <1>3 DEF NoneFailed
  <1>5. Cardinality({n}) = 1
    BY FS_Singleton
  <1> QED
    BY <1>4, <1>5 DEF FailureCount, Last

LEMMA ReportedAsChecks ==
  ASSUME ReportedSoFar
  PROVE  /\ Len(results) = Len(Checks) => Reported = Checks
         /\ IsPrefix(Reported, Checks)
  <1>1. PICK n, c : n = Len(results) /\ c = Checks
    OBVIOUS
  <1>2. /\ c \in Seq(CheckNames) /\ n \in Nat /\ n <= Len(c) /\ DOMAIN results = 1..n
        /\ \A i \in 1..n : results[i].name = c[i]
    BY <1>1, ChecksAre DEF ReportedSoFar
  <1>3. Len(c) \in Nat
    BY <1>2
  <1>4. \A i \in 1..n : i \in 1..Len(c)
    BY <1>2, <1>3
  <1>5. Reported = [i \in 1..n |-> c[i]]
    BY <1>2 DEF Reported
  <1>6. Reported \in Seq(CheckNames) /\ Len(Reported) = n
    BY <1>2, <1>4, <1>5
  <1>7. n = Len(c) => Reported = c
    BY <1>2, <1>5
  <1>8. IsPrefix(Reported, c)
    <2>1. PICK r : r = Reported
      OBVIOUS
    <2>2. r \in Seq(CheckNames) /\ Len(r) = n /\ \A i \in 1..n : r[i] = c[i]
      BY <1>5, <1>6, <2>1
    <2>3. SubSeq(r, 1, n) = [i \in 1..n |-> r[i]] /\ SubSeq(c, 1, n) = [i \in 1..n |-> c[i]]
      BY <1>2, <1>3, <2>2
    <2> QED
      BY <1>2, <2>1, <2>2, <2>3 DEF IsPrefix
  <1> QED
    BY <1>1, <1>7, <1>8

LEMMA ReportInvariant == ExamplesSpec => []ReportInv
  <1>1. ReportInv /\ [ExamplesNext]_examples_vars => ReportInv'
    BY ReportStep
  <1> QED
    BY <1>1, ReportInit, PTL DEF ExamplesSpec

\* Whatever is asked for by group and case, in any surroundings: when the
\* runner ends with 0 or 1, the checks that the help promises were run, each
\* once and in the order of the table, up to the first failure at least.
THEOREM NothingAskedForIsEverLeftOut == ExamplesSpec => []NothingAskedForIsLeftOut
  <1>1. ReportInv => NothingAskedForIsLeftOut
    <2> SUFFICES ASSUME ReportInv, stage = "exited", exit # 2, ~ args.list
                 PROVE  \/ Reported = Checks
                        \/ /\ ~ args.continue_on_failure /\ IsPrefix(Reported, Checks)
                           /\ FailureCount(results) = 1 /\ Last(results).result = "failed"
      BY DEF NothingAskedForIsLeftOut
    <2>1. ReportedSoFar /\ results \in Seq(Outcomes)
      BY DEF ReportInv, ReportedSoFar
    <2>2. CASE Len(results) = Len(Checks)
      BY <2>1, <2>2, ReportedAsChecks
    <2>3. CASE Len(results) # Len(Checks)
      <3>1. /\ ~ args.continue_on_failure
            /\ results # <<>> /\ results[Len(results)].result = "failed"
            /\ NoneFailed(Len(results) - 1)
        BY <2>3 DEF ReportInv, Ending
      <3> QED
        BY <2>1, <3>1, OneFailed, ReportedAsChecks
    <2> QED
      BY <2>2, <2>3
  <1> QED
    BY <1>1, ReportInvariant, PTL

-----------------------------------------------------------------------------
(* Applying the actions *)

BenchFields == {"fn", "axes", "criterion", "params", "options"}

Applied(b, actions, n, applied) ==
  applied = [k \in 0..n |-> IF k = 0 THEN b ELSE Apply(applied[k - 1], actions[n + 1 - k])]

Chain(b, g, n, applied) == applied = [k \in 0..n |-> IF k = 0 THEN b ELSE Apply(applied[k - 1], g[k])]

LEMMA AppliedAtAll == ASSUME NEW b, NEW g, NEW n \in Nat PROVE \E applied : Chain(b, g, n, applied)
  <1>1. PICK P : P = {m \in 0..n : \E applied : applied = [k \in 0..m |-> IF k = 0 THEN b ELSE Apply(applied[k - 1], g[k])]}
    OBVIOUS
  <1>2. 0 \in P
    <2>1. PICK applied : applied = [k \in 0..0 |-> b]
      OBVIOUS
    <2>2. applied = [k \in 0..0 |-> IF k = 0 THEN b ELSE Apply(applied[k - 1], g[k])]
      <3>1. \A k \in 0..0 : k = 0
        OBVIOUS
      <3> QED
        BY <2>1, <3>1
    <2> QED
      BY <1>1, <2>2
  <1>3. ASSUME NEW m \in 0..n, m # n, m \in P
        PROVE  m + 1 \in P
    <2>1. m \in Nat /\ m + 1 \in 0..n
      BY <1>3
    <2>2. PICK before : before = [k \in 0..m |-> IF k = 0 THEN b ELSE Apply(before[k - 1], g[k])]
      BY <1>1, <1>3
    <2>3. PICK applied : applied = [k \in 0..(m + 1) |-> IF k = 0 THEN b ELSE Apply(before[k - 1], g[k])]
      OBVIOUS
    <2>4. ASSUME NEW k \in 0..m
          PROVE  applied[k] = before[k]
      <3>1. k \in 0..(m + 1)
        BY <2>1
      <3> QED
        BY <2>2, <2>3, <3>1
    <2>5. \A k \in 0..(m + 1) : k # 0 => k - 1 \in 0..m
      BY <2>1
    <2>6. \A k \in 0..(m + 1) : applied[k] = IF k = 0 THEN b ELSE Apply(applied[k - 1], g[k])
      BY <2>3, <2>4, <2>5
    <2>7. applied = [k \in 0..(m + 1) |-> IF k = 0 THEN b ELSE Apply(applied[k - 1], g[k])]
      BY <2>3, <2>6
    <2> QED
      BY <1>1, <2>1, <2>7
  <1>4. \A m \in 0..n : m \in P
    BY <1>2, <1>3, StepByStep
  <1>5. n \in P
    BY <1>4
  <1> QED
    BY <1>1, <1>5 DEF Chain

LEMMA ApplyIs ==
  ASSUME NEW b, NEW actions, NEW n \in Nat, n = Len(actions)
  PROVE  \E applied : Applied(b, actions, n, applied) /\ apply_benchmark_actions(b, actions) = applied[n]
  <1>1. PICK g : g = [k \in 1..n |-> actions[n + 1 - k]]
    OBVIOUS
  <1>2. PICK first : Chain(b, g, n, first)
    BY AppliedAtAll
  <1>3. \A k \in 0..n : k # 0 => g[k] = actions[n + 1 - k]
    BY <1>1
  <1>4. Applied(b, actions, n, first)
    BY <1>2, <1>3 DEF Applied, Chain
  <1>5. PICK applied : applied = CHOOSE f : Applied(b, actions, n, f)
    OBVIOUS
  <1>6. Applied(b, actions, n, applied)
    BY <1>4, <1>5
  <1>7. apply_benchmark_actions(b, actions) = applied[n]
    BY <1>5 DEF apply_benchmark_actions, Applied
  <1> QED
    BY <1>6, <1>7

AppliedNext(actions, n, applied, k) == applied[k + 1] = Apply(applied[k], actions[n - k])

LEMMA AppliedStep ==
  ASSUME NEW b, NEW actions, NEW n \in Nat, NEW applied, Applied(b, actions, n, applied), NEW k \in 0..n, k # n
  PROVE  AppliedNext(actions, n, applied, k)
  <1>1. k + 1 \in 0..n /\ k + 1 # 0 /\ (k + 1) - 1 = k /\ n + 1 - (k + 1) = n - k
    OBVIOUS
  <1> QED
    BY <1>1 DEF Applied, AppliedNext

LEMMA AppliedFirst ==
  ASSUME NEW b, NEW actions, NEW n \in Nat, NEW applied, Applied(b, actions, n, applied)
  PROVE  applied[0] = b
  <1>1. 0 \in 0..n
    OBVIOUS
  <1> QED
    BY <1>1 DEF Applied

Unknown(action) == action.set = "criterion" /\ action.value \notin DOMAIN Defaults

LEMMA RaisedIsNoBench == DOMAIN Raised # BenchFields
  BY DEF Raised, BenchFields

LEMMA ApplyOne ==
  ASSUME NEW b, NEW action
  PROVE  /\ b = Raised => Apply(b, action) = Raised
         /\ b # Raised /\ Unknown(action) => Apply(b, action) = Raised
         /\ b # Raised /\ ~ Unknown(action) /\ DOMAIN b = BenchFields =>
              DOMAIN Apply(b, action) = BenchFields /\ Apply(b, action).fn = b.fn
  BY DEF Apply, Unknown, BenchFields

\* Applying raises exactly if one of the actions names an unknown criterion.
LEMMA RaisesIfUnknown ==
  ASSUME NEW b, DOMAIN b = BenchFields, NEW actions, NEW n \in Nat, n = Len(actions)
  PROVE  LET c == apply_benchmark_actions(b, actions) IN
           /\ c = Raised <=> \E k \in 1..n : Unknown(actions[k])
           /\ c # Raised => DOMAIN c = BenchFields /\ c.fn = b.fn
  <1>1. PICK c, applied : Applied(b, actions, n, applied) /\ c = applied[n] /\ c = apply_benchmark_actions(b, actions)
    BY ApplyIs
  <1>2. PICK P : P = {k \in 0..n : /\ applied[k] = Raised <=> \E l \in 1..n : l > n - k /\ Unknown(actions[l])
                                   /\ applied[k] # Raised => DOMAIN applied[k] = BenchFields /\ applied[k].fn = b.fn}
    OBVIOUS
  <1>3. 0 \in P
    <2>1. applied[0] = b /\ b # Raised
      BY <1>1, AppliedFirst, RaisedIsNoBench
    <2>2. 0 \in 0..n /\ \A l \in 1..n : ~ (l > n - 0)
      OBVIOUS
    <2> QED
      BY <1>2, <2>1, <2>2
  <1>4. ASSUME NEW k \in 0..n, k # n, k \in P
        PROVE  k + 1 \in P
    <2>1. k + 1 \in 0..n /\ n - k \in 1..n /\ \A l \in 1..n : l > n - (k + 1) <=> (l > n - k \/ l = n - k)
      BY <1>4
    <2>2. PICK p, q, a : p = applied[k] /\ q = applied[k + 1] /\ a = actions[n - k]
      OBVIOUS
    <2>3. AppliedNext(actions, n, applied, k)
      BY <1>1, <1>4, AppliedStep
    <2>4. q = Apply(p, a)
      BY <2>2, <2>3 DEF AppliedNext
    <2>5. /\ p = Raised <=> \E l \in 1..n : l > n - k /\ Unknown(actions[l])
          /\ p # Raised => DOMAIN p = BenchFields /\ p.fn = b.fn
      BY <1>2, <1>4, <2>2
    <2>6. (\E l \in 1..n : l > n - (k + 1) /\ Unknown(actions[l])) <=> (p = Raised \/ Unknown(a))
      BY <2>1, <2>2, <2>5
    <2>7. q = Raised <=> p = Raised \/ Unknown(a)
      BY <2>4, <2>5, ApplyOne, RaisedIsNoBench
    <2>8. q # Raised => DOMAIN q = BenchFields /\ q.fn = b.fn
      BY <2>4, <2>5, <2>7, ApplyOne
    <2> QED
      BY <1>2, <2>1, <2>2, <2>6, <2>7, <2>8
  <1>5. \A k \in 0..n : k \in P
    BY <1>3, <1>4, StepByStep
  <1>6. n \in P /\ \A l \in 1..n : l > n - n
    BY <1>5
  <1> QED
    BY <1>1, <1>2, <1>6


-----------------------------------------------------------------------------
(* The process of an example: what it has recorded and registered when it is *)
(* at a line, after so many decorators of the definition there               *)

IsSeq(s) == s \in Seq(ToSet(s))

LEMMA AppendIs ==
  ASSUME NEW s, IsSeq(s), NEW x
  PROVE  /\ IsSeq(Append(s, x)) /\ Len(s) \in Nat /\ Len(Append(s, x)) = Len(s) + 1
         /\ Append(s, x)[Len(s) + 1] = x /\ \A i \in 1..Len(s) : Append(s, x)[i] = s[i]
  <1>1. PICK T : T = ToSet(s) \cup {x}
    OBVIOUS
  <1>2. s \in Seq(T) /\ x \in T
    <2>1. s \in Seq(ToSet(s)) /\ \A i \in 1..Len(s) : s[i] \in ToSet(s)
      BY DEF IsSeq
    <2> QED
      BY <1>1, <2>1
  <1>3. /\ Append(s, x) \in Seq(T) /\ Len(s) \in Nat /\ Len(Append(s, x)) = Len(s) + 1
        /\ Append(s, x)[Len(s) + 1] = x /\ \A i \in 1..Len(s) : Append(s, x)[i] = s[i]
    BY <1>2
  <1>4. PICK t : t = Append(s, x)
    OBVIOUS
  <1>5. t \in Seq(T) /\ DOMAIN t = 1..Len(t) /\ \A i \in 1..Len(t) : t[i] \in ToSet(t)
    BY <1>3, <1>4 DEF ToSet
  <1>6. IsSeq(t)
    BY <1>5 DEF IsSeq
  <1> QED
    BY <1>3, <1>4, <1>6

DefAt(script, i) == i \in DOMAIN script /\ script[i].kind = "def"
CallAt(script, i) == i \in DOMAIN script /\ script[i].kind = "call"

\* The decorators of f that have been evaluated
Seen(script, line, evaluated, f) ==
  IF f < line THEN Len(script[f].decorators) ELSE IF f = line THEN evaluated ELSE 0

\* The actions are the decorators from the function outward, up to the first
\* that registers it, and the others evaluated all register it.
Gathered(decorators, seen, actions) ==
  /\ IsSeq(actions) /\ Len(actions) <= seen
  /\ \A k \in 1..Len(actions) :
       actions[k] = decorators[Len(decorators) + 1 - k] /\ actions[k].set # "register"
  /\ \A k \in (Len(actions) + 1)..seen : decorators[Len(decorators) + 1 - k].set = "register"

Placed(script, line, evaluated) ==
  /\ line \in 1..(Len(script) + 1) /\ evaluated \in Nat
  /\ IF DefAt(script, line) THEN evaluated <= Len(script[line].decorators) ELSE evaluated = 0

Recorded(script, line, evaluated, actions) ==
  /\ DOMAIN actions = DOMAIN script
  /\ \A f \in DefinedIn(script) : Gathered(script[f].decorators, Seen(script, line, evaluated, f), actions[f])

\* A function is registered if a decorator that registers it was evaluated, or
\* a call.
WhyRegistered(script, line, evaluated, actions, f) ==
  \/ Len(actions[f]) < Seen(script, line, evaluated, f)
  \/ \E i \in 1..(line - 1) : CallAt(script, i) /\ script[i].fn = f

RegisteredSoFar(script, line, evaluated, actions, registered) ==
  /\ registered \subseteq DefinedIn(script)
  /\ \A f \in DefinedIn(script) : f \in registered <=> WhyRegistered(script, line, evaluated, actions, f)

BenchmarksSoFar(actions, registered, benchmarks) ==
  /\ IsSeq(benchmarks)
  /\ \A f \in registered : \A k \in 1..Len(actions[f]) : ~ Unknown(actions[f][k])
  /\ registered = {} <=> Len(benchmarks) = 0
  /\ \A i \in 1..Len(benchmarks) :
       \E f \in registered : benchmarks[i] = apply_benchmark_actions(add_bench(f), actions[f])

Progress(script, line, evaluated, actions, registered, benchmarks) ==
  /\ Placed(script, line, evaluated)
  /\ Recorded(script, line, evaluated, actions)
  /\ RegisteredSoFar(script, line, evaluated, actions, registered)
  /\ BenchmarksSoFar(actions, registered, benchmarks)

LEMMA ScriptIs ==
  ASSUME NEW script, IsScript(script)
  PROVE  /\ DOMAIN script = 1..Len(script) /\ Len(script) \in Nat
         /\ \A f \in DefinedIn(script) : IsSeq(script[f].decorators)
         /\ \A i : CallAt(script, i) => script[i].fn \in DefinedIn(script) /\ script[i].fn < i
         /\ \A i \in DOMAIN script : DefAt(script, i) \/ CallAt(script, i)
  <1>1. DOMAIN script = 1..Len(script) /\ Len(script) \in Nat
    BY DEF IsScript
  <1>2. \A f \in DefinedIn(script) : IsSeq(script[f].decorators)
    BY DEF IsScript, DefinedIn, IsSeq
  <1>3. ASSUME NEW i, CallAt(script, i)
        PROVE  script[i].fn \in DefinedIn(script) /\ script[i].fn < i
    <2>1. i \in 1..Len(script) /\ script[i].fn \in 1..(i - 1) /\ script[script[i].fn].kind = "def"
      BY <1>1, <1>3 DEF IsScript, CallAt
    <2> QED
      BY <1>1, <2>1 DEF DefinedIn
  <1>4. \A i \in DOMAIN script : DefAt(script, i) \/ CallAt(script, i)
    BY DEF IsScript, DefAt, CallAt
  <1> QED
    BY <1>1, <1>2, <1>3, <1>4

LEMMA SeqHas == ASSUME NEW s, IsSeq(s) PROVE Len(s) \in Nat /\ DOMAIN s = 1..Len(s)
  BY DEF IsSeq

LEMMA GatherOne ==
  ASSUME NEW decorators, IsSeq(decorators), NEW seen \in Nat, seen < Len(decorators),
         NEW actions, Gathered(decorators, seen, actions), Len(actions) = seen,
         NEW d, d = decorators[Len(decorators) - seen], d.set # "register"
  PROVE  /\ Gathered(decorators, seen + 1, Append(actions, d))
         /\ Len(Append(actions, d)) = seen + 1
  <1>1. PICK more, n : more = Append(actions, d) /\ n = Len(decorators)
    OBVIOUS
  <1>2. n \in Nat
    BY <1>1, SeqHas
  <1>3. IsSeq(actions)
    BY DEF Gathered
  <1>4. IsSeq(more) /\ Len(more) = seen + 1 /\ more[seen + 1] = d /\ \A i \in 1..seen : more[i] = actions[i]
    BY <1>1, <1>3, AppendIs
  <1>5. \A k \in 1..(seen + 1) : k \in 1..seen \/ k = seen + 1
    OBVIOUS
  <1>6. decorators[n + 1 - (seen + 1)] = d
    <2>1. n + 1 - (seen + 1) = n - seen
      BY <1>2
    <2> QED
      BY <1>1, <2>1
  <1>7. \A k \in 1..seen : actions[k] = decorators[n + 1 - k] /\ actions[k].set # "register"
    BY <1>1 DEF Gathered
  <1>8. \A k \in 1..Len(more) : more[k] = decorators[n + 1 - k] /\ more[k].set # "register"
    BY <1>4, <1>5, <1>6, <1>7
  <1>9. Len(more) <= seen + 1 /\ \A k : k \notin (Len(more) + 1)..(seen + 1)
    BY <1>4
  <1> QED
    BY <1>1, <1>4, <1>8, <1>9 DEF Gathered

LEMMA GatherRegister ==
  ASSUME NEW decorators, IsSeq(decorators), NEW seen \in Nat, seen < Len(decorators),
         NEW actions, Gathered(decorators, seen, actions),
         decorators[Len(decorators) - seen].set = "register"
  PROVE  Gathered(decorators, seen + 1, actions) /\ Len(actions) < seen + 1
  <1>1. PICK n, a : a = Len(actions) /\ n = Len(decorators)
    OBVIOUS
  <1>2. n \in Nat /\ a \in Nat /\ a <= seen
    BY <1>1, SeqHas DEF Gathered
  <1>3. decorators[n + 1 - (seen + 1)].set = "register"
    <2>1. n + 1 - (seen + 1) = n - seen
      BY <1>2
    <2> QED
      BY <1>1, <2>1
  <1>4. \A k \in (a + 1)..(seen + 1) : k \in (a + 1)..seen \/ k = seen + 1
    BY <1>2
  <1>5. \A k \in (a + 1)..seen : decorators[n + 1 - k].set = "register"
    BY <1>1 DEF Gathered
  <1>6. \A k \in (a + 1)..(seen + 1) : decorators[n + 1 - k].set = "register"
    BY <1>3, <1>4, <1>5
  <1>7. a <= seen + 1 /\ a < seen + 1
    BY <1>2
  <1> QED
    BY <1>1, <1>6, <1>7 DEF Gathered

LEMMA SeenMore ==
  ASSUME NEW script, NEW line, NEW evaluated, NEW more, NEW f
  PROVE  Seen(script, line, more, f) = IF f = line /\ ~ (f < line) THEN more ELSE Seen(script, line, evaluated, f)
  BY DEF Seen

LEMMA SeenOnNextLine ==
  ASSUME NEW script, IsScript(script), NEW line, NEW evaluated, Placed(script, line, evaluated),
         DefAt(script, line) => evaluated = Len(script[line].decorators), NEW f \in DefinedIn(script)
  PROVE  Seen(script, line + 1, 0, f) = Seen(script, line, evaluated, f)
  <1>1. line \in Int /\ f \in Int
    BY ScriptIs DEF Placed, DefinedIn
  <1>2. CASE f < line
    BY <1>1, <1>2 DEF Seen
  <1>3. CASE f = line
    BY <1>1, <1>3 DEF Seen, DefAt, DefinedIn
  <1>4. CASE f > line
    BY <1>1, <1>4 DEF Seen
  <1> QED
    BY <1>1, <1>2, <1>3, <1>4

\* A setting is recorded.
LEMMA SettingStep ==
  ASSUME NEW script, IsScript(script), NEW line, NEW evaluated, NEW actions, NEW registered, NEW benchmarks,
         Progress(script, line, evaluated, actions, registered, benchmarks),
         DefAt(script, line), evaluated < Len(script[line].decorators), line \notin registered,
         NEW d, d = script[line].decorators[Len(script[line].decorators) - evaluated], d.set # "register",
         NEW more, more = [actions EXCEPT ![line] = Append(@, d)]
  PROVE  Progress(script, line, evaluated + 1, more, registered, benchmarks)
  <1>1. PICK D : D = script[line].decorators
    OBVIOUS
  <1>2. line \in DefinedIn(script) /\ line \in DOMAIN script /\ line \in Int /\ evaluated \in Nat /\ ~ (line < line)
    BY ScriptIs DEF Progress, Placed, DefAt, DefinedIn
  <1>3. IsSeq(D) /\ Len(D) \in Nat /\ evaluated < Len(D)
    BY <1>1, <1>2, ScriptIs, SeqHas
  <1>4. PICK s : s = Seen(script, line, evaluated, line)
    OBVIOUS
  <1>5. s = evaluated
    BY <1>2, <1>4 DEF Seen
  <1>6. Gathered(D, evaluated, actions[line])
    BY <1>1, <1>2, <1>4, <1>5 DEF Progress, Recorded
  <1>7. Len(actions[line]) = evaluated
    <2>1. ~ WhyRegistered(script, line, evaluated, actions, line)
      BY <1>2 DEF Progress, RegisteredSoFar
    <2>2. ~ (Len(actions[line]) < evaluated)
      BY <1>4, <1>5, <2>1 DEF WhyRegistered
    <2>3. IsSeq(actions[line]) /\ Len(actions[line]) <= evaluated
      BY <1>6 DEF Gathered
    <2> QED
      BY <1>2, <2>2, <2>3, SeqHas
  <1>8. DOMAIN more = DOMAIN script /\ more[line] = Append(actions[line], d) /\ \A f : f # line => more[f] = actions[f]
    <2>1. DOMAIN actions = DOMAIN script
      BY DEF Progress, Recorded
    <2>2. DOMAIN more = DOMAIN script /\ more[line] = Append(actions[line], d)
      BY <1>2, <2>1
    <2>3. \A f \in DOMAIN script : f # line => more[f] = actions[f]
      BY <2>1
    <2> QED
      BY <2>2, <2>3
  <1>9. Gathered(D, evaluated + 1, more[line]) /\ Len(more[line]) = evaluated + 1
    <2>1. d = D[Len(D) - evaluated]
      BY <1>1
    <2> QED
      BY <1>2, <1>3, <1>6, <1>7, <1>8, <2>1, GatherOne
  <1>10. Placed(script, line, evaluated + 1)
    BY <1>1, <1>2, <1>3 DEF Progress, Placed
  <1>11. Seen(script, line, evaluated + 1, line) = evaluated + 1
    BY <1>2 DEF Seen
  <1>12. \A f : f # line => Seen(script, line, evaluated + 1, f) = Seen(script, line, evaluated, f)
    BY DEF Seen
  <1>13. Recorded(script, line, evaluated + 1, more)
    <2>1. \A f \in DefinedIn(script) :
            f # line => Gathered(script[f].decorators, Seen(script, line, evaluated + 1, f), more[f])
      BY <1>8, <1>12 DEF Progress, Recorded
    <2> QED
      BY <1>1, <1>8, <1>9, <1>11, <2>1 DEF Recorded
  <1>14. RegisteredSoFar(script, line, evaluated + 1, more, registered)
    <2>1. \A f : f # line => (WhyRegistered(script, line, evaluated + 1, more, f) <=> WhyRegistered(script, line, evaluated, actions, f))
      BY <1>8, <1>12 DEF WhyRegistered
    <2>2. WhyRegistered(script, line, evaluated + 1, more, line) <=> WhyRegistered(script, line, evaluated, actions, line)
      BY <1>2, <1>4, <1>5, <1>7, <1>9, <1>11 DEF WhyRegistered
    <2> QED
      BY <2>1, <2>2 DEF Progress, RegisteredSoFar
  <1>15. BenchmarksSoFar(more, registered, benchmarks)
    <2>1. \A f \in registered : more[f] = actions[f]
      BY <1>8
    <2> QED
      BY <2>1 DEF Progress, BenchmarksSoFar
  <1> QED
    BY <1>10, <1>13, <1>14, <1>15 DEF Progress

NoneUnknown(actions) == \A k \in 1..Len(actions) : ~ Unknown(actions[k])

\* One more benchmark
LEMMA BenchmarksMore ==
  ASSUME NEW actions, NEW registered, NEW benchmarks, BenchmarksSoFar(actions, registered, benchmarks),
         NEW f, NoneUnknown(actions[f])
  PROVE  BenchmarksSoFar(actions, registered \cup {f},
                         Append(benchmarks, apply_benchmark_actions(add_bench(f), actions[f])))
  <1>1. PICK more, b : b = apply_benchmark_actions(add_bench(f), actions[f]) /\ more = Append(benchmarks, b)
    OBVIOUS
  <1>2. IsSeq(benchmarks)
    BY DEF BenchmarksSoFar
  <1>3. PICK n : n = Len(benchmarks)
    OBVIOUS
  <1>4. IsSeq(more) /\ n \in Nat /\ Len(more) = n + 1 /\ more[n + 1] = b /\ \A i \in 1..n : more[i] = benchmarks[i]
    BY <1>1, <1>2, <1>3, AppendIs
  <1>5. \A i \in 1..(n + 1) : i \in 1..n \/ i = n + 1
    BY <1>4
  <1>6. \A i \in 1..n : \E g \in registered : more[i] = apply_benchmark_actions(add_bench(g), actions[g])
    BY <1>3, <1>4 DEF BenchmarksSoFar
  <1>7. \A i \in 1..Len(more) :
          \E g \in registered \cup {f} : more[i] = apply_benchmark_actions(add_bench(g), actions[g])
    BY <1>1, <1>4, <1>5, <1>6
  <1>8. \A g \in registered \cup {f} : \A k \in 1..Len(actions[g]) : ~ Unknown(actions[g][k])
    BY DEF BenchmarksSoFar, NoneUnknown
  <1>9. registered \cup {f} # {} /\ Len(more) # 0
    BY <1>4
  <1> QED
    BY <1>1, <1>4, <1>7, <1>8, <1>9 DEF BenchmarksSoFar

\* A decorator registers the function at the line.
LEMMA RegisterStep ==
  ASSUME NEW script, IsScript(script), NEW line, NEW evaluated, NEW actions, NEW registered, NEW benchmarks,
         Progress(script, line, evaluated, actions, registered, benchmarks),
         DefAt(script, line), evaluated < Len(script[line].decorators),
         script[line].decorators[Len(script[line].decorators) - evaluated].set = "register",
         NoneUnknown(actions[line]),
         NEW more, more = Append(benchmarks, apply_benchmark_actions(add_bench(line), actions[line]))
  PROVE  Progress(script, line, evaluated + 1, actions, registered \cup {line}, more)
  <1>1. PICK D : D = script[line].decorators
    OBVIOUS
  <1>2. line \in DefinedIn(script) /\ line \in DOMAIN script /\ line \in Int /\ evaluated \in Nat /\ ~ (line < line)
    BY ScriptIs DEF Progress, Placed, DefAt, DefinedIn
  <1>3. IsSeq(D) /\ Len(D) \in Nat /\ evaluated < Len(D)
    BY <1>1, <1>2, ScriptIs, SeqHas
  <1>4. Seen(script, line, evaluated, line) = evaluated /\ Seen(script, line, evaluated + 1, line) = evaluated + 1
    BY <1>2 DEF Seen
  <1>5. Gathered(D, evaluated, actions[line])
    <2>1. Gathered(script[line].decorators, Seen(script, line, evaluated, line), actions[line])
      BY <1>2 DEF Progress, Recorded
    <2> QED
      BY <1>1, <1>4, <2>1
  <1>6. Gathered(D, evaluated + 1, actions[line]) /\ Len(actions[line]) < evaluated + 1
    BY <1>1, <1>2, <1>3, <1>5, GatherRegister
  <1>7. \A f : f # line => Seen(script, line, evaluated + 1, f) = Seen(script, line, evaluated, f)
    BY DEF Seen
  <1>8. Placed(script, line, evaluated + 1)
    BY <1>1, <1>2, <1>3 DEF Progress, Placed
  <1>9. Recorded(script, line, evaluated + 1, actions)
    <2>1. \A f \in DefinedIn(script) :
            f # line => Gathered(script[f].decorators, Seen(script, line, evaluated + 1, f), actions[f])
      BY <1>7 DEF Progress, Recorded
    <2>2. DOMAIN actions = DOMAIN script
      BY DEF Progress, Recorded
    <2> QED
      BY <1>1, <1>4, <1>6, <2>1, <2>2 DEF Recorded
  <1>10. RegisteredSoFar(script, line, evaluated + 1, actions, registered \cup {line})
    <2>1. \A f : f # line => (WhyRegistered(script, line, evaluated + 1, actions, f) <=> WhyRegistered(script, line, evaluated, actions, f))
      BY <1>7 DEF WhyRegistered
    <2>2. WhyRegistered(script, line, evaluated + 1, actions, line)
      BY <1>4, <1>6 DEF WhyRegistered
    <2> QED
      BY <1>2, <2>1, <2>2 DEF Progress, RegisteredSoFar
  <1>11. BenchmarksSoFar(actions, registered \cup {line}, more)
    BY BenchmarksMore DEF Progress
  <1> QED
    BY <1>8, <1>9, <1>10, <1>11 DEF Progress

\* The line is done: a definition, or a call that is not counted yet.
LEMMA LineDone ==
  ASSUME NEW script, IsScript(script), NEW line, NEW evaluated, NEW actions, NEW registered,
         Placed(script, line, evaluated), Recorded(script, line, evaluated, actions), line \in DOMAIN script,
         DefAt(script, line) => evaluated = Len(script[line].decorators)
  PROVE  /\ Placed(script, line + 1, 0)
         /\ Recorded(script, line + 1, 0, actions)
         /\ \A f \in DefinedIn(script) :
              WhyRegistered(script, line + 1, 0, actions, f) <=>
                WhyRegistered(script, line, evaluated, actions, f) \/ (CallAt(script, line) /\ script[line].fn = f)
  <1>1. DOMAIN script = 1..Len(script) /\ Len(script) \in Nat /\ line \in 1..Len(script)
    BY ScriptIs
  <1>2. Placed(script, line + 1, 0)
    <2>1. DefAt(script, line + 1) => 0 <= Len(script[line + 1].decorators)
      <3>1. SUFFICES ASSUME DefAt(script, line + 1)
                     PROVE  0 <= Len(script[line + 1].decorators)
        OBVIOUS
      <3>2. line + 1 \in DefinedIn(script)
        BY <3>1 DEF DefinedIn, DefAt
      <3>3. IsSeq(script[line + 1].decorators)
        BY <3>2, ScriptIs
      <3> QED
        BY <3>3, SeqHas
    <2>2. line + 1 \in 1..(Len(script) + 1)
      BY <1>1
    <2> QED
      BY <2>1, <2>2 DEF Placed
  <1>3. \A f \in DefinedIn(script) : Seen(script, line + 1, 0, f) = Seen(script, line, evaluated, f)
    BY SeenOnNextLine
  <1>4. Recorded(script, line + 1, 0, actions)
    BY <1>3 DEF Recorded
  <1>5. \A i : i \in 1..((line + 1) - 1) <=> i \in 1..(line - 1) \/ i = line
    BY <1>1
  <1>6. ASSUME NEW f \in DefinedIn(script)
        PROVE  WhyRegistered(script, line + 1, 0, actions, f) <=>
                 WhyRegistered(script, line, evaluated, actions, f) \/ (CallAt(script, line) /\ script[line].fn = f)
    BY <1>3, <1>5 DEF WhyRegistered
  <1> QED
    BY <1>2, <1>4, <1>6

LEMMA EndStep ==
  ASSUME NEW script, IsScript(script), NEW line, NEW evaluated, NEW actions, NEW registered, NEW benchmarks,
         Progress(script, line, evaluated, actions, registered, benchmarks),
         DefAt(script, line), evaluated = Len(script[line].decorators)
  PROVE  Progress(script, line + 1, 0, actions, registered, benchmarks)
  <1>1. line \in DOMAIN script /\ ~ CallAt(script, line)
    BY DEF DefAt, CallAt
  <1>2. Placed(script, line, evaluated) /\ Recorded(script, line, evaluated, actions)
    BY DEF Progress
  <1>3. /\ Placed(script, line + 1, 0)
        /\ Recorded(script, line + 1, 0, actions)
        /\ \A f \in DefinedIn(script) :
             WhyRegistered(script, line + 1, 0, actions, f) <=> WhyRegistered(script, line, evaluated, actions, f)
    BY <1>1, <1>2, LineDone
  <1>4. RegisteredSoFar(script, line + 1, 0, actions, registered)
    BY <1>3 DEF Progress, RegisteredSoFar
  <1> QED
    BY <1>3, <1>4 DEF Progress

LEMMA CallStep ==
  ASSUME NEW script, IsScript(script), NEW line, NEW evaluated, NEW actions, NEW registered, NEW benchmarks,
         Progress(script, line, evaluated, actions, registered, benchmarks),
         CallAt(script, line), NEW f, f = script[line].fn,
         NoneUnknown(actions[f]),
         NEW more, more = Append(benchmarks, apply_benchmark_actions(add_bench(f), actions[f]))
  PROVE  Progress(script, line + 1, 0, actions, registered \cup {f}, more)
  <1>1. line \in DOMAIN script /\ ~ DefAt(script, line) /\ f \in DefinedIn(script)
    BY ScriptIs DEF DefAt, CallAt
  <1>2. Placed(script, line, evaluated) /\ Recorded(script, line, evaluated, actions)
    BY DEF Progress
  <1>3. /\ Placed(script, line + 1, 0)
        /\ Recorded(script, line + 1, 0, actions)
        /\ \A g \in DefinedIn(script) :
             WhyRegistered(script, line + 1, 0, actions, g) <=>
               WhyRegistered(script, line, evaluated, actions, g) \/ f = g
    BY <1>1, <1>2, LineDone
  <1>4. RegisteredSoFar(script, line + 1, 0, actions, registered \cup {f})
    BY <1>1, <1>3 DEF Progress, RegisteredSoFar
  <1>5. BenchmarksSoFar(actions, registered \cup {f}, more)
    BY BenchmarksMore DEF Progress
  <1> QED
    BY <1>3, <1>4, <1>5 DEF Progress

-----------------------------------------------------------------------------
(* The process of an example ends well exactly if nothing is wrong with its  *)
(* script.                                                                   *)

\* Where a decorator of a definition is, counted from the function outward
LEMMA FromBelow ==
  ASSUME NEW decorators, IsSeq(decorators), NEW i \in DOMAIN decorators
  PROVE  /\ Len(decorators) + 1 - i \in 1..Len(decorators)
         /\ Len(decorators) + 1 - (Len(decorators) + 1 - i) = i
  BY SeqHas

\* A setting above a decorator that registers is not gathered.
LEMMA MisplacedIsFaulty ==
  ASSUME NEW script, IsScript(script), NEW line, NEW evaluated, NEW actions, NEW registered, NEW benchmarks,
         Progress(script, line, evaluated, actions, registered, benchmarks),
         DefAt(script, line), evaluated < Len(script[line].decorators), line \in registered,
         script[line].decorators[Len(script[line].decorators) - evaluated].set # "register"
  PROVE  Faulty(script)
  <1>1. PICK D, n, a : D = script[line].decorators /\ n = Len(D) /\ a = Len(actions[line])
    OBVIOUS
  <1>2. line \in DefinedIn(script) /\ line \in Int /\ evaluated \in Nat /\ ~ (line < line)
    BY ScriptIs DEF Progress, Placed, DefAt, DefinedIn
  <1>3. IsSeq(D) /\ n \in Nat /\ evaluated < n /\ DOMAIN D = 1..n
    BY <1>1, <1>2, ScriptIs, SeqHas
  <1>4. Seen(script, line, evaluated, line) = evaluated
    BY <1>2 DEF Seen
  <1>5. Gathered(D, evaluated, actions[line])
    <2>1. Gathered(script[line].decorators, Seen(script, line, evaluated, line), actions[line])
      BY <1>2 DEF Progress, Recorded
    <2> QED
      BY <1>1, <1>4, <2>1
  <1>6. a \in Nat /\ a < evaluated
    <2>1. WhyRegistered(script, line, evaluated, actions, line)
      BY <1>2 DEF Progress, RegisteredSoFar
    <2>2. \A i \in 1..(line - 1) : CallAt(script, i) => script[i].fn # line
      BY <1>2, ScriptIs
    <2>3. IsSeq(actions[line])
      BY <1>5 DEF Gathered
    <2> QED
      BY <1>1, <1>4, <2>1, <2>2, <2>3, SeqHas DEF WhyRegistered
  <1>7. D[n + 1 - (a + 1)].set = "register"
    <2>1. a + 1 \in (a + 1)..evaluated
      BY <1>2, <1>6
    <2> QED
      BY <1>1, <1>5, <2>1 DEF Gathered
  <1>8. n - evaluated \in DOMAIN D /\ n + 1 - (a + 1) \in DOMAIN D /\ n - evaluated < n + 1 - (a + 1)
    BY <1>2, <1>3, <1>6
  <1>9. MisplacedIn(D)
    BY <1>1, <1>7, <1>8 DEF MisplacedIn
  <1> QED
    BY <1>1, <1>2, <1>9 DEF Faulty

\* What is registered is registered by the script.
LEMMA RegisteredIsRegisteredBy ==
  ASSUME NEW script, IsScript(script), NEW line, NEW evaluated, NEW actions,
         Placed(script, line, evaluated), Recorded(script, line, evaluated, actions),
         NEW f \in DefinedIn(script), WhyRegistered(script, line, evaluated, actions, f)
  PROVE  f \in RegisteredBy(script)
  <1>1. CASE \E i \in 1..(line - 1) : CallAt(script, i) /\ script[i].fn = f
    BY <1>1 DEF RegisteredBy, CallAt
  <1>2. CASE Len(actions[f]) < Seen(script, line, evaluated, f)
    <2>1. PICK D, n, a, s : D = script[f].decorators /\ n = Len(D) /\ a = Len(actions[f])
                            /\ s = Seen(script, line, evaluated, f)
      OBVIOUS
    <2>2. IsSeq(D) /\ n \in Nat /\ DOMAIN D = 1..n
      BY <2>1, ScriptIs, SeqHas
    <2>3. f \in Int /\ line \in Int /\ f \in DOMAIN script
      BY ScriptIs DEF DefinedIn, Placed
    <2>4. s \in Nat /\ s <= n
      <3>1. CASE f < line
        BY <2>1, <2>2, <3>1 DEF Seen
      <3>2. CASE f = line
        BY <2>1, <2>2, <2>3, <3>2 DEF Seen, Placed, DefAt, DefinedIn
      <3>3. CASE f > line
        BY <2>1, <2>2, <2>3, <3>3 DEF Seen
      <3> QED
        BY <2>3, <3>1, <3>2, <3>3
    <2>5. Gathered(D, s, actions[f])
      BY <2>1 DEF Recorded
    <2>6. a \in Nat /\ a < s
      BY <1>2, <2>1, <2>5, SeqHas DEF Gathered
    <2>7. a + 1 \in (a + 1)..s
      BY <2>4, <2>6
    <2>8. D[n + 1 - (a + 1)].set = "register"
      BY <2>1, <2>5, <2>7 DEF Gathered
    <2>9. n + 1 - (a + 1) \in DOMAIN D
      BY <2>2, <2>4, <2>6
    <2> QED
      BY <2>1, <2>8, <2>9 DEF RegisteredBy
  <1> QED
    BY <1>1, <1>2 DEF WhyRegistered

\* Registering raises if a setting names an unknown criterion.
LEMMA UnknownIsFaulty ==
  ASSUME NEW script, IsScript(script), NEW line, NEW evaluated, NEW actions,
         Placed(script, line, evaluated), Recorded(script, line, evaluated, actions),
         NEW f \in RegisteredBy(script), NEW k \in 1..Len(actions[f]), Unknown(actions[f][k])
  PROVE  Faulty(script)
  <1>1. PICK D, n, s, a : D = script[f].decorators /\ n = Len(D) /\ s = Seen(script, line, evaluated, f)
                          /\ a = Len(actions[f])
    OBVIOUS
  <1>2. f \in DefinedIn(script)
    BY DEF RegisteredBy
  <1>3. IsSeq(D) /\ n \in Nat /\ DOMAIN D = 1..n
    BY <1>1, <1>2, ScriptIs, SeqHas
  <1>4. f \in Int /\ line \in Int /\ f \in DOMAIN script
    BY <1>2, ScriptIs DEF DefinedIn, Placed
  <1>5. s \in Nat /\ s <= n
    <2>1. CASE f < line
      BY <1>1, <1>3, <2>1 DEF Seen
    <2>2. CASE f = line
      BY <1>1, <1>2, <1>3, <1>4, <2>2 DEF Seen, Placed, DefAt, DefinedIn
    <2>3. CASE f > line
      BY <1>1, <1>3, <1>4, <2>3 DEF Seen
    <2> QED
      BY <1>4, <2>1, <2>2, <2>3
  <1>6. Gathered(D, s, actions[f])
    BY <1>1, <1>2 DEF Recorded
  <1>7. a \in Nat /\ a <= s
    BY <1>1, <1>6, SeqHas DEF Gathered
  <1>8. actions[f][k] = D[n + 1 - k]
    BY <1>1, <1>6 DEF Gathered
  <1>9. n + 1 - k \in DOMAIN D
    BY <1>1, <1>3, <1>5, <1>7
  <1>10. UnknownIn(D)
    BY <1>8, <1>9 DEF UnknownIn, Unknown
  <1> QED
    BY <1>1, <1>10 DEF Faulty

\* At the end, all that the script registers is registered.
LEMMA AllRegistered ==
  ASSUME NEW script, IsScript(script), NEW line, NEW evaluated, NEW actions, NEW registered, NEW benchmarks,
         Progress(script, line, evaluated, actions, registered, benchmarks), line \notin DOMAIN script
  PROVE  /\ registered = RegisteredBy(script)
         /\ \A f \in DefinedIn(script) : /\ Seen(script, line, evaluated, f) = Len(script[f].decorators)
                                         /\ Gathered(script[f].decorators, Len(script[f].decorators), actions[f])
  <1>1. line = Len(script) + 1 /\ DOMAIN script = 1..Len(script) /\ Len(script) \in Nat
    BY ScriptIs DEF Progress, Placed
  <1>2. \A f \in DefinedIn(script) : Seen(script, line, evaluated, f) = Len(script[f].decorators)
    BY <1>1 DEF Seen, DefinedIn
  <1>3. \A f \in DefinedIn(script) : Gathered(script[f].decorators, Len(script[f].decorators), actions[f])
    BY <1>2 DEF Progress, Recorded
  <1>4. \A f \in registered : f \in RegisteredBy(script)
    BY RegisteredIsRegisteredBy DEF Progress, RegisteredSoFar
  <1>5. ASSUME NEW f \in RegisteredBy(script)
        PROVE  f \in registered
    <2>1. f \in DefinedIn(script)
      BY DEF RegisteredBy
    <2>2. CASE \E i \in DOMAIN script : script[i].kind = "call" /\ script[i].fn = f
      <3>1. PICK i \in DOMAIN script : script[i].kind = "call" /\ script[i].fn = f
        BY <2>2
      <3>2. i \in 1..(line - 1) /\ CallAt(script, i)
        BY <1>1, <3>1 DEF CallAt
      <3>3. WhyRegistered(script, line, evaluated, actions, f)
        BY <3>1, <3>2 DEF WhyRegistered
      <3> QED
        BY <2>1, <3>3 DEF Progress, RegisteredSoFar
    <2>3. CASE \E j \in DOMAIN script[f].decorators : script[f].decorators[j].set = "register"
      <3>1. PICK D, n, a : D = script[f].decorators /\ n = Len(D) /\ a = Len(actions[f])
        OBVIOUS
      <3>2. PICK j \in DOMAIN D : D[j].set = "register"
        BY <2>3, <3>1
      <3>3. IsSeq(D) /\ n \in Nat /\ DOMAIN D = 1..n
        BY <2>1, <3>1, ScriptIs, SeqHas
      <3>4. Gathered(D, n, actions[f])
        BY <1>3, <2>1, <3>1
      <3>5. a \in Nat /\ a <= n
        BY <3>1, <3>4, SeqHas DEF Gathered
      <3>6. n + 1 - j \in 1..n /\ n + 1 - (n + 1 - j) = j
        BY <3>3
      <3>7. ~ (n + 1 - j <= a)
        <4>1. SUFFICES ASSUME n + 1 - j \in 1..a
                       PROVE  FALSE
          BY <3>5, <3>6
        <4>2. actions[f][n + 1 - j] = D[n + 1 - (n + 1 - j)] /\ actions[f][n + 1 - j].set # "register"
          BY <3>1, <3>4, <4>1 DEF Gathered
        <4> QED
          BY <3>2, <3>6, <4>2
      <3>8. a < n
        <4>1. PICK k : k = n + 1 - j
          OBVIOUS
        <4>2. k \in 1..n /\ ~ (k <= a)
          BY <3>6, <3>7, <4>1
        <4> QED
          BY <3>3, <3>5, <4>2
      <3>9. Len(actions[f]) < Seen(script, line, evaluated, f)
        BY <1>2, <2>1, <3>1, <3>8
      <3>10. WhyRegistered(script, line, evaluated, actions, f)
        BY <3>9 DEF WhyRegistered
      <3> QED
        BY <2>1, <3>10 DEF Progress, RegisteredSoFar
    <2> QED
      BY <2>2, <2>3 DEF RegisteredBy
  <1> QED
    BY <1>2, <1>3, <1>4, <1>5

\* Above the actions of a definition that was gathered to its end, all register.
LEMMA AboveTheActions ==
  ASSUME NEW decorators, IsSeq(decorators), NEW actions, Gathered(decorators, Len(decorators), actions),
         NEW i \in DOMAIN decorators
  PROVE  IF i <= Len(decorators) - Len(actions) THEN decorators[i].set = "register"
         ELSE /\ decorators[i].set # "register"
              /\ Len(decorators) + 1 - i \in 1..Len(actions)
              /\ actions[Len(decorators) + 1 - i] = decorators[i]
  <1>1. PICK n, a, k : n = Len(decorators) /\ a = Len(actions) /\ k = n + 1 - i
    OBVIOUS
  <1>2. n \in Nat /\ a \in Nat /\ a <= n /\ i \in 1..n
    BY <1>1, SeqHas DEF Gathered
  <1>3. k \in 1..n /\ n + 1 - k = i
    BY <1>1, <1>2
  <1>4. CASE i <= n - a
    <2>1. k \in (a + 1)..n
      BY <1>1, <1>2, <1>4
    <2> QED
      BY <1>1, <1>3, <1>4, <2>1 DEF Gathered
  <1>5. CASE ~ (i <= n - a)
    <2>1. k \in 1..a
      BY <1>1, <1>2, <1>5
    <2>2. actions[k] = decorators[n + 1 - k] /\ actions[k].set # "register"
      BY <1>1, <2>1 DEF Gathered
    <2> QED
      BY <1>1, <1>3, <1>5, <2>1, <2>2
  <1> QED
    BY <1>4, <1>5

LEMMA RanIsNotFaulty ==
  ASSUME NEW script, IsScript(script), NEW line, NEW evaluated, NEW actions, NEW registered, NEW benchmarks,
         Progress(script, line, evaluated, actions, registered, benchmarks), line \notin DOMAIN script
  PROVE  Faulty(script) <=> Len(benchmarks) = 0
  <1>1. /\ registered = RegisteredBy(script)
        /\ \A f \in DefinedIn(script) : Gathered(script[f].decorators, Len(script[f].decorators), actions[f])
    BY AllRegistered
  <1>2. Len(benchmarks) = 0 <=> RegisteredBy(script) = {}
    BY <1>1 DEF Progress, BenchmarksSoFar
  <1>3. ASSUME NEW f \in DefinedIn(script), MisplacedIn(script[f].decorators)
        PROVE  FALSE
    <2>1. PICK D, n, a : D = script[f].decorators /\ n = Len(D) /\ a = Len(actions[f])
      OBVIOUS
    <2>2. IsSeq(D) /\ n \in Nat /\ DOMAIN D = 1..n /\ Gathered(D, n, actions[f])
      BY <1>1, <2>1, ScriptIs, SeqHas
    <2>3. PICK i \in DOMAIN D, j \in DOMAIN D : i < j /\ D[i].set # "register" /\ D[j].set = "register"
      BY <1>3, <2>1 DEF MisplacedIn
    <2>4. a \in Nat
      BY <2>1, <2>2, SeqHas DEF Gathered
    <2>5. ~ (i <= n - a)
      BY <2>1, <2>2, <2>3, AboveTheActions
    <2>6. j <= n - a
      BY <2>1, <2>2, <2>3, AboveTheActions
    <2> QED
      BY <2>2, <2>3, <2>4, <2>5, <2>6
  <1>4. ASSUME NEW f \in RegisteredBy(script), UnknownIn(script[f].decorators)
        PROVE  FALSE
    <2>1. PICK D, n, a : D = script[f].decorators /\ n = Len(D) /\ a = Len(actions[f])
      OBVIOUS
    <2>2. IsSeq(D) /\ n \in Nat /\ DOMAIN D = 1..n /\ Gathered(D, n, actions[f])
      BY <1>1, <2>1, ScriptIs, SeqHas DEF RegisteredBy
    <2>3. PICK i \in DOMAIN D : Unknown(D[i])
      BY <1>4, <2>1 DEF UnknownIn, Unknown
    <2>4. D[i].set # "register"
      BY <2>3 DEF Unknown
    <2>5. n + 1 - i \in 1..a /\ actions[f][n + 1 - i] = D[i]
      BY <2>1, <2>2, <2>4, AboveTheActions
    <2> QED
      BY <1>1, <2>1, <2>3, <2>5 DEF Progress, BenchmarksSoFar
  <1> QED
    BY <1>2, <1>3, <1>4 DEF Faulty

ChildFields == {"pc", "script", "line", "evaluated", "actions", "registered", "benchmarks"}

ChildIs(c) ==
  /\ DOMAIN c = ChildFields
  /\ IsScript(c.script)
  /\ c.pc \in {"running", "ran", "raised"}
  /\ c.pc = "raised" => Faulty(c.script)
  /\ c.pc # "raised" => Progress(c.script, c.line, c.evaluated, c.actions, c.registered, c.benchmarks)
  /\ c.pc = "ran" => c.line \notin DOMAIN c.script /\ Len(c.benchmarks) # 0

LEMMA ScriptStarts ==
  ASSUME NEW script, IsScript(script), StartScript(script)
  PROVE  ChildIs(child') /\ child'.script = script /\ child'.pc = "running"
  <1>1. PICK actions : actions = [i \in DOMAIN script |-> <<>>]
    OBVIOUS
  <1>2. child' = [pc |-> "running", script |-> script, line |-> 1, evaluated |-> 0,
                  actions |-> actions, registered |-> {}, benchmarks |-> <<>>]
    BY <1>1 DEF StartScript
  <1>3. DOMAIN script = 1..Len(script) /\ Len(script) \in Nat
    BY ScriptIs
  <1>4. \A f \in DefinedIn(script) : Len(script[f].decorators) \in Nat
    BY ScriptIs, SeqHas
  <1>5. Placed(script, 1, 0)
    BY <1>3, <1>4 DEF Placed, DefAt, DefinedIn
  <1>6. \A f \in DefinedIn(script) : Seen(script, 1, 0, f) = 0 /\ actions[f] = <<>>
    BY <1>1, <1>3 DEF Seen, DefinedIn
  <1>7. \A decorators : Gathered(decorators, 0, <<>>)
    <2>1. IsSeq(<<>>) /\ Len(<<>>) = 0
      BY DEF IsSeq
    <2> QED
      BY <2>1 DEF Gathered
  <1>8. Recorded(script, 1, 0, actions)
    BY <1>1, <1>6, <1>7 DEF Recorded
  <1>9. RegisteredSoFar(script, 1, 0, actions, {})
    <2>1. \A f \in DefinedIn(script) : ~ WhyRegistered(script, 1, 0, actions, f)
      BY <1>6 DEF WhyRegistered
    <2> QED
      BY <2>1 DEF RegisteredSoFar
  <1>10. BenchmarksSoFar(actions, {}, <<>>)
    BY DEF BenchmarksSoFar, IsSeq
  <1>11. Progress(script, 1, 0, actions, {}, <<>>)
    BY <1>5, <1>8, <1>9, <1>10 DEF Progress
  <1> QED
    BY <1>2, <1>11 DEF ChildIs, ChildFields

\* Registering f, whatever the line is
LEMMA RegisteredIs ==
  ASSUME ChildIs(child), child.pc = "running", NEW f \in DefinedIn(child.script),
         NEW r, r = Registered(f)
  PROVE  /\ DOMAIN r = ChildFields /\ r.script = child.script
         /\ r.line = child.line /\ r.evaluated = child.evaluated /\ r.actions = child.actions
         /\ \/ /\ r.pc = "raised"
               /\ \E k \in 1..Len(child.actions[f]) : Unknown(child.actions[f][k])
            \/ /\ r.pc = "running" /\ r.registered = child.registered \cup {f}
               /\ r.benchmarks = Append(child.benchmarks, apply_benchmark_actions(add_bench(f), child.actions[f]))
               /\ NoneUnknown(child.actions[f])
  <1>1. PICK b, g, n : b = apply_benchmark_actions(add_bench(f), g) /\ g = child.actions[f] /\ n = Len(g)
    OBVIOUS
  <1>2. n \in Nat
    <2>1. \A h \in DefinedIn(child.script) : IsSeq(child.actions[h])
      BY DEF ChildIs, Progress, Recorded, Gathered
    <2> QED
      BY <1>1, <2>1, SeqHas
  <1>3. DOMAIN add_bench(f) = BenchFields
    BY DEF add_bench, BenchFields
  <1>4. b = Raised <=> \E k \in 1..n : Unknown(g[k])
    BY <1>1, <1>2, <1>3, RaisesIfUnknown
  <1>5. DOMAIN child = ChildFields
    BY DEF ChildIs
  <1>6. CASE b = Raised
    <2>1. PICK more : more = Append(child.benchmarks, add_bench(f))
      OBVIOUS
    <2>2. r = [child EXCEPT !.pc = "raised", !.benchmarks = more]
      BY <1>1, <1>6, <2>1 DEF Registered
    <2>3. /\ DOMAIN r = ChildFields /\ r.script = child.script /\ r.pc = "raised"
          /\ r.line = child.line /\ r.evaluated = child.evaluated /\ r.actions = child.actions
      BY <1>5, <2>2 DEF ChildFields
    <2> QED
      BY <1>1, <1>4, <1>6, <2>3
  <1>7. CASE b # Raised
    <2>1. PICK more : more = Append(child.benchmarks, b)
      OBVIOUS
    <2>2. r = [child EXCEPT !.benchmarks = more, !.registered = @ \cup {f}]
      BY <1>1, <1>7, <2>1 DEF Registered
    <2>3. /\ DOMAIN r = ChildFields /\ r.script = child.script /\ r.pc = child.pc
          /\ r.line = child.line /\ r.evaluated = child.evaluated /\ r.actions = child.actions
          /\ r.benchmarks = more /\ r.registered = child.registered \cup {f}
      BY <1>5, <2>2 DEF ChildFields
    <2> QED
      BY <1>1, <1>4, <1>7, <2>1, <2>3 DEF NoneUnknown
  <1> QED
    BY <1>6, <1>7

LEMMA ScriptStep ==
  ASSUME ChildIs(child), RunScript
  PROVE  ChildIs(child') /\ child'.script = child.script
  <1>1. PICK script, line, evaluated, actions, registered, benchmarks :
          /\ script = child.script /\ line = child.line /\ evaluated = child.evaluated
          /\ actions = child.actions /\ registered = child.registered /\ benchmarks = child.benchmarks
    OBVIOUS
  <1>2. child.pc = "running"
    BY DEF RunScript, AppendBenchmarkAction, RegisterDecorator, EvaluatesDecorator, RegisterCall, EndDefinition,
           RunAllBenchmarks, AtStatement, Running
  <1>3. IsScript(script) /\ Progress(script, line, evaluated, actions, registered, benchmarks)
    BY <1>1, <1>2 DEF ChildIs
  <1>4. DOMAIN child = ChildFields
    BY DEF ChildIs
  <1>5. CASE AppendBenchmarkAction
    <2>1. PICK D, d : D = script[line].decorators /\ d = D[Len(D) - evaluated]
      OBVIOUS
    <2>2. d.set # "register" /\ DefAt(script, line) /\ evaluated < Len(D)
      BY <1>1, <1>5, <2>1 DEF AppendBenchmarkAction, EvaluatesDecorator, AtStatement, NextDecorator, Decorators, DefAt
    <2>3. CASE line \in registered
      <3>1. child' = [child EXCEPT !.pc = "raised"]
        BY <1>1, <1>5, <2>3 DEF AppendBenchmarkAction
      <3>2. Faulty(script)
        BY <1>3, <2>1, <2>2, <2>3, MisplacedIsFaulty
      <3>3. DOMAIN child' = ChildFields /\ child'.script = script /\ child'.pc = "raised"
        BY <1>1, <1>4, <3>1 DEF ChildFields
      <3> QED
        BY <1>1, <1>3, <3>2, <3>3 DEF ChildIs
    <2>4. CASE line \notin registered
      <3>1. PICK more : more = [actions EXCEPT ![line] = Append(@, d)]
        OBVIOUS
      <3>2. child' = [child EXCEPT !.actions = more, !.evaluated = evaluated + 1]
        <4>1. child' = [child EXCEPT !.actions[child.line] = Append(@, NextDecorator), !.evaluated = @ + 1]
          BY <1>1, <1>5, <2>4 DEF AppendBenchmarkAction
        <4>2. NextDecorator = d
          BY <1>1, <2>1 DEF NextDecorator, Decorators
        <4>3. [child.actions EXCEPT ![child.line] = Append(@, d)] = more
          BY <1>1, <3>1
        <4> QED
          BY <1>1, <4>1, <4>2, <4>3
      <3>3. /\ DOMAIN child' = ChildFields /\ child'.pc = "running"
            /\ child'.script = script /\ child'.line = line /\ child'.evaluated = evaluated + 1
            /\ child'.actions = more /\ child'.registered = registered /\ child'.benchmarks = benchmarks
        BY <1>1, <1>2, <1>4, <3>2 DEF ChildFields
      <3>4. Progress(script, line, evaluated + 1, more, registered, benchmarks)
        BY <1>3, <2>1, <2>2, <2>4, <3>1, SettingStep
      <3> QED
        BY <1>1, <1>3, <3>3, <3>4 DEF ChildIs
    <2> QED
      BY <2>3, <2>4
  <1>6. CASE RegisterDecorator
    <2>1. PICK D, d, r : D = script[line].decorators /\ d = D[Len(D) - evaluated] /\ r = Registered(line)
      OBVIOUS
    <2>2. d.set = "register" /\ DefAt(script, line) /\ evaluated < Len(D) /\ child' = [r EXCEPT !.evaluated = @ + 1]
      BY <1>1, <1>6, <2>1 DEF RegisterDecorator, EvaluatesDecorator, AtStatement, NextDecorator, Decorators, DefAt
    <2>3. line \in DefinedIn(script)
      BY <2>2 DEF DefAt, DefinedIn
    <2>4. line \in RegisteredBy(script)
      <3>1. evaluated \in Nat
        BY <1>3 DEF Progress, Placed
      <3>2. IsSeq(D)
        BY <1>3, <2>1, <2>3, ScriptIs
      <3>3. Len(D) - evaluated \in DOMAIN D
        BY <2>2, <3>1, <3>2, SeqHas
      <3> QED
        BY <2>1, <2>2, <2>3, <3>3 DEF RegisteredBy
    <2>5. /\ DOMAIN r = ChildFields /\ r.script = script
          /\ r.line = line /\ r.evaluated = evaluated /\ r.actions = actions
          /\ \/ /\ r.pc = "raised"
                /\ \E k \in 1..Len(actions[line]) : Unknown(actions[line][k])
             \/ /\ r.pc = "running" /\ r.registered = registered \cup {line}
                /\ r.benchmarks = Append(benchmarks, apply_benchmark_actions(add_bench(line), actions[line]))
                /\ NoneUnknown(actions[line])
      BY <1>1, <1>2, <2>1, <2>3, RegisteredIs
    <2>6. /\ DOMAIN child' = ChildFields /\ child'.script = script /\ child'.pc = r.pc
          /\ child'.line = line /\ child'.evaluated = evaluated + 1
          /\ child'.actions = actions /\ child'.registered = r.registered /\ child'.benchmarks = r.benchmarks
      BY <2>2, <2>5 DEF ChildFields
    <2>7. CASE r.pc = "raised"
      <3>1. \E k \in 1..Len(actions[line]) : Unknown(actions[line][k])
        BY <2>5, <2>7
      <3>2. Faulty(script)
        BY <1>3, <2>4, <3>1, UnknownIsFaulty DEF Progress
      <3> QED
        BY <1>1, <1>3, <2>6, <2>7, <3>2 DEF ChildIs
    <2>8. CASE r.pc # "raised"
      <3>1. Progress(script, line, evaluated + 1, actions, r.registered, r.benchmarks)
        <4>1. script[line].decorators[Len(script[line].decorators) - evaluated].set = "register"
              /\ evaluated < Len(script[line].decorators)
          BY <2>1, <2>2
        <4>2. PICK more : more = Append(benchmarks, apply_benchmark_actions(add_bench(line), actions[line]))
          OBVIOUS
        <4>3. r.registered = registered \cup {line} /\ r.benchmarks = more
              /\ NoneUnknown(actions[line])
          BY <2>5, <2>8, <4>2
        <4>4. Progress(script, line, evaluated + 1, actions, registered \cup {line}, more)
          BY <1>3, <2>2, <4>1, <4>2, <4>3, RegisterStep
        <4>5. PICK R, B : R = r.registered /\ B = r.benchmarks
          OBVIOUS
        <4>6. R = registered \cup {line} /\ B = more
          BY <4>3, <4>5
        <4>7. Progress(script, line, evaluated + 1, actions, R, B)
          BY <4>4, <4>6
        <4> QED
          BY <4>5, <4>7
      <3>2. child'.pc = "running"
        BY <2>5, <2>6, <2>8
      <3> QED
        BY <1>1, <1>3, <2>6, <3>1, <3>2 DEF ChildIs
    <2> QED
      BY <2>7, <2>8
  <1>7. CASE RegisterCall
    <2>1. PICK f, r : f = script[line].fn /\ r = Registered(f)
      OBVIOUS
    <2>2. CallAt(script, line) /\ child' = [r EXCEPT !.line = @ + 1]
      BY <1>1, <1>7, <2>1 DEF RegisterCall, AtStatement, CallAt
    <2>3. f \in DefinedIn(script)
      BY <1>3, <2>1, <2>2, ScriptIs
    <2>4. f \in RegisteredBy(script)
      BY <2>1, <2>2, <2>3 DEF RegisteredBy, CallAt
    <2>5. /\ DOMAIN r = ChildFields /\ r.script = script
          /\ r.line = line /\ r.evaluated = evaluated /\ r.actions = actions
          /\ \/ /\ r.pc = "raised"
                /\ \E k \in 1..Len(actions[f]) : Unknown(actions[f][k])
             \/ /\ r.pc = "running" /\ r.registered = registered \cup {f}
                /\ r.benchmarks = Append(benchmarks, apply_benchmark_actions(add_bench(f), actions[f]))
                /\ NoneUnknown(actions[f])
      BY <1>1, <1>2, <2>1, <2>3, RegisteredIs
    <2>6. /\ DOMAIN child' = ChildFields /\ child'.script = script /\ child'.pc = r.pc
          /\ child'.line = line + 1 /\ child'.evaluated = evaluated
          /\ child'.actions = actions /\ child'.registered = r.registered /\ child'.benchmarks = r.benchmarks
      BY <2>2, <2>5 DEF ChildFields
    <2>7. CASE r.pc = "raised"
      <3>1. \E k \in 1..Len(actions[f]) : Unknown(actions[f][k])
        BY <2>5, <2>7
      <3>2. Faulty(script)
        BY <1>3, <2>4, <3>1, UnknownIsFaulty DEF Progress
      <3> QED
        BY <1>1, <1>3, <2>6, <2>7, <3>2 DEF ChildIs
    <2>8. CASE r.pc # "raised"
      <3>1. evaluated = 0 /\ Progress(script, line + 1, 0, actions, r.registered, r.benchmarks)
        <4>1. PICK more : more = Append(benchmarks, apply_benchmark_actions(add_bench(f), actions[f]))
          OBVIOUS
        <4>2. r.registered = registered \cup {f} /\ r.benchmarks = more
              /\ NoneUnknown(actions[f])
          BY <2>5, <2>8, <4>1
        <4>a. CallAt(script, line) /\ f = script[line].fn /\ NoneUnknown(actions[f])
          BY <2>1, <2>2, <4>2
        <4>b. Progress(script, line + 1, 0, actions, registered \cup {f}, more)
          BY <1>3, <4>a, <4>1, CallStep
        <4>c. evaluated = 0
          BY <1>3, <4>a DEF Progress, Placed, DefAt, CallAt
        <4>3. evaluated = 0 /\ Progress(script, line + 1, 0, actions, registered \cup {f}, more)
          BY <4>b, <4>c
        <4>4. PICK R, B : R = r.registered /\ B = r.benchmarks
          OBVIOUS
        <4>5. R = registered \cup {f} /\ B = more
          BY <4>2, <4>4
        <4>6. Progress(script, line + 1, 0, actions, R, B)
          BY <4>3, <4>5
        <4> QED
          BY <4>3, <4>4, <4>6
      <3>2. child'.pc = "running"
        BY <2>5, <2>6, <2>8
      <3> QED
        BY <1>1, <1>3, <2>6, <3>1, <3>2 DEF ChildIs
    <2> QED
      BY <2>7, <2>8
  <1>8. CASE EndDefinition
    <2>1. DefAt(script, line) /\ evaluated = Len(script[line].decorators)
          /\ child' = [child EXCEPT !.line = line + 1, !.evaluated = 0]
      BY <1>1, <1>8 DEF EndDefinition, AtStatement, DefAt, Decorators
    <2>2. /\ DOMAIN child' = ChildFields /\ child'.pc = "running"
          /\ child'.script = script /\ child'.line = line + 1 /\ child'.evaluated = 0
          /\ child'.actions = actions /\ child'.registered = registered /\ child'.benchmarks = benchmarks
      BY <1>1, <1>2, <1>4, <2>1 DEF ChildFields
    <2>3. Progress(script, line + 1, 0, actions, registered, benchmarks)
      BY <1>3, <2>1, EndStep
    <2> QED
      BY <1>1, <1>3, <2>2, <2>3 DEF ChildIs
  <1>9. CASE RunAllBenchmarks
    <2>1. PICK p : p = IF benchmarks = <<>> THEN "raised" ELSE "ran"
      OBVIOUS
    <2>2. line \notin DOMAIN script /\ child' = [child EXCEPT !.pc = p]
      BY <1>1, <1>9, <2>1 DEF RunAllBenchmarks
    <2>3. /\ DOMAIN child' = ChildFields /\ child'.pc = p
          /\ child'.script = script /\ child'.line = line /\ child'.evaluated = evaluated
          /\ child'.actions = actions /\ child'.registered = registered /\ child'.benchmarks = benchmarks
      BY <1>1, <1>4, <2>2 DEF ChildFields
    <2>4. benchmarks = <<>> <=> Len(benchmarks) = 0
      BY <1>3 DEF Progress, BenchmarksSoFar, IsSeq
    <2>5. Faulty(script) <=> Len(benchmarks) = 0
      BY <1>3, <2>2, RanIsNotFaulty
    <2> QED
      BY <1>1, <1>3, <2>1, <2>2, <2>3, <2>4, <2>5 DEF ChildIs
  <1> QED
    BY <1>5, <1>6, <1>7, <1>8, <1>9 DEF RunScript

LEMMA RanMeansNotFaulty ==
  ASSUME NEW c, ChildIs(c)
  PROVE  /\ c.pc = "ran" => ~ Faulty(c.script)
         /\ c.pc = "raised" => Faulty(c.script)
  <1>1. c.pc = "ran" => ~ Faulty(c.script)
    <2>1. SUFFICES ASSUME c.pc = "ran" PROVE ~ Faulty(c.script)
      OBVIOUS
    <2>2. PICK script, line, evaluated, actions, registered, benchmarks :
            /\ script = c.script /\ line = c.line /\ evaluated = c.evaluated
            /\ actions = c.actions /\ registered = c.registered /\ benchmarks = c.benchmarks
      OBVIOUS
    <2>3. IsScript(script) /\ Progress(script, line, evaluated, actions, registered, benchmarks)
          /\ line \notin DOMAIN script /\ Len(benchmarks) # 0
      BY <2>1, <2>2 DEF ChildIs
    <2> QED
      BY <2>2, <2>3, RanIsNotFaulty
  <1> QED
    BY <1>1 DEF ChildIs

-----------------------------------------------------------------------------
(* What is wrong with an example is what its result says. *)

LEMMA NamesDiffer ==
  ASSUME NEW run \in Cases, NEW other \in Cases, run.name = other.name
  PROVE  run.required_modules = other.required_modules
  <1>1. DOMAIN EXAMPLE_RUNS = 1..13
    BY DEF EXAMPLE_RUNS
  <1>2. PICK i \in 1..13, j \in 1..13 : run = EXAMPLE_RUNS[i] /\ other = EXAMPLE_RUNS[j]
    BY <1>1 DEF Cases, ToSet
  <1>3. PICK names : names = [k \in 1..13 |-> EXAMPLE_RUNS[k].name]
    OBVIOUS
  <1>4. names = <<"python-smoke", "cpu-activity-cpu-only", "axes-default-value", "exec-tag-sync", "exec-tag-timer",
                  "skip", "throughput", "cupy-extract", "stream", "cuda-compute-segmented-reduce",
                  "benchmark-result-autotune", "pytorch-bench", "cute-dsl-sgemm">>
    BY <1>3 DEF EXAMPLE_RUNS, Case
  <1>5. names[i] = names[j]
    BY <1>2, <1>3
  <1>6. i = j
    BY <1>4, <1>5
  <1> QED
    BY <1>2, <1>6

Lacks(name) ==
  \E i \in DOMAIN EXAMPLE_RUNS :
    EXAMPLE_RUNS[i].name = name /\ EXAMPLE_RUNS[i].required_modules \cap world.missing # {}

LEMMA CaseLacks ==
  ASSUME NEW run \in Cases
  PROVE  Lacks(run.name) <=> run.required_modules \cap world.missing # {}
  <1>1. \A i \in DOMAIN EXAMPLE_RUNS : EXAMPLE_RUNS[i] \in Cases
    BY DEF Cases, ToSet
  <1>2. PICK i \in DOMAIN EXAMPLE_RUNS : EXAMPLE_RUNS[i] = run
    BY DEF Cases, ToSet
  <1> QED
    BY <1>1, <1>2, NamesDiffer DEF Lacks

LEMMA NothingLacksSyntax == ~ Lacks("syntax")
  <1>1. \A i \in DOMAIN EXAMPLE_RUNS : EXAMPLE_RUNS[i] \in Cases
    BY DEF Cases, ToSet
  <1> QED
    BY <1>1, TableIs DEF Lacks

ShouldFail(name) == Wrong(name) /\ ~ MayBeSkipped(name)

ExampleInv ==
  /\ world \in Surroundings
  /\ stage = "child" \/ child # None => ChildIs(child)
  /\ stage = "child" =>
       /\ NextCase.name \notin world.absent /\ find_missing_modules(NextCase) = {}
       /\ child.script = IF Broken THEN world.script ELSE ScriptOf(NextCase.name)
       /\ NextCase.name \in world.hung => child.pc # "ran"
  /\ world.python => \A i \in 1..Len(results) : results[i].result = "failed" <=> ShouldFail(results[i].name)

LEMMA ExampleInit == ExamplesInit => ExampleInv
  BY DEF ExamplesInit, ExampleInv

LEMMA OneMoreSound ==
  ASSUME ReportInv, ExampleInv, NEW name, NEW result, NEW next, next # "child", Report(name, result, next),
         UNCHANGED <<args, world>>, child' # None => ChildIs(child)',
         world.python => (result = "failed" <=> ShouldFail(name))
  PROVE  ExampleInv'
  <1>1. PICK n, more, r : n = Len(results) /\ more = results' /\ r = [name |-> name, result |-> result]
    OBVIOUS
  <1>2. PICK T : T = Outcomes \cup {r}
    OBVIOUS
  <1>3. results \in Seq(T) /\ r \in T
    BY <1>2 DEF ReportInv, ReportedSoFar
  <1>4. more = Append(results, r)
    BY <1>1 DEF Report
  <1>5. n \in Nat /\ Len(more) = n + 1 /\ more[n + 1] = r /\ \A i \in 1..n : more[i] = results[i]
    BY <1>1, <1>3, <1>4
  <1>6. \A i \in 1..(n + 1) : i \in 1..n \/ i = n + 1
    BY <1>5
  <1>7. \A x : (ShouldFail(x))' <=> ShouldFail(x)
    BY DEF ShouldFail, Wrong, MayBeSkipped
  <1>8. world.python => \A i \in 1..n : results[i].result = "failed" <=> ShouldFail(results[i].name)
    BY <1>1 DEF ExampleInv
  <1>9. world.python => (r.result = "failed" <=> ShouldFail(r.name))
    BY <1>1
  <1>10. world.python => \A i \in 1..(n + 1) : more[i].result = "failed" <=> ShouldFail(more[i].name)
    BY <1>5, <1>6, <1>8, <1>9
  <1>11. (world.python => \A i \in 1..Len(results) : results[i].result = "failed" <=> ShouldFail(results[i].name))'
    BY <1>1, <1>5, <1>7, <1>10
  <1>12. stage' # "child"
    BY DEF Report, Exit
  <1>13. world' \in Surroundings
    BY DEF ExampleInv
  <1> QED
    BY <1>11, <1>12, <1>13 DEF ExampleInv

\* Nothing is reported, and what is said of a child that runs stays true.
LEMMA ExampleGoesOn ==
  ASSUME ExampleInv, UNCHANGED <<args, world, results>>, stage' = "child" \/ child' # None => ChildIs(child)',
         stage' = "child" =>
           /\ NextCase.name \notin world.absent /\ find_missing_modules(NextCase) = {} /\ queue' = queue
           /\ child'.script = IF Broken THEN world.script ELSE ScriptOf(NextCase.name)
           /\ NextCase.name \in world.hung => child'.pc # "ran"
  PROVE  ExampleInv'
  <1>1. \A x : (ShouldFail(x))' <=> ShouldFail(x)
    BY DEF ShouldFail, Wrong, MayBeSkipped
  <1>2. (world.python => \A i \in 1..Len(results) : results[i].result = "failed" <=> ShouldFail(results[i].name))'
    BY <1>1 DEF ExampleInv
  <1>3. world' \in Surroundings
    BY DEF ExampleInv
  <1>4. (stage = "child" =>
          /\ NextCase.name \notin world.absent /\ find_missing_modules(NextCase) = {}
          /\ child.script = IF Broken THEN world.script ELSE ScriptOf(NextCase.name)
          /\ NextCase.name \in world.hung => child.pc # "ran")'
    BY DEF NextCase, find_missing_modules, Broken
  <1> QED
    BY <1>2, <1>3, <1>4 DEF ExampleInv

LEMMA ExampleStep ==
  ASSUME ReportInv, ExampleInv, [ExamplesNext]_examples_vars
  PROVE  ExampleInv'
  <1>1. CASE ParseArguments
    <2>1. UNCHANGED <<args, world, results, child>> /\ stage' # "child" /\ stage # "child"
      BY <1>1 DEF ParseArguments, Exit
    <2> QED
      BY <2>1, ExampleGoesOn DEF ExampleInv
  <1>2. CASE RunSyntaxCheck
    <2>1. stage = "syntax" /\ UNCHANGED <<args, world, queue, child>>
      BY <1>2 DEF RunSyntaxCheck
    <2>2. PICK result, name, next :
            /\ result = IF world.python /\ "syntax" \notin world.broken THEN "passed" ELSE "failed"
            /\ name = "syntax" /\ next = "select" /\ next # "child" /\ Report(name, result, next)
      BY <1>2 DEF RunSyntaxCheck
    <2>3. ShouldFail(name) <=> "syntax" \in world.broken
      <3>1. "syntax" \notin world.absent \cup world.hung
        BY ExamplesAssumption DEF ExampleInv
      <3>2. ~ Lacks(name)
        BY <2>2, NothingLacksSyntax
      <3> QED
        BY <2>2, <3>1, <3>2 DEF ShouldFail, Wrong, MayBeSkipped, Lacks
    <2>4. world.python => (result = "failed" <=> ShouldFail(name))
      BY <2>2, <2>3
    <2> QED
      BY <2>1, <2>2, <2>4, OneMoreSound DEF ExampleInv
  <1>3. CASE SelectRuns
    <2>1. UNCHANGED <<args, world, results, child>> /\ stage' # "child" /\ stage # "child"
      BY <1>3 DEF SelectRuns, Exit
    <2> QED
      BY <2>1, ExampleGoesOn DEF ExampleInv
  <1>4. CASE CaseCannotRun
    <2>1. stage = "cases" /\ queue # <<>> /\ UNCHANGED <<args, world, child>>
      BY <1>4 DEF CaseCannotRun
    <2>2. PICK result, name, next :
            /\ result = IF name \notin world.absent /\ args.skip_missing_deps THEN "skipped" ELSE "failed"
            /\ name = NextCase.name /\ next = "cases" /\ next # "child" /\ Report(name, result, next)
      BY <1>4 DEF CaseCannotRun
    <2>3. NextCase \in Cases
      BY <2>1 DEF NextCase, ReportInv, Expected
    <2>4. Lacks(name) <=> NextCase.required_modules \cap world.missing # {}
      BY <2>2, <2>3, CaseLacks
    <2>5. world.python => name \in world.absent \/ Lacks(name)
      BY <1>4, <2>2, <2>4 DEF CaseCannotRun, find_missing_modules
    <2>6. world.python => (result = "failed" <=> ShouldFail(name))
      BY <2>2, <2>5 DEF ShouldFail, Wrong, MayBeSkipped, Lacks
    <2> QED
      BY <2>1, <2>2, <2>6, OneMoreSound DEF ExampleInv
  <1>5. CASE StartCase
    <2>1. /\ stage = "cases" /\ queue # <<>> /\ stage' = "child"
          /\ NextCase.name \notin world.absent /\ find_missing_modules(NextCase) = {}
          /\ UNCHANGED <<args, world, queue, results>>
      BY <1>5 DEF StartCase
    <2>2. PICK script : /\ script = IF Broken THEN world.script ELSE ScriptOf(NextCase.name)
                        /\ StartScript(script)
      BY <1>5 DEF StartCase
    <2>3. NextCase \in Cases
      BY <2>1 DEF NextCase, ReportInv, Expected
    <2>4. IsScript(script)
      BY <2>2, <2>3, ExamplesAssumption DEF ExampleInv
    <2>5. ChildIs(child') /\ child'.script = script /\ child'.pc = "running"
      BY <2>2, <2>4, ScriptStarts
    <2> QED
      BY <2>1, <2>2, <2>5, ExampleGoesOn
  <1>6. CASE ChildRuns
    <2>1. stage = "child" /\ RunScript /\ UNCHANGED <<args, world, stage, queue, results, exit>>
          /\ (NextCase.name \in world.hung => child'.pc # "ran")
      BY <1>6 DEF ChildRuns
    <2>2. ChildIs(child)
      BY <2>1 DEF ExampleInv
    <2>3. ChildIs(child') /\ child'.script = child.script
      BY <2>1, <2>2, ScriptStep
    <2> QED
      BY <2>1, <2>3, ExampleGoesOn DEF ExampleInv
  <1>7. CASE ChildReturns
    <2>1. stage = "child" /\ child.pc \in {"ran", "raised"} /\ UNCHANGED <<args, world, child>>
      BY <1>7 DEF ChildReturns
    <2>2. PICK result, name, next :
            /\ result = IF child.pc = "ran" THEN "passed" ELSE "failed"
            /\ name = NextCase.name /\ next = "cases" /\ next # "child" /\ Report(name, result, next)
      BY <1>7 DEF ChildReturns
    <2>3. NextCase \in Cases
      BY <2>1 DEF NextCase, ReportInv, Expected
    <2>4. /\ name \notin world.absent /\ find_missing_modules(NextCase) = {}
          /\ child.script = IF name \in world.broken THEN world.script ELSE ScriptOf(name)
          /\ name \in world.hung => child.pc # "ran"
      BY <2>1, <2>2 DEF ExampleInv, Broken
    <2>5. world.python => ~ Lacks(name)
      BY <2>2, <2>3, <2>4, CaseLacks DEF find_missing_modules
    <2>6. ChildIs(child)
      BY <2>1 DEF ExampleInv
    <2>7. Faulty(child.script) <=> name \in world.broken
      BY <2>2, <2>3, <2>4, ExamplesAssumption DEF ExampleInv
    <2>8. child.pc = "ran" <=> name \notin world.broken
      BY <2>1, <2>6, <2>7, RanMeansNotFaulty
    <2>9. world.python => (ShouldFail(name) <=> name \in world.broken \cup world.hung)
      BY <2>4, <2>5 DEF ShouldFail, Wrong, MayBeSkipped, Lacks
    <2>10. world.python => (result = "failed" <=> ShouldFail(name))
      BY <2>1, <2>2, <2>4, <2>8, <2>9
    <2> QED
      BY <2>1, <2>2, <2>6, <2>10, OneMoreSound
  <1>8. CASE ChildTimesOut
    <2>1. stage = "child" /\ child' = None /\ UNCHANGED <<args, world>>
      BY <1>8 DEF ChildTimesOut
    <2>2. PICK result, name, next :
            /\ result = "failed" /\ name \in world.hung
            /\ name = NextCase.name /\ next = "cases" /\ next # "child" /\ Report(name, result, next)
      BY <1>8 DEF ChildTimesOut
    <2>3. NextCase \in Cases
      BY <2>1 DEF NextCase, ReportInv, Expected
    <2>4. world.python => ~ Lacks(name)
      BY <2>1, <2>2, <2>3, CaseLacks DEF find_missing_modules, ExampleInv
    <2>5. world.python => ShouldFail(name)
      BY <2>2, <2>4 DEF ShouldFail, Wrong, MayBeSkipped, Lacks
    <2> QED
      BY <2>1, <2>2, <2>5, OneMoreSound
  <1>9. CASE PrintSummary
    <2>1. UNCHANGED <<args, world, results, child>> /\ stage' # "child" /\ stage # "child"
      BY <1>9 DEF PrintSummary, Exit
    <2> QED
      BY <2>1, ExampleGoesOn DEF ExampleInv
  <1>10. CASE UNCHANGED examples_vars
    <2>1. UNCHANGED <<args, world, results, child, stage, queue>>
      BY <1>10 DEF examples_vars
    <2> QED
      BY <2>1, ExampleGoesOn DEF ExampleInv
  <1> QED
    BY <1>1, <1>2, <1>3, <1>4, <1>5, <1>6, <1>7, <1>8, <1>9, <1>10 DEF ExamplesNext

LEMMA ExampleInvariant == ExamplesSpec => []ExampleInv
  <1>1. ReportInv /\ ExampleInv /\ [ExamplesNext]_examples_vars => ExampleInv'
    BY ExampleStep
  <1> QED
    BY <1>1, ExampleInit, ReportInvariant, PTL DEF ExamplesSpec

\* Whatever is asked for and whatever is wrong, with scripts of any length:
\* with an interpreter that starts, the runner ends with 0 exactly if every
\* check that was asked for is in order, or lacks a module that it may lack.
THEOREM SuccessIsAlwaysEarned == ExamplesSpec => []SuccessIsEarned
  <1>1. ReportInv /\ ExampleInv => SuccessIsEarned
    <2> SUFFICES ASSUME ReportInv, ExampleInv, stage = "exited", exit # 2, ~ args.list, world.python
                 PROVE  (exit = 0) <=> \A i \in DOMAIN Checks : Wrong(Checks[i]) => MayBeSkipped(Checks[i])
      BY DEF SuccessIsEarned
    <2>1. PICK n, c : n = Len(results) /\ c = Checks
      OBVIOUS
    <2>2. /\ c \in Seq(CheckNames) /\ results \in Seq(Outcomes) /\ n \in Nat /\ n <= Len(c)
          /\ DOMAIN results = 1..n /\ DOMAIN c = 1..Len(c) /\ Len(c) \in Nat
          /\ \A i \in 1..n : results[i].name = c[i]
      BY <2>1, ChecksAre DEF ReportInv, ReportedSoFar
    <2>3. \A i \in 1..n : results[i].result = "failed" <=> ShouldFail(c[i])
      BY <2>1, <2>2 DEF ExampleInv
    <2>4. CASE n = Len(c) /\ exit = ExitStatus(results)
      <3>1. PICK failed : failed = {i \in DOMAIN results : results[i].result = "failed"}
        OBVIOUS
      <3>2. IsFiniteSet(failed)
        <4>1. IsFiniteSet(1..n)
          BY <2>2, FS_Interval
        <4> QED
          BY <2>2, <3>1, <4>1, FS_Subset
      <3>3. Cardinality(failed) \in Nat /\ (Cardinality(failed) = 0 <=> failed = {})
        BY <3>2, FS_CardinalityType, FS_EmptySet
      <3>4. exit = 0 <=> failed = {}
        BY <2>4, <3>1, <3>3 DEF ExitStatus, FailureCount
      <3>5. failed = {} <=> \A i \in 1..n : ~ ShouldFail(c[i])
        BY <2>2, <2>3, <3>1
      <3> QED
        BY <2>1, <2>2, <2>4, <3>4, <3>5 DEF ShouldFail
    <2>5. CASE exit = 1 /\ results # <<>> /\ results[n].result = "failed"
      <3>1. n \in 1..n /\ n \in 1..Len(c)
        BY <2>1, <2>2, <2>5
      <3>2. ShouldFail(c[n])
        BY <2>3, <2>5, <3>1
      <3> QED
        BY <2>1, <2>2, <2>5, <3>1, <3>2 DEF ShouldFail
    <2> QED
      BY <2>1, <2>4, <2>5 DEF ReportInv, Ending
  <1> QED
    BY <1>1, ReportInvariant, ExampleInvariant, PTL

-----------------------------------------------------------------------------
(* A benchmark is configured as the decorators of its function say.          *)

At(D, p, set) == {i \in 1..p : D[i].set = set}
LastIn(D, places, default) == IF places = {} THEN default ELSE D[Max(places)].value
CriterionUpTo(D, p) == LastIn(D, At(D, p, "criterion"), "stdrel")
Below(D, p) == {i \in At(D, p, "param") : \A j \in At(D, p, "criterion") : j < i}

\* The names set at some places, with the last value that is set there
Settings(D, places, default) ==
  [n \in {D[i].name : i \in places} \cup DOMAIN default |->
     LastIn(D, {i \in places : D[i].name = n}, IF n \in DOMAIN default THEN default[n] ELSE None)]

Values(s) == [i \in DOMAIN s |-> s[i].value]

\* The benchmark is as the first p decorators say.
Reads(D, p, axes, b) ==
  /\ DOMAIN b = BenchFields
  /\ b.criterion = CriterionUpTo(D, p) /\ b.criterion \in DOMAIN Defaults
  /\ b.axes = Values(axes)
  /\ b.params = Settings(D, Below(D, p), Defaults[b.criterion])
  /\ b.options = Settings(D, At(D, p, "option"), <<>>)

LEMMA LastJoins ==
  ASSUME NEW D, NEW p \in Nat, NEW places, places \subseteq 1..p, NEW default
  PROVE  LastIn(D, places \cup {p + 1}, default) = D[p + 1].value
  <1>1. Max(places \cup {p + 1}) = p + 1
    <2>1. places \in SUBSET Nat /\ p + 1 \in Nat /\ \A i \in places : i < p + 1
      OBVIOUS
    <2> QED
      BY <2>1, MaxOfLater
  <1> QED
    BY <1>1 DEF LastIn

LEMMA SettingsJoin ==
  ASSUME NEW D, NEW p \in Nat, NEW places, places \subseteq 1..p, NEW default, NEW name, name = D[p + 1].name
  PROVE  Settings(D, places \cup {p + 1}, default) = Put(Settings(D, places, default), name, D[p + 1].value)
  <1>1. PICK A, B, f, v : /\ A = places \cup {p + 1} /\ v = D[p + 1].value
                          /\ f = Settings(D, places, default) /\ B = {D[i].name : i \in places} \cup DOMAIN default
    OBVIOUS
  <1>2. {D[i].name : i \in A} \cup DOMAIN default = B \cup {name}
    BY <1>1
  <1>3. DOMAIN f = B
    BY <1>1 DEF Settings
  <1>4. ASSUME NEW n \in B \cup {name}, NEW other
        PROVE  LastIn(D, {i \in A : D[i].name = n}, other)
                 = IF n = name THEN v ELSE LastIn(D, {i \in places : D[i].name = n}, other)
    <2>1. CASE n = name
      <3>1. PICK same : same = {i \in places : D[i].name = n}
        OBVIOUS
      <3>2. \A i \in A : D[i].name = n <=> i \in same \/ i = p + 1
        BY <1>1, <2>1, <3>1
      <3>3. {i \in A : D[i].name = n} = same \cup {p + 1}
        BY <1>1, <3>1, <3>2
      <3>4. same \subseteq 1..p
        BY <3>1
      <3>5. LastIn(D, same \cup {p + 1}, other) = v
        BY <1>1, <3>4, LastJoins
      <3> QED
        BY <2>1, <3>3, <3>5
    <2>2. CASE n # name
      <3>1. {i \in A : D[i].name = n} = {i \in places : D[i].name = n}
        BY <1>1, <2>2
      <3> QED
        BY <2>2, <3>1
    <2> QED
      BY <2>1, <2>2
  <1>5. \A n \in B : f[n] = LastIn(D, {i \in places : D[i].name = n}, IF n \in DOMAIN default THEN default[n] ELSE None)
    BY <1>1 DEF Settings
  <1>6. Settings(D, A, default)
          = [n \in B \cup {name} |-> LastIn(D, {i \in A : D[i].name = n}, IF n \in DOMAIN default THEN default[n] ELSE None)]
    BY <1>2 DEF Settings
  <1>7. Settings(D, A, default) = [n \in B \cup {name} |-> IF n = name THEN v ELSE f[n]]
    <2>1. ASSUME NEW n \in B \cup {name}
          PROVE  LastIn(D, {i \in A : D[i].name = n}, IF n \in DOMAIN default THEN default[n] ELSE None)
                   = IF n = name THEN v ELSE f[n]
      <3>1. PICK other : other = IF n \in DOMAIN default THEN default[n] ELSE None
        OBVIOUS
      <3>2. LastIn(D, {i \in A : D[i].name = n}, other)
              = IF n = name THEN v ELSE LastIn(D, {i \in places : D[i].name = n}, other)
        BY <1>4
      <3>3. n # name => f[n] = LastIn(D, {i \in places : D[i].name = n}, other)
        BY <1>5, <3>1
      <3> QED
        BY <3>1, <3>2, <3>3
    <2> QED
      BY <1>6, <2>1
  <1> QED
    BY <1>1, <1>3, <1>7 DEF Put

LEMMA NoSettings ==
  ASSUME NEW D, NEW default, default = [n \in DOMAIN default |-> default[n]]
  PROVE  Settings(D, {}, default) = default
  <1>1. \A n : {i \in {} : D[i].name = n} = {}
    OBVIOUS
  <1>2. \A n \in DOMAIN default :
          LastIn(D, {i \in {} : D[i].name = n}, IF n \in DOMAIN default THEN default[n] ELSE None) = default[n]
    BY <1>1 DEF LastIn
  <1>3. {D[i].name : i \in {}} \cup DOMAIN default = DOMAIN default
    OBVIOUS
  <1>4. PICK names, f : names = DOMAIN default /\ f = [n \in names |-> default[n]]
    OBVIOUS
  <1>5. Settings(D, {}, default)
          = [n \in names |-> LastIn(D, {i \in {} : D[i].name = n}, IF n \in names THEN default[n] ELSE None)]
    BY <1>3, <1>4 DEF Settings
  <1>6. Settings(D, {}, default) = f
    BY <1>2, <1>4, <1>5
  <1> QED
    BY <1>4, <1>6

LEMMA DefaultsAre == \A c \in DOMAIN Defaults : Defaults[c] = [n \in DOMAIN Defaults[c] |-> Defaults[c][n]]
  BY DEF Defaults

LEMMA AtNext ==
  ASSUME NEW D, NEW p \in Nat, NEW set
  PROVE  /\ At(D, p, set) \subseteq 1..p
         /\ D[p + 1].set = set => At(D, p + 1, set) = At(D, p, set) \cup {p + 1}
         /\ D[p + 1].set # set => At(D, p + 1, set) = At(D, p, set)
  <1>1. \A i : i \in 1..(p + 1) <=> i \in 1..p \/ i = p + 1
    OBVIOUS
  <1> QED
    BY <1>1 DEF At

LEMMA ValuesMore ==
  ASSUME NEW T, NEW s \in Seq(T), NEW e \in T
  PROVE  Values(Append(s, e)) = Append(Values(s), e.value)
  <1>1. PICK n, r, v : n = Len(s) /\ r = Append(s, e) /\ v = Values(s)
    OBVIOUS
  <1>2. n \in Nat /\ DOMAIN r = 1..(n + 1) /\ r[n + 1] = e /\ \A i \in 1..n : r[i] = s[i]
    BY <1>1
  <1>3. DOMAIN s = 1..n
    BY <1>1
  <1>4. v = [i \in 1..n |-> s[i].value]
    BY <1>1, <1>3 DEF Values
  <1>5. PICK U : U = {s[i].value : i \in 1..n} \cup {e.value}
    OBVIOUS
  <1>6. v \in Seq(U) /\ Len(v) = n /\ e.value \in U
    BY <1>2, <1>4, <1>5
  <1>7. PICK w : w = Append(v, e.value)
    OBVIOUS
  <1>8. w \in Seq(U) /\ Len(w) = n + 1 /\ w[n + 1] = e.value /\ \A i \in 1..n : w[i] = v[i]
    BY <1>6, <1>7
  <1>9. \A i \in 1..(n + 1) : i \in 1..n \/ i = n + 1
    BY <1>2
  <1>10. \A i \in 1..(n + 1) : w[i] = r[i].value
    BY <1>2, <1>4, <1>8, <1>9
  <1>11. w = [i \in 1..(n + 1) |-> w[i]]
    BY <1>8
  <1>12. w = [i \in 1..(n + 1) |-> r[i].value]
    BY <1>10, <1>11
  <1> QED
    BY <1>1, <1>2, <1>7, <1>12 DEF Values

LEMMA ApplyCases ==
  ASSUME NEW b, b # Raised, NEW d, d.set \in Kinds, d.set # "register", ~ Unknown(d)
  PROVE  \/ d.set = "axis" /\ Apply(b, d) = [b EXCEPT !.axes = Append(@, d.value)]
         \/ /\ d.set = "criterion" /\ d.value \in DOMAIN Defaults
            /\ Apply(b, d) = [b EXCEPT !.criterion = d.value, !.params = Defaults[d.value]]
         \/ d.set = "param" /\ Apply(b, d) = [b EXCEPT !.params = Put(@, d.name, d.value)]
         \/ d.set = "option" /\ Apply(b, d) = [b EXCEPT !.options = Put(@, d.name, d.value)]
  BY DEF Apply, Kinds, Unknown

AxesNext(d, before, after) ==
  /\ d.set = "axis" => after = Append(before, d)
  /\ d.set # "axis" => after = before

\* One more decorator, and what it sets
LEMMA ReadsNext ==
  ASSUME NEW D, NEW p \in Nat, NEW T, NEW before \in Seq(T), NEW b, Reads(D, p, before, b),
         NEW d, d \in T, d = D[p + 1], d.set \in Kinds, d.set # "register", ~ Unknown(d),
         NEW after, AxesNext(d, before, after)
  PROVE  Reads(D, p + 1, after, Apply(b, d))
  <1>1. DOMAIN b = BenchFields /\ b # Raised
    BY RaisedIsNoBench DEF Reads
  <1>2. PICK c : c = Apply(b, d)
    OBVIOUS
  <1>3. \A set : /\ At(D, p, set) \subseteq 1..p
                 /\ d.set = set => At(D, p + 1, set) = At(D, p, set) \cup {p + 1}
                 /\ d.set # set => At(D, p + 1, set) = At(D, p, set)
    BY AtNext
  <1>4. Below(D, p) \subseteq 1..p
    BY DEF Below, At
  <1>5. CASE d.set = "axis"
    <2>1. c = [b EXCEPT !.axes = Append(@, d.value)]
      BY <1>1, <1>2, <1>5, ApplyCases
    <2>2. /\ DOMAIN c = BenchFields /\ c.axes = Append(b.axes, d.value)
          /\ c.criterion = b.criterion /\ c.params = b.params /\ c.options = b.options
      BY <1>1, <2>1 DEF BenchFields
    <2>3. At(D, p + 1, "criterion") = At(D, p, "criterion") /\ At(D, p + 1, "param") = At(D, p, "param")
          /\ At(D, p + 1, "option") = At(D, p, "option")
      BY <1>3, <1>5
    <2>4. CriterionUpTo(D, p + 1) = CriterionUpTo(D, p) /\ Below(D, p + 1) = Below(D, p)
      BY <2>3 DEF CriterionUpTo, Below
    <2>5. c.axes = Values(after)
      <3>1. Values(Append(before, d)) = Append(Values(before), d.value)
        BY ValuesMore
      <3>2. after = Append(before, d)
        BY <1>5 DEF AxesNext
      <3>3. b.axes = Values(before)
        BY DEF Reads
      <3> QED
        BY <2>2, <3>1, <3>2, <3>3
    <2> QED
      BY <1>2, <2>2, <2>3, <2>4, <2>5 DEF Reads
  <1>6. CASE d.set = "criterion"
    <2>1. c = [b EXCEPT !.criterion = d.value, !.params = Defaults[d.value]] /\ d.value \in DOMAIN Defaults
      BY <1>1, <1>2, <1>6, ApplyCases
    <2>2. /\ DOMAIN c = BenchFields /\ c.axes = b.axes
          /\ c.criterion = d.value /\ c.params = Defaults[d.value] /\ c.options = b.options
      BY <1>1, <2>1 DEF BenchFields
    <2>3. At(D, p + 1, "criterion") = At(D, p, "criterion") \cup {p + 1} /\ At(D, p + 1, "param") = At(D, p, "param")
          /\ At(D, p + 1, "option") = At(D, p, "option")
      BY <1>3, <1>6
    <2>4. CriterionUpTo(D, p + 1) = d.value
      <3>1. PICK places : places = At(D, p, "criterion")
        OBVIOUS
      <3>2. places \subseteq 1..p
        BY <1>3, <3>1
      <3>3. LastIn(D, places \cup {p + 1}, "stdrel") = d.value
        BY <3>2, LastJoins
      <3> QED
        BY <2>3, <3>1, <3>3 DEF CriterionUpTo
    <2>5. Below(D, p + 1) = {}
      <3>1. \A i \in At(D, p, "param") : ~ (p + 1 < i)
        BY <1>3
      <3> QED
        BY <2>3, <3>1 DEF Below
    <2>6. Settings(D, Below(D, p + 1), Defaults[d.value]) = Defaults[d.value]
      BY <2>1, <2>5, NoSettings, DefaultsAre
    <2>7. c.axes = Values(after)
      BY <1>6, <2>2 DEF Reads, AxesNext
    <2> QED
      BY <1>2, <2>1, <2>2, <2>3, <2>4, <2>6, <2>7 DEF Reads
  <1>7. CASE d.set = "param"
    <2>1. c = [b EXCEPT !.params = Put(@, d.name, d.value)]
      BY <1>1, <1>2, <1>7, ApplyCases
    <2>2. /\ DOMAIN c = BenchFields /\ c.axes = b.axes
          /\ c.criterion = b.criterion /\ c.params = Put(b.params, d.name, d.value) /\ c.options = b.options
      BY <1>1, <2>1 DEF BenchFields
    <2>3. At(D, p + 1, "criterion") = At(D, p, "criterion") /\ At(D, p + 1, "param") = At(D, p, "param") \cup {p + 1}
          /\ At(D, p + 1, "option") = At(D, p, "option")
      BY <1>3, <1>7
    <2>4. CriterionUpTo(D, p + 1) = CriterionUpTo(D, p)
      BY <2>3 DEF CriterionUpTo
    <2>5. Below(D, p + 1) = Below(D, p) \cup {p + 1}
      <3>1. \A j \in At(D, p, "criterion") : j < p + 1
        BY <1>3
      <3> QED
        BY <2>3, <3>1 DEF Below
    <2>6. Settings(D, Below(D, p + 1), Defaults[b.criterion]) = Put(b.params, d.name, d.value)
      BY <1>4, <2>5, SettingsJoin DEF Reads
    <2>7. c.axes = Values(after)
      BY <1>7, <2>2 DEF Reads, AxesNext
    <2> QED
      BY <1>2, <2>2, <2>3, <2>4, <2>6, <2>7 DEF Reads
  <1>8. CASE d.set = "option"
    <2>1. c = [b EXCEPT !.options = Put(@, d.name, d.value)]
      BY <1>1, <1>2, <1>8, ApplyCases
    <2>2. /\ DOMAIN c = BenchFields /\ c.axes = b.axes
          /\ c.criterion = b.criterion /\ c.params = b.params /\ c.options = Put(b.options, d.name, d.value)
      BY <1>1, <2>1 DEF BenchFields
    <2>3. At(D, p + 1, "criterion") = At(D, p, "criterion") /\ At(D, p + 1, "param") = At(D, p, "param")
          /\ At(D, p + 1, "option") = At(D, p, "option") \cup {p + 1}
      BY <1>3, <1>8
    <2>4. CriterionUpTo(D, p + 1) = CriterionUpTo(D, p) /\ Below(D, p + 1) = Below(D, p)
      BY <2>3 DEF CriterionUpTo, Below
    <2>5. Settings(D, At(D, p + 1, "option"), <<>>) = Put(b.options, d.name, d.value)
      BY <1>3, <2>3, SettingsJoin DEF Reads
    <2>6. c.axes = Values(after)
      BY <1>8, <2>2 DEF Reads, AxesNext
    <2> QED
      BY <1>2, <2>2, <2>3, <2>4, <2>5, <2>6 DEF Reads
  <1> QED
    BY <1>5, <1>6, <1>7, <1>8 DEF Kinds

\* A benchmark without actions, under decorators that set nothing
LEMMA ReadsFirst ==
  ASSUME NEW D, NEW m \in Nat, \A i \in 1..m : D[i].set = "register", NEW f
  PROVE  Reads(D, m, <<>>, add_bench(f))
  <1>1. At(D, m, "criterion") = {} /\ At(D, m, "param") = {} /\ At(D, m, "option") = {}
    BY DEF At
  <1>2. Below(D, m) = {} /\ CriterionUpTo(D, m) = "stdrel"
    BY <1>1 DEF Below, CriterionUpTo, LastIn
  <1>3. "stdrel" \in DOMAIN Defaults
    BY DEF Defaults
  <1>4. Settings(D, Below(D, m), Defaults["stdrel"]) = Defaults["stdrel"]
    BY <1>2, <1>3, DefaultsAre, NoSettings
  <1>5. Settings(D, At(D, m, "option"), <<>>) = <<>>
    <2>1. <<>> = [n \in DOMAIN <<>> |-> <<>>[n]]
      OBVIOUS
    <2> QED
      BY <1>1, <2>1, NoSettings
  <1>6. Values(<<>>) = <<>>
    BY DEF Values
  <1> QED
    BY <1>2, <1>3, <1>4, <1>5, <1>6 DEF Reads, add_bench, BenchFields

AxesIn(D) == {D[i] : i \in At(D, Len(D), "axis")}
AllOfKinds(D) == \A i \in DOMAIN D : D[i].set \in Kinds

FnStays(b, d) == Apply(b, d).fn = b.fn

LEMMA ApplyKeepsFn ==
  ASSUME NEW b, DOMAIN b = BenchFields, NEW d, ~ Unknown(d)
  PROVE  FnStays(b, d)
  BY ApplyOne, RaisedIsNoBench DEF FnStays

\* The actions, applied in reverse, are the decorators as written.
LEMMA ReadsAll ==
  ASSUME NEW D, IsSeq(D), AllOfKinds(D), NEW actions, Gathered(D, Len(D), actions), NoneUnknown(actions),
         NEW f, NEW b, b = apply_benchmark_actions(add_bench(f), actions)
  PROVE  Reads(D, Len(D), Keep(D, AxesIn(D)), b) /\ b.fn = f
  <1>a. PICK n, S : n = Len(D) /\ S = AxesIn(D)
    OBVIOUS
  <1>b. n \in Nat
    BY <1>a, SeqHas
  <1>c. Gathered(D, n, actions)
    BY <1>a
  <1>1. PICK a, m, T, none : a = Len(actions) /\ m = n - a /\ T = ToSet(D) /\ none = add_bench(f)
    OBVIOUS
  <1>2. a \in Nat /\ a <= n /\ DOMAIN D = 1..n /\ D \in Seq(T)
    BY <1>1, <1>a, <1>c, SeqHas DEF Gathered, IsSeq
  <1>3. m \in Nat /\ m <= n /\ n - m = a /\ m = n - a
    BY <1>1, <1>2, <1>b
  <1>4. PICK kept : Kept(D, S, n, kept) /\ Keep(D, S) = kept[n]
    BY <1>a, <1>b, KeepIs
  <1>5. PICK applied : Applied(none, actions, a, applied) /\ b = applied[a]
    BY <1>1, <1>2, ApplyIs
  <1>6. \A i \in 1..m : D[i].set = "register"
    <2> SUFFICES ASSUME NEW i \in 1..m PROVE D[i].set = "register"
      OBVIOUS
    <2>1. i \in DOMAIN D /\ i <= n - a
      <3>1. i \in 1..n /\ i <= m
        BY <1>3, <1>b
      <3> QED
        BY <1>2, <1>3, <3>1
    <2> QED
      BY <1>1, <1>a, <1>c, <2>1, AboveTheActions
  <1>7. ASSUME NEW k \in 0..a, k # a
        PROVE  LET d == D[m + k + 1] IN
                 d = actions[a - k] /\ d \in T /\ d.set \in Kinds /\ d.set # "register" /\ ~ Unknown(d)
    <2>1. a - k \in 1..a /\ n + 1 - (a - k) = m + k + 1 /\ m + k + 1 \in 1..n
      BY <1>2, <1>3, <1>7, <1>b
    <2>2. actions[a - k] = D[n + 1 - (a - k)] /\ actions[a - k].set # "register"
      BY <1>1, <1>a, <1>c, <2>1 DEF Gathered
    <2>3. ~ Unknown(actions[a - k])
      BY <1>1, <2>1 DEF NoneUnknown
    <2>4. D[m + k + 1] \in T /\ D[m + k + 1].set \in Kinds
      BY <1>1, <1>2, <2>1 DEF ToSet, AllOfKinds
    <2> QED
      BY <2>1, <2>2, <2>3, <2>4
  <1>8. \A i \in 1..n : D[i] \in S <=> D[i].set = "axis"
    BY <1>a DEF AxesIn, At
  <1>9. \A i \in 0..n : kept[i] \in Seq(T)
    <2>1. PICK U : U = T \cap S
      OBVIOUS
    <2>2. \A i \in 0..n : kept[i] \in Seq(U)
      BY <1>2, <1>4, <1>a, <1>b, <2>1, KeptTyped
    <2>3. U \subseteq T
      BY <2>1
    <2>4. ASSUME NEW s \in Seq(U)
          PROVE  s \in Seq(T)
      BY <2>3
    <2> QED
      BY <2>2, <2>4
  <1> DEFINE Right(k) == Reads(D, m + k, kept[m + k], applied[k]) /\ applied[k].fn = f
  <1>10. kept[m] = <<>>
    <2>1. PICK P : P = {i \in 0..m : kept[i] = <<>>}
      OBVIOUS
    <2>2. 0 \in P
      BY <1>3, <1>4, <1>b, <2>1, KeptFirst
    <2>3. ASSUME NEW i \in 0..m, i # m, i \in P
          PROVE  i + 1 \in P
      <3>1. i \in 0..n /\ i # n /\ i + 1 \in 1..n /\ i + 1 \in 1..m /\ i + 1 \in 0..m
        BY <1>3, <1>b, <2>3
      <3>2. KeptNext(D, S, kept, i)
        BY <1>4, <1>b, <3>1, KeptStep
      <3>3. D[i + 1] \notin S
        BY <1>6, <1>8, <3>1
      <3> QED
        BY <2>1, <2>3, <3>1, <3>2, <3>3 DEF KeptNext
    <2>4. \A i \in 0..m : i \in P
      BY <1>3, <2>2, <2>3, StepByStep
    <2>5. m \in 0..m
      BY <1>3
    <2> QED
      BY <2>1, <2>4, <2>5
  <1>11. PICK P : P = {k \in 0..a : Right(k)}
    OBVIOUS
  <1>12. 0 \in P
    <2>1. applied[0] = none /\ none.fn = f
      BY <1>1, <1>2, <1>5, AppliedFirst DEF add_bench
    <2>2. Reads(D, m, <<>>, none)
      BY <1>1, <1>3, <1>6, ReadsFirst
    <2>3. m + 0 = m /\ 0 \in 0..a
      BY <1>2, <1>3
    <2> QED
      BY <1>10, <1>11, <2>1, <2>2, <2>3
  <1>13. ASSUME NEW k \in 0..a, k # a, k \in P
         PROVE  k + 1 \in P
    <2>1. PICK p, d, before, after, c : /\ p = m + k /\ d = D[p + 1] /\ before = kept[p]
                                        /\ after = kept[p + 1] /\ c = applied[k]
      OBVIOUS
    <2>2. p \in Nat /\ p \in 0..n /\ p # n /\ p + 1 \in 1..n /\ p + 1 = m + (k + 1) /\ k + 1 \in 0..a
          /\ p + 1 = m + k + 1
      BY <1>2, <1>3, <1>13, <1>b, <2>1
    <2>3. Reads(D, p, before, c) /\ c.fn = f
      BY <1>11, <1>13, <2>1
    <2>4. d = actions[a - k] /\ d \in T /\ d.set \in Kinds /\ d.set # "register" /\ ~ Unknown(d)
      BY <1>7, <1>13, <2>1, <2>2
    <2>5. AxesNext(d, before, after)
      <3>1. KeptNext(D, S, kept, p)
        BY <1>4, <1>b, <2>2, KeptStep
      <3> QED
        BY <1>8, <2>1, <2>2, <3>1 DEF KeptNext, AxesNext
    <2>6. before \in Seq(T)
      BY <1>9, <2>1, <2>2
    <2>7. Reads(D, p + 1, after, Apply(c, d))
      BY <2>1, <2>2, <2>3, <2>4, <2>5, <2>6, ReadsNext
    <2>8. FnStays(c, d)
      BY <2>3, <2>4, ApplyKeepsFn DEF Reads
    <2>9. applied[k + 1] = Apply(c, d)
      <3>1. AppliedNext(actions, a, applied, k)
        BY <1>2, <1>5, <1>13, AppliedStep
      <3> QED
        BY <2>1, <2>4, <3>1 DEF AppliedNext
    <2>10. Right(k + 1)
      <3>1. PICK q, e : q = m + (k + 1) /\ e = applied[k + 1]
        OBVIOUS
      <3>2. q = p + 1 /\ e = Apply(c, d) /\ kept[q] = after
        BY <2>1, <2>2, <2>9, <3>1
      <3>3. Reads(D, q, kept[q], e)
        BY <2>7, <3>2
      <3>4. e.fn = f
        BY <2>3, <2>8, <3>2 DEF FnStays
      <3> QED
        BY <3>1, <3>3, <3>4
    <2> QED
      BY <1>11, <2>2, <2>10
  <1>14. \A k \in 0..a : k \in P
    BY <1>2, <1>12, <1>13, StepByStep
  <1>15. a \in P /\ m + a = n
    BY <1>2, <1>3, <1>14, <1>b
  <1>16. Reads(D, n, kept[n], b) /\ b.fn = f
    BY <1>5, <1>11, <1>15
  <1> QED
    BY <1>4, <1>16, <1>a

LEMMA SaysWhatItReads ==
  ASSUME NEW f, NEW D, D = Decorators(f), IsSeq(D), NEW b, Reads(D, Len(D), Keep(D, AxesIn(D)), b)
  PROVE  SaysTheSource(f, b)
  <1>a. PICK n, S : n = Len(D) /\ S = AxesIn(D)
    OBVIOUS
  <1>b. DOMAIN D = 1..n /\ Reads(D, n, Keep(D, S), b)
    BY <1>a, SeqHas
  <1>1. \A set : Places(f, set) = At(D, n, set)
    BY <1>b DEF Places, At
  <1>2. CriterionWritten(f) = b.criterion
    BY <1>1, <1>b DEF CriterionWritten, CriterionUpTo, LastOf, LastIn, Reads
  <1>3. BelowCriterion(f) = Below(D, n)
    BY <1>1 DEF BelowCriterion, Below
  <1>4. AxesWritten(f) = Keep(D, S)
    BY <1>1, <1>a DEF AxesWritten, AxesIn
  <1>5. b.axes = [i \in DOMAIN AxesWritten(f) |-> AxesWritten(f)[i].value]
    BY <1>4, <1>b DEF Reads, Values
  <1>6. PICK default, below, options : /\ default = Defaults[b.criterion] /\ below = Below(D, n)
                                       /\ options = At(D, n, "option")
    OBVIOUS
  <1>7. \A x : below \cap Named(f, "param", x) = {i \in below : D[i].name = x}
    BY <1>1, <1>6 DEF Named, Below
  <1>8. \A x : Named(f, "option", x) = {i \in options : D[i].name = x}
    BY <1>1, <1>6 DEF Named
  <1>9. \A places, other : LastOf(f, places, other) = LastIn(D, places, other)
    BY DEF LastOf, LastIn
  <1>10. \A places : Names(f, places) = {D[i].name : i \in places}
    BY DEF Names
  <1>11. b.params = [x \in Names(f, below) \cup DOMAIN default |->
                       LastOf(f, below \cap Named(f, "param", x), IF x \in DOMAIN default THEN default[x] ELSE None)]
    <2>1. b.params = Settings(D, below, default)
      BY <1>6, <1>b DEF Reads
    <2>2. PICK names : names = {D[i].name : i \in below} \cup DOMAIN default
      OBVIOUS
    <2>3. Names(f, below) \cup DOMAIN default = names
      BY <1>10, <2>2
    <2>4. ASSUME NEW x, NEW other
          PROVE  LastOf(f, below \cap Named(f, "param", x), other) = LastIn(D, {i \in below : D[i].name = x}, other)
      BY <1>7, <1>9
    <2>5. Settings(D, below, default)
            = [x \in names |-> LastIn(D, {i \in below : D[i].name = x}, IF x \in DOMAIN default THEN default[x] ELSE None)]
      BY <2>2 DEF Settings
    <2> QED
      BY <2>1, <2>3, <2>4, <2>5
  <1>12. b.options = [x \in Names(f, options) |-> LastOf(f, Named(f, "option", x), None)]
    <2>1. b.options = Settings(D, options, <<>>)
      BY <1>6, <1>b DEF Reads
    <2>2. PICK names : names = {D[i].name : i \in options}
      OBVIOUS
    <2>3. Names(f, options) = names
      BY <1>10, <2>2
    <2>4. DOMAIN <<>> = {}
      OBVIOUS
    <2>5. ASSUME NEW x, NEW other
          PROVE  LastOf(f, Named(f, "option", x), other) = LastIn(D, {i \in options : D[i].name = x}, other)
      BY <1>8, <1>9
    <2>6. Settings(D, options, <<>>)
            = [x \in names |-> LastIn(D, {i \in options : D[i].name = x}, IF x \in {} THEN <<>>[x] ELSE None)]
      BY <2>2, <2>4 DEF Settings
    <2>7. Settings(D, options, <<>>) = [x \in names |-> LastIn(D, {i \in options : D[i].name = x}, None)]
      BY <2>6
    <2>8. PICK g : g = [x \in names |-> LastOf(f, Named(f, "option", x), None)]
      OBVIOUS
    <2>9. ASSUME NEW x \in names
          PROVE  g[x] = LastIn(D, {i \in options : D[i].name = x}, None)
      BY <2>5, <2>8
    <2>10. g = [x \in names |-> LastIn(D, {i \in options : D[i].name = x}, None)]
      BY <2>8, <2>9
    <2> QED
      BY <2>1, <2>3, <2>7, <2>8, <2>10
  <1>13. Places(f, "option") = options
    BY <1>1, <1>6
  <1> QED
    BY <1>2, <1>3, <1>5, <1>6, <1>11, <1>12, <1>13 DEF SaysTheSource

\* Whatever a script defines and however it registers it, every benchmark that
\* runs has what the decorators of its function say, in their order.
THEOREM AlwaysConfiguredAsWritten == ExamplesSpec => []ConfiguredAsWritten
  <1>1. ExampleInv => ConfiguredAsWritten
    <2> SUFFICES ASSUME ExampleInv, child # None, child.pc = "ran", NEW i \in DOMAIN child.benchmarks
                 PROVE  SaysTheSource(child.benchmarks[i].fn, child.benchmarks[i])
      BY DEF ConfiguredAsWritten
    <2>1. PICK script, line, evaluated, actions, registered, benchmarks :
            /\ script = child.script /\ line = child.line /\ evaluated = child.evaluated
            /\ actions = child.actions /\ registered = child.registered /\ benchmarks = child.benchmarks
      OBVIOUS
    <2>2. IsScript(script) /\ Progress(script, line, evaluated, actions, registered, benchmarks)
          /\ line \notin DOMAIN script
      BY <2>1 DEF ExampleInv, ChildIs
    <2>3. i \in 1..Len(benchmarks)
      BY <2>1, <2>2, SeqHas DEF Progress, BenchmarksSoFar
    <2>4. PICK f \in registered : benchmarks[i] = apply_benchmark_actions(add_bench(f), actions[f])
      BY <2>2, <2>3 DEF Progress, BenchmarksSoFar
    <2>5. NoneUnknown(actions[f])
      BY <2>2 DEF Progress, BenchmarksSoFar, NoneUnknown
    <2>6. f \in DefinedIn(script)
      BY <2>2 DEF Progress, RegisteredSoFar
    <2>7. PICK D, g, b : D = script[f].decorators /\ g = actions[f] /\ b = benchmarks[i]
      OBVIOUS
    <2>8. IsSeq(D)
      BY <2>2, <2>6, <2>7, ScriptIs
    <2>9. Gathered(D, Len(D), g)
      BY <2>2, <2>6, <2>7, AllRegistered
    <2>10. AllOfKinds(D)
      BY <2>2, <2>6, <2>7 DEF IsScript, DefinedIn, AllOfKinds
    <2>11. b = apply_benchmark_actions(add_bench(f), g) /\ NoneUnknown(g)
      BY <2>4, <2>5, <2>7
    <2>12. Reads(D, Len(D), Keep(D, AxesIn(D)), b) /\ b.fn = f
      BY <2>8, <2>9, <2>10, <2>11, ReadsAll
    <2>13. D = Decorators(f)
      BY <2>1, <2>7 DEF Decorators
    <2>14. SaysTheSource(f, b)
      BY <2>8, <2>12, <2>13, SaysWhatItReads
    <2> QED
      BY <2>1, <2>7, <2>12, <2>14
  <1> QED
    BY <1>1, ExampleInvariant, PTL
=============================================================================
