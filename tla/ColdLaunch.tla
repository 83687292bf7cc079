----------------------------- MODULE ColdLaunch -----------------------------
(***************************************************************************)
(* The isolated ("cold") measurement as a host program over a stream:      *)
(* measure_cold::operator(), the launch timer it hands to the benchmark    *)
(* (measure_cold_launch_timer_core) and the cleanup that timer owes when a *)
(* call or the benchmark throws.  The host's calls are interleaved with    *)
(* the device's steps of BlockingKernel.  What a recorded sample does to   *)
(* the statistics and when sampling stops is module SamplingLoop's: here   *)
(* the loops stop when they like.                                          *)
(***************************************************************************)
EXTENDS BlockingKernel

CONSTANTS
  Configs,      \* the settings a measurement may have
  MayThrow,     \* the calls into CUDA that may fail
  MaxLaunches   \* bound: launches of the benchmark in one measurement

\* run_once and disable_blocking_kernel: the state's settings.  timeout: the
\* sign of its blocking_kernel_timeout.  timer_tag: the launcher was given
\* exec_tag::timer and calls start and stop itself.  syncs: it synchronizes
\* the stream while it is timed.  kernels: how many it queues.
ConfigType == [run_once : BOOLEAN, disable_blocking_kernel : BOOLEAN,
               timeout : {"finite", "negative"}, timer_tag : BOOLEAN,
               syncs : BOOLEAN, kernels : Nat]

Calls == {"flush_device_l2", "sync_stream", "block_stream",
          "gpu_frequency_start", "profiler_start", "cuda_timer_start",
          "launcher", "cuda_timer_stop", "gpu_frequency_stop",
          "profiler_stop", "check_skip_time"}

ASSUME ConfigAssumption ==
  /\ Configs \subseteq ConfigType
  /\ MayThrow \subseteq Calls
  /\ MaxLaunches \in Nat \ {0}

VARIABLES
  config,
  pc,        \* the host's next step
  phase,     \* run_warmup or run_trials
  launches,  \* launches of the benchmark so far in this phase
  launched,  \* kernels the launcher has queued in this launch
  flow,      \* "normal", or "unwinding" while an exception propagates
  scope,     \* whose destructor runs cleanup_noexcept: guard or timer
  flags,     \* the flags of the timer (and of its cleanup) that are set
  profiler,  \* what cudaProfilerStart and cudaProfilerStop left: on or off
  ran        \* history: what the stream completed since the last start();
             \* "early" if event_start completed before event_stop was queued

Flags == {"m_cpu_timer_started", "m_stream_unblock_armed",
          "m_gpu_frequency_cleanup_armed", "m_profiler_started",
          "m_cuda_timer_started", "sync_armed"}

control == <<phase, launches, launched, flow, scope>>
settings == <<config, timeout>>
guards == <<flags, profiler>>
vars == <<settings, device, pc, control, guards, ran>>

\* The device's state but for the queue
kernelState == <<m_host_flag, m_host_timeout_flag, kernel, now>>

Up(flag) == flag \in flags
Set(flag) == flags' = flags \cup {flag}
Clear(flag) == flags' = flags \ {flag}

-----------------------------------------------------------------------------
(* The settings a launch timer is constructed with. *)

check_throttling == ~config.run_once

\* run_warmup never blocks; run_trials does not when profiling or disabled.
disable_blocking_kernel ==
  phase = "warmup" \/ config.run_once \/ config.disable_blocking_kernel

Init ==
  /\ config \in Configs
  /\ timeout = config.timeout
  /\ DeviceInit
  /\ phase = IF config.run_once THEN "trials" ELSE "warmup"
  /\ pc = IF config.run_once THEN "launch" ELSE "warmup.block"
  /\ launches = 0 /\ launched = 0
  /\ flow = "normal" /\ scope = "timer"
  /\ flags = {}
  /\ profiler = "off"
  /\ ran = {}

-----------------------------------------------------------------------------
(* Exceptions. *)

Unwind(who) ==
  /\ pc' = "cleanup"
  /\ flow' = "unwinding"
  /\ scope' = who
  /\ UNCHANGED <<phase, launches, launched>>

\* Thrown in start() or stop(): their cleanup_guard is destroyed first.
ThrowInTimer(call) == call \in MayThrow /\ Unwind("guard")

\* Thrown in run_warmup or run_trials outside start() and stop(): the timer,
\* a local variable of both, is destroyed.
ThrowInLoop(call) == call \in MayThrow /\ Unwind("timer")

Continue(next) == pc' = next /\ UNCHANGED control

\* A call that queues work and may fail, before or after it queued it
Enqueue(call, work, next) ==
  /\ UNCHANGED kernelState
  /\ \/ Submit(work) /\ Continue(next)
     \/ (Submit(work) \/ UNCHANGED stream) /\ ThrowInTimer(call)

-----------------------------------------------------------------------------
(* run_warmup and the loops around the launches *)

\* this->block_stream(); no guard holds the stream here.
WarmupBlock ==
  /\ pc = "warmup.block"
  /\ Block
  /\ Continue("warmup.unblock")
  /\ UNCHANGED <<settings, kernel, now, guards, ran>>

WarmupUnblock ==
  /\ pc = "warmup.unblock"
  /\ UnblockNoexcept
  /\ Continue("warmup.check")
  /\ UNCHANGED <<settings, stream, m_host_timeout_flag, kernel, now, guards,
                 ran>>

\* timeout_detected() throws before any timer exists: the measurement is
\* destroyed at once.
WarmupCheck ==
  /\ pc = "warmup.check"
  /\ IF TimeoutDetected
     THEN /\ pc' = "destroy" /\ flow' = "unwinding"
          /\ UNCHANGED <<phase, launches, launched, scope>>
     ELSE Continue("launch")
  /\ UNCHANGED <<settings, device, guards, ran>>

\* launch_kernel: the wrapper starts the timer at once, a launcher given
\* exec_tag::timer may first queue work that is not timed.
Launch ==
  /\ pc = "launch"
  /\ launches < MaxLaunches
  /\ launches' = launches + 1
  /\ launched' = 0
  /\ pc' = "flush_device_l2"
  /\ \/ UNCHANGED stream
     \/ config.timer_tag /\ Submit("launch")
  /\ UNCHANGED <<settings, kernelState, phase, flow, scope, guards, ran>>

\* The loop body after the launch.  Trials: the sample is discarded or
\* recorded, which waits for event_stop, and sampling goes on or stops.
\* Warmup: the loop goes on, or its last launch is timed and may be too fast.
AfterLaunch ==
  /\ pc = "record"
  /\ \/ launches < MaxLaunches /\ Continue("launch")
     \/ /\ ~Queued("event_stop")
        /\ \/ Continue("cleanup")
           \/ phase = "warmup" /\ ThrowInLoop("check_skip_time")
  /\ UNCHANGED <<settings, device, guards, ran>>

Destroy ==
  /\ pc = "destroy"
  /\ Continue("destroyed")
  /\ UNCHANGED <<settings, device, guards, ran>>

-----------------------------------------------------------------------------
(* start() *)

StartFlush ==
  /\ pc = "flush_device_l2"
  /\ Enqueue("flush_device_l2", "memset_l2", "start.sync")
  /\ UNCHANGED <<settings, guards, ran>>

StartSync ==
  /\ pc = "start.sync"
  /\ Drained
  /\ Continue("cpu_timer_start") \/ ThrowInTimer("sync_stream")
  /\ ran' = {}
  /\ UNCHANGED <<settings, device, guards>>

\* The CPU timer cannot fail.  The cleanup is armed before block_stream.
StartCpuTimer ==
  /\ pc = "cpu_timer_start"
  /\ IF disable_blocking_kernel
     THEN /\ Set("m_cpu_timer_started")
          /\ Continue("gpu_frequency_start")
     ELSE /\ flags' = flags \cup {"m_cpu_timer_started", "m_stream_unblock_armed"}
          /\ Continue("block_stream")
  /\ UNCHANGED <<settings, device, profiler, ran>>

StartBlock ==
  /\ pc = "block_stream"
  /\ \/ Block /\ (Continue("gpu_frequency_start") \/ ThrowInTimer("block_stream"))
     \/ /\ ThrowInTimer("block_stream")
        /\ UNCHANGED <<stream, m_host_flag, m_host_timeout_flag>>
  /\ UNCHANGED <<settings, kernel, now, guards, ran>>

\* Mutant: both records write the buffer of m_stop.
StopBuffer == "timestamps_stop"

\* gpu_frequency::start records into m_start, gpu_frequency::stop into m_stop.
StartBuffer == "timestamps_start"

StartFrequency ==
  /\ pc = "gpu_frequency_start"
  /\ IF check_throttling
     THEN /\ Set("m_gpu_frequency_cleanup_armed")
          /\ Enqueue("gpu_frequency_start", StartBuffer, "profiler_start")
     ELSE Continue("profiler_start") /\ UNCHANGED <<device, flags>>
  /\ UNCHANGED <<settings, profiler, ran>>

StartProfiler ==
  /\ pc = "profiler_start"
  /\ IF config.run_once
     THEN \/ /\ Continue("cuda_timer_start")
             /\ profiler' = "on"
             /\ Set("m_profiler_started")
          \/ ThrowInTimer("profiler_start") /\ UNCHANGED guards
     ELSE Continue("cuda_timer_start") /\ UNCHANGED guards
  /\ UNCHANGED <<settings, device, ran>>

StartCudaTimer ==
  /\ pc = "cuda_timer_start"
  /\ Enqueue("cuda_timer_start", "event_start", "launcher")
  /\ IF flow' = "normal" THEN Set("m_cuda_timer_started") ELSE UNCHANGED flags
  /\ UNCHANGED <<settings, profiler, ran>>

-----------------------------------------------------------------------------
(* The launcher, between start() and stop() *)

LauncherLaunch ==
  /\ pc = "launcher"
  /\ launched < config.kernels
  /\ Submit("launch")
  /\ launched' = launched + 1
  /\ UNCHANGED <<settings, kernelState, pc, phase, launches, flow, scope,
                 guards, ran>>

LauncherReturn ==
  /\ pc = "launcher"
  /\ launched = config.kernels
  /\ config.syncs => Drained
  /\ Continue("cuda_timer_stop")
  /\ UNCHANGED <<settings, device, guards, ran>>

\* A launcher given the timer may queue work after stop() as well.
LauncherAfterTimer ==
  /\ pc = "after_timer"
  /\ \/ UNCHANGED stream
     \/ config.timer_tag /\ Submit("launch")
  /\ Continue("record")
  /\ UNCHANGED <<settings, kernelState, guards, ran>>

LauncherThrow ==
  /\ \/ pc = "launcher"
     \/ config.timer_tag /\ pc \in {"flush_device_l2", "after_timer"}
  /\ ThrowInLoop("launcher")
  /\ UNCHANGED <<settings, device, guards, ran>>

-----------------------------------------------------------------------------
(* stop() *)

StopCudaTimer ==
  /\ pc = "cuda_timer_stop"
  /\ IF Up("m_cuda_timer_started")
     THEN Enqueue("cuda_timer_stop", "event_stop", "gpu_frequency_stop")
     ELSE Continue("gpu_frequency_stop") /\ UNCHANGED device
  /\ IF flow' = "normal" THEN Clear("m_cuda_timer_started") ELSE UNCHANGED flags
  /\ UNCHANGED <<settings, profiler, ran>>

StopFrequency ==
  /\ pc = "gpu_frequency_stop"
  /\ IF Up("m_gpu_frequency_cleanup_armed")
     THEN Enqueue("gpu_frequency_stop", "timestamps_stop", "unblock_stream")
     ELSE Continue("unblock_stream") /\ UNCHANGED device
  /\ IF flow' = "normal"
     THEN Clear("m_gpu_frequency_cleanup_armed") ELSE UNCHANGED flags
  /\ UNCHANGED <<settings, profiler, ran>>

\* blocking_kernel::unblock raises the host's flag ...
StopUnblock ==
  /\ pc = "unblock_stream"
  /\ IF Up("m_stream_unblock_armed")
     THEN UnblockNoexcept /\ Continue("unblock.check")
     ELSE Continue("stop.sync") /\ UNCHANGED m_host_flag
  /\ UNCHANGED <<settings, stream, m_host_timeout_flag, kernel, now, guards,
                 ran>>

\* ... and then reads the kernel's.
StopCheckTimeout ==
  /\ pc = "unblock.check"
  /\ IF TimeoutDetected
     THEN Unwind("guard") /\ UNCHANGED flags
     ELSE Continue("stop.sync") /\ Clear("m_stream_unblock_armed")
  /\ UNCHANGED <<settings, device, profiler, ran>>

\* Mutant: the stream is not synchronized before the times are read.
StopWithoutSync ==
  /\ pc = "stop.sync"
  /\ Continue("profiler_stop")
  /\ UNCHANGED <<settings, device, guards, ran>>

StopSync ==
  /\ pc = "stop.sync"
  /\ Drained
  /\ Continue("profiler_stop") \/ ThrowInTimer("sync_stream")
  /\ UNCHANGED <<settings, device, guards, ran>>

StopProfiler ==
  /\ pc = "profiler_stop"
  /\ IF Up("m_profiler_started")
     THEN \/ /\ Continue("cpu_timer_stop")
             /\ profiler' = "off"
             /\ Clear("m_profiler_started")
          \/ ThrowInTimer("profiler_stop") /\ UNCHANGED guards
     ELSE Continue("cpu_timer_stop") /\ UNCHANGED guards
  /\ UNCHANGED <<settings, device, ran>>

StopCpuTimer ==
  /\ pc = "cpu_timer_stop"
  /\ Clear("m_cpu_timer_started")
  /\ Continue("after_timer")
  /\ UNCHANGED <<settings, device, profiler, ran>>

-----------------------------------------------------------------------------
(* cleanup_noexcept(), run by a guard and by the timer's destructor *)

\* Mutant: only a recorded start event is waited for.
SyncForEvents == Up("m_cuda_timer_started")

SyncNeeded ==
  \/ Up("m_stream_unblock_armed")
  \/ Up("m_cuda_timer_started")
  \/ Up("m_gpu_frequency_cleanup_armed")

\* Mutant: a start() that failed half way is thought not to hold the stream.
ReleaseIfStarted ==
  IF Up("m_stream_unblock_armed") /\ Up("m_cuda_timer_started")
  THEN UnblockNoexcept ELSE UNCHANGED m_host_flag

ReleaseIfArmed ==
  IF Up("m_stream_unblock_armed") THEN UnblockNoexcept
                                  ELSE UNCHANGED m_host_flag

CleanupUnblock ==
  /\ pc = "cleanup"
  /\ ReleaseIfArmed
  /\ flags' = (flags \ {"m_stream_unblock_armed", "sync_armed"})
                \cup (IF SyncNeeded THEN {"sync_armed"} ELSE {})
  /\ Continue("cleanup.sync")
  /\ UNCHANGED <<settings, stream, m_host_timeout_flag, kernel, now, profiler,
                 ran>>

CleanupSync ==
  /\ pc = "cleanup.sync"
  /\ Up("sync_armed") => Drained
  /\ Continue("cleanup.timers")
  /\ UNCHANGED <<settings, device, guards, ran>>

\* Mutant: the profiler's flag is cleared, the profiler left on.
ForgetProfiler == UNCHANGED profiler

CleanupProfiler ==
  profiler' = IF Up("m_profiler_started") THEN "off" ELSE profiler

\* Where the exception, or the end of the loop, goes next
AfterCleanup ==
  \/ /\ scope = "guard"
     /\ pc' = "cleanup" /\ scope' = "timer"
     /\ UNCHANGED <<phase, launches, launched, flow>>
  \/ /\ scope = "timer" /\ flow = "normal" /\ phase = "warmup"
     /\ pc' = "launch" /\ phase' = "trials" /\ launches' = 0
     /\ UNCHANGED <<launched, flow, scope>>
  \/ /\ scope = "timer" /\ (flow = "unwinding" \/ phase = "trials")
     /\ Continue("destroy")

CleanupTimers ==
  /\ pc = "cleanup.timers"
  /\ CleanupProfiler
  /\ flags' = flags \ {"m_profiler_started", "m_cpu_timer_started",
                       "m_cuda_timer_started", "m_gpu_frequency_cleanup_armed",
                       "sync_armed"}
  /\ AfterCleanup
  /\ UNCHANGED <<settings, device, ran>>

-----------------------------------------------------------------------------
Start == \/ StartFlush \/ StartSync \/ StartCpuTimer \/ StartBlock
         \/ StartFrequency \/ StartProfiler \/ StartCudaTimer

Stop == \/ StopCudaTimer \/ StopFrequency \/ StopUnblock \/ StopCheckTimeout
        \/ StopSync \/ StopProfiler \/ StopCpuTimer

Cleanup == CleanupUnblock \/ CleanupSync \/ CleanupTimers

Launcher == \/ LauncherLaunch \/ LauncherReturn \/ LauncherAfterTimer
            \/ LauncherThrow

Measure == \/ WarmupBlock \/ WarmupUnblock \/ WarmupCheck \/ Launch
           \/ AfterLaunch \/ Destroy

Host == Measure \/ Start \/ Launcher \/ Stop \/ Cleanup

\* The history of the work that leaves the stream in this step
Complete ==
  ran' = ran \cup {Head(stream)}
             \cup (IF Head(stream) = "event_start" /\ ~Queued("event_stop")
                   THEN {"early"} ELSE {})

\* The device runs on its own; the history notes what it completes.
DeviceCompletes ==
  /\ RunHead \/ KernelReturn
  /\ Complete
  /\ UNCHANGED <<settings, pc, control, guards>>

KernelAdvances ==
  /\ KernelStart \/ KernelTimeOut \/ KernelLeaveLoop \/ KernelReport
  /\ UNCHANGED <<settings, pc, control, guards, ran>>

Device == DeviceCompletes \/ KernelAdvances

Terminated == pc = "destroyed" /\ Drained /\ UNCHANGED vars

Next == Host \/ Device \/ Terminated

\* A step of the host in which no call fails and no launcher throws
HostReturns == Host /\ flow' = flow

\* The operating system runs the host's thread and the GPU executes what is
\* queued on it; nothing else is assumed.  No call and no launcher is obliged to
\* throw, so a host that waits for the stream cannot be rescued by an
\* exception; only the checks of the timeout flag throw as the flag tells.
Fairness ==
  /\ WF_vars(HostReturns) /\ WF_vars(WarmupCheck \/ StopCheckTimeout)
  /\ WF_vars(Device)

Spec == Init /\ [][Next]_vars

FairSpec == Spec /\ Fairness
-----------------------------------------------------------------------------
PCs == {"warmup.block", "warmup.unblock", "warmup.check", "launch", "record",
        "destroy", "destroyed", "flush_device_l2", "start.sync",
        "cpu_timer_start", "block_stream", "gpu_frequency_start",
        "profiler_start", "cuda_timer_start", "launcher", "after_timer",
        "cuda_timer_stop", "gpu_frequency_stop", "unblock_stream",
        "unblock.check", "stop.sync", "profiler_stop", "cpu_timer_stop",
        "cleanup", "cleanup.sync", "cleanup.timers"}

\* Every variable keeps to its domain.
TypeOK ==
  /\ DeviceTypeOK
  /\ config \in Configs
  /\ timeout = config.timeout
  /\ pc \in PCs
  /\ phase \in {"warmup", "trials"}
  /\ launches \in 0..MaxLaunches
  /\ launched \in Nat
  /\ flow \in {"normal", "unwinding"}
  /\ scope \in {"guard", "timer"}
  /\ flags \subseteq Flags
  /\ profiler \in {"on", "off"}
  /\ ran \subseteq Work \cup {"early"}

\* Whatever threw and whenever, NVBench itself never waits for a stream that
\* only it can release: where it synchronizes (start, stop, cleanup), no
\* blocking kernel is queued or the host's flag is raised already.
NeverAwaitsItself ==
  \/ pc \in {"start.sync", "stop.sync"}
  \/ pc = "cleanup.sync" /\ Up("sync_armed")
  => m_host_flag = 1 \/ ~Queued("block_stream")

\* Work at place i of the stream that will still use memory the measurement
\* registered.  A blocking kernel past its report only has to return.
WillAccess(i) ==
  stream[i] \in Owned /\ ~(i = 1 /\ kernel = "returning")

\* When the measurement is destroyed, and its host memory unregistered, every
\* launch has drained what it queued on that memory, whatever it threw.  The
\* one kernel that can be left is the unguarded one of run_warmup, released
\* before it is abandoned by an exception that precedes the first start().
LaunchesDrained ==
  pc \in {"destroy", "destroyed"} =>
    \A i \in 1..Len(stream) : WillAccess(i) =>
      /\ i = 1 /\ stream[i] = "block_stream" /\ m_host_flag = 1
      /\ flow = "unwinding" /\ phase = "warmup" /\ ran = {}

\* The host resets the blocking kernel's flags (block) and the timestamps
\* (record) only when no earlier work of that kind is queued: an unblock is
\* never lost to a second block, a timestamp never lands in a reset buffer.
NoResetUnderfoot ==
  \A i, j \in 1..Len(stream) :
    stream[i] = stream[j] /\ stream[i] \in Owned => i = j

\* What the blocking kernel is for: when a blocked trial reaches its record,
\* event_start did not complete before the launches and event_stop were
\* queued, so no submission latency is in the time.  A launcher that
\* synchronizes, or a timeout, leads to an exception instead.
TimedWorkWasHeldBack ==
  pc = "record" /\ ~disable_blocking_kernel => "early" \notin ran

\* The events and the timestamps a record reads are those of its launch: all
\* of them completed since start().
SampleComplete ==
  pc \in {"after_timer", "record"} =>
    /\ {"event_start", "event_stop"} \subseteq ran
    /\ check_throttling => {"timestamps_start", "timestamps_stop"} \subseteq ran

\* Between launches, and when the measurement is gone, nothing is left
\* started or armed: not the profiler, not a timer, not a cleanup that would
\* touch a later measurement's stream.
NothingLeftStarted ==
  pc \in {"launch", "after_timer", "record", "destroy", "destroyed"} =>
    profiler = "off" /\ flags = {}

\* Every measurement comes to its end, through an exception or not, when the
\* timeout is on or the launcher does not synchronize.
Ends == timeout = "finite" \/ ~config.syncs => <>(pc = "destroyed")
=============================================================================
