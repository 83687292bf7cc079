------------------------------- MODULE HotBatch -------------------------------
(***************************************************************************)
(* The batched ("hot") measurement as a host program over a stream:        *)
(* measure_hot::run_warmup and run_trials, the stream_cleanup_guard that   *)
(* answers for the stream when a call or the benchmark throws, and the     *)
(* batches that are held back by the blocking kernel until their first     *)
(* launches are queued.  How many launches a batch has, and when the       *)
(* batches stop, is module HotPrediction's: here a batch has any size.     *)
(***************************************************************************)
EXTENDS BlockingKernel

CONSTANTS
  Configs,     \* the settings a measurement may have
  MayThrow,    \* the calls that may fail
  MaxBatch,    \* bound: launches in one batch
  MaxBatches   \* bound: batches in one measurement

\* disable_blocking_kernel: the state's setting.  timeout: the sign of
\* blocking_kernel_timeout.  kernels: how many kernels the launcher queues per
\* launch.  syncs: it synchronizes the stream.
ConfigType == [disable_blocking_kernel : BOOLEAN,
               timeout : {"finite", "negative"},
               kernels : Nat, syncs : BOOLEAN]

Calls == {"block_stream", "cuda_timer_start", "launcher", "cuda_timer_stop",
          "sync_stream", "check_skip_time", "get_duration"}

ASSUME ConfigAssumption ==
  /\ Configs \subseteq ConfigType
  /\ MayThrow \subseteq Calls
  /\ MaxBatch \in Nat \ {0}
  /\ MaxBatches \in Nat \ {0}

VARIABLES
  config,
  pc,               \* the host's next step
  phase,            \* run_warmup or run_trials
  batch_size,
  launches,         \* launches of this batch that have returned
  queued,           \* kernels the current launch has queued
  batches,          \* batches begun
  armed,            \* the flags of the cleanup guard that are set
  m_total_samples,
  completed,        \* history: kernels of the benchmark run since run_warmup
  early             \* history: did event_start of this batch complete before
                    \* the launches it should wait for: "yes" or "no"

settings == <<config, timeout>>
progress == <<phase, batch_size, launches, queued, batches, m_total_samples>>
history == <<completed, early>>
vars == <<settings, device, pc, progress, armed, history>>

kernelState == <<m_host_flag, m_host_timeout_flag, kernel, now>>


-----------------------------------------------------------------------------
blocked_launches == IF batch_size < 2 THEN batch_size ELSE 2

\* The member: the constructor, unlike that of the cold measurement, does not
\* ask the state.
m_disable_blocking_kernel == FALSE

HeldBack == phase = "trials" /\ ~m_disable_blocking_kernel

\* The warmup is one launch in a guard of its own.
Init ==
  /\ config \in Configs
  /\ timeout = config.timeout
  /\ DeviceInit
  /\ phase = "warmup" /\ pc = "cuda_timer_start"
  /\ batch_size = 1 /\ launches = 0 /\ queued = 0 /\ batches = 0
  /\ armed = {"m_sync_armed"}
  /\ m_total_samples = 0
  /\ completed = 0 /\ early = "no"

\* The guard's destructor runs.
Throw(call) == call \in MayThrow /\ pc' = "~guard" /\ UNCHANGED <<progress, armed>>

Continue(next) == pc' = next /\ UNCHANGED <<progress, armed>>

\* A call that queues work and may fail, before or after it queued it
Enqueue(call, work, next) ==
  /\ UNCHANGED kernelState
  /\ \/ Submit(work) /\ Continue(next)
     \/ (Submit(work) \/ UNCHANGED stream) /\ Throw(call)

-----------------------------------------------------------------------------
(* run_trials: one batch *)

Sizes == 1..MaxBatch

\* The guard is constructed; a batch has at least one launch.
BeginBatch ==
  /\ pc = "batch"
  /\ batches < MaxBatches
  /\ batch_size' \in Sizes
  /\ batches' = batches + 1
  /\ launches' = 0
  /\ armed' = {"m_sync_armed"}
  /\ early' = "no"
  /\ pc' = IF m_disable_blocking_kernel THEN "cuda_timer_start" ELSE "block"
  /\ UNCHANGED <<settings, device, phase, queued, m_total_samples, completed>>

\* stream_cleanup_guard::block_stream arms the cleanup first.
GuardBlock ==
  /\ pc = "block"
  /\ armed' = armed \cup {"m_unblock_armed"}
  /\ \/ Block /\ pc' = "cuda_timer_start"
     \/ /\ "block_stream" \in MayThrow /\ pc' = "~guard"
        /\ Block \/ UNCHANGED <<stream, m_host_flag, m_host_timeout_flag>>
  /\ UNCHANGED <<settings, kernel, now, progress, history>>

TimerStart ==
  /\ pc = "cuda_timer_start"
  /\ Enqueue("cuda_timer_start", "event_start", "launch")
  /\ UNCHANGED <<settings, history>>

\* The launcher queues its kernels ...
LaunchKernel ==
  /\ pc = "launch"
  /\ queued < config.kernels
  /\ Submit("launch")
  /\ queued' = queued + 1
  /\ UNCHANGED <<settings, kernelState, pc, phase, batch_size, launches,
                 batches, m_total_samples, armed, history>>

\* ... and returns.  The loops over blocked_launches and unblocked_launches.
LaunchReturn ==
  /\ pc = "launch"
  /\ queued = config.kernels
  /\ config.syncs => Drained
  /\ launches' = launches + 1
  /\ queued' = 0
  /\ pc' = IF HeldBack /\ launches' = blocked_launches THEN "unblock"
           ELSE IF launches' = batch_size THEN "cuda_timer_stop" ELSE "launch"
  /\ UNCHANGED <<settings, device, phase, batch_size, batches, m_total_samples,
                 armed, history>>

LaunchThrow ==
  /\ pc = "launch"
  /\ Throw("launcher")
  /\ UNCHANGED <<settings, device, history>>

\* stream_cleanup_guard::unblock: blocking_kernel::unblock raises the flag ...
GuardUnblock ==
  /\ pc = "unblock"
  /\ IF "m_unblock_armed" \in armed
     THEN UnblockNoexcept /\ Continue("unblock.check")
     ELSE UNCHANGED m_host_flag /\ Continue("unblocked")
  /\ UNCHANGED <<settings, stream, m_host_timeout_flag, kernel, now, history>>

\* ... and throws when the kernel gave up.
GuardCheck ==
  /\ pc = "unblock.check"
  /\ IF TimeoutDetected
     THEN pc' = "~guard" /\ UNCHANGED armed
     ELSE pc' = "unblocked" /\ armed' = armed \ {"m_unblock_armed"}
  /\ UNCHANGED <<settings, device, progress, history>>

Unblocked ==
  /\ pc = "unblocked"
  /\ Continue(IF launches = batch_size THEN "cuda_timer_stop" ELSE "launch")
  /\ UNCHANGED <<settings, device, history>>

TimerStop ==
  /\ pc = "cuda_timer_stop"
  /\ Enqueue("cuda_timer_stop", "event_stop", "sync_stream")
  /\ UNCHANGED <<settings, history>>

\* sync_stream, then cleanup.release()
SyncAndRelease ==
  /\ pc = "sync_stream"
  /\ Drained
  /\ \/ pc' = "account" /\ armed' = {} /\ UNCHANGED progress
     \/ Throw("sync_stream")
  /\ UNCHANGED <<settings, device, history>>

\* No guard is left: what throws here destroys the measurement at once.
\* Warmup: check_skip_time.  Trials: the batch is counted, and the loop goes
\* on or stops.
Account ==
  /\ pc = "account"
  /\ IF phase = "warmup"
     THEN /\ phase' = "trials"
          /\ pc' = "batch"
          /\ UNCHANGED m_total_samples
     ELSE /\ m_total_samples' = m_total_samples + batch_size
          /\ pc' \in {"batch", "destroy"}
          /\ batches = MaxBatches => pc' = "destroy"
          /\ UNCHANGED phase
  /\ completed' = IF phase = "warmup" THEN 0 ELSE completed
  /\ UNCHANGED <<settings, device, batch_size, launches, queued, batches, armed,
                 early>>

AccountThrow ==
  /\ pc = "account"
  /\ IF phase = "warmup" THEN {"get_duration", "check_skip_time"} \cap MayThrow # {}
                         ELSE "get_duration" \in MayThrow
  /\ Continue("destroy")
  /\ UNCHANGED <<settings, device, history>>

Destroy ==
  /\ pc = "destroy"
  /\ Continue("destroyed")
  /\ UNCHANGED <<settings, device, history>>

-----------------------------------------------------------------------------
(* ~stream_cleanup_guard *)

CleanupUnblock ==
  /\ pc = "~guard"
  /\ IF "m_unblock_armed" \in armed THEN UnblockNoexcept
                                    ELSE UNCHANGED m_host_flag
  /\ Continue("~guard.sync")
  /\ UNCHANGED <<settings, stream, m_host_timeout_flag, kernel, now, history>>

SyncIfArmed == "m_sync_armed" \in armed => Drained

CleanupSync ==
  /\ pc = "~guard.sync"
  /\ SyncIfArmed
  /\ Continue("destroy")
  /\ UNCHANGED <<settings, device, history>>

-----------------------------------------------------------------------------
Batch == \/ BeginBatch \/ GuardBlock \/ TimerStart \/ LaunchKernel
         \/ LaunchReturn \/ LaunchThrow \/ GuardUnblock \/ GuardCheck
         \/ Unblocked \/ TimerStop \/ SyncAndRelease \/ Account
         \/ AccountThrow

Host == Batch \/ CleanupUnblock \/ CleanupSync \/ Destroy

\* The history of the work that leaves the stream in this step.  An event
\* that starts a held-back batch has to wait for the blocked launches.
Complete ==
  /\ completed' = IF Head(stream) = "launch" THEN completed + 1 ELSE completed
  /\ early' = IF /\ Head(stream) = "event_start"
                 /\ HeldBack /\ launches < blocked_launches
              THEN "yes" ELSE early

DeviceCompletes ==
  /\ RunHead \/ KernelReturn
  /\ Complete
  /\ UNCHANGED <<settings, pc, progress, armed>>

KernelAdvances ==
  /\ KernelStart \/ KernelTimeOut \/ KernelLeaveLoop \/ KernelReport
  /\ UNCHANGED <<settings, pc, progress, armed, history>>

Device == DeviceCompletes \/ KernelAdvances

Terminated == pc = "destroyed" /\ UNCHANGED vars

Next == Host \/ Device \/ Terminated

\* A step of the host in which no call fails and no launcher throws
HostReturns == Host /\ pc' # "~guard"

\* As in ColdLaunch: the host's thread runs, the GPU executes what is queued, and
\* nothing is obliged to throw but unblock() by the timeout flag.
Fairness == WF_vars(HostReturns) /\ WF_vars(GuardCheck) /\ WF_vars(Device)

Spec == Init /\ [][Next]_vars

FairSpec == Spec /\ Fairness
-----------------------------------------------------------------------------
\* A batch is counted only when all of it, and nothing else since the last one,
\* has run, and when none of its blocked launches started before they were all
\* queued; a timeout, a launcher that synchronizes or a failing call abandons
\* the batch instead.
CountedBatchIsSound ==
  pc = "account" =>
    /\ early = "no"
    /\ phase = "trials" => completed = (m_total_samples + batch_size) * config.kernels

\* The timeout is on, or the launcher does not synchronize and what it queues
\* behind the blocking kernel fits the stream's queue.
Unhindered ==
  \/ timeout = "finite"
  \/ ~config.syncs /\ 2 + 2 * config.kernels <= QueueDepth

\* Every hot measurement that can proceed comes to its end, through an
\* exception or not.
Ends == Unhindered => <>(pc = "destroyed")
=============================================================================
