-------------------------- MODULE ColdLaunchProofs --------------------------
(***************************************************************************)
(* The safety of the cold measurement, for every set of settings, of calls *)
(* that may fail, queue depth and number of launches.  The inductive       *)
(* invariant says, for every place the host can stand at, which cleanup is *)
(* armed there (Guards), what of a launch's work the stream may still hold *)
(* and what answers for it (BlockGuarded, StampsGuarded, EventsGuarded,    *)
(* Emptied), where in the stream that work stands (Order), how far the     *)
(* blocking kernel is (Kernel), what it holds back (Held) and what of the  *)
(* launch is complete (Completes).                                         *)
(***************************************************************************)
EXTENDS ColdLaunch, SequenceTheorems, TLAPS

\* From the first call that must be undone to the last
Starting == {"block_stream", "gpu_frequency_start", "profiler_start",
             "cuda_timer_start"}
Stopping == {"cuda_timer_stop", "gpu_frequency_stop", "unblock_stream",
             "unblock.check", "stop.sync", "profiler_stop", "cpu_timer_stop"}
Timing == Starting \cup {"launcher"} \cup Stopping
\* Where a blocked trial is held back
Blocked == {"gpu_frequency_start", "profiler_start", "cuda_timer_start",
            "launcher", "cuda_timer_stop", "gpu_frequency_stop",
            "unblock_stream"}
CleaningUp == {"cleanup", "cleanup.sync", "cleanup.timers"}
BeforeStart == {"warmup.unblock", "warmup.check", "launch", "flush_device_l2",
                "start.sync"}

\* Which flags may be up at each place of the host, and which must be
Guards ==
  /\ flow = "unwinding" => pc \in CleaningUp \cup {"destroy", "destroyed"}
  /\ profiler = "on" <=> Up("m_profiler_started")
  /\ Up("m_cpu_timer_started") => pc \in Timing \cup CleaningUp
  /\ Up("m_profiler_started") =>
       pc \in {"cuda_timer_start", "launcher", "cuda_timer_stop",
               "gpu_frequency_stop", "unblock_stream", "unblock.check",
               "stop.sync", "profiler_stop"} \cup CleaningUp
  /\ Up("m_gpu_frequency_cleanup_armed") =>
       pc \in {"profiler_start", "cuda_timer_start", "launcher",
               "cuda_timer_stop", "gpu_frequency_stop"} \cup CleaningUp
  /\ Up("m_cuda_timer_started") =>
       pc \in {"launcher", "cuda_timer_stop"} \cup CleaningUp
  /\ Up("m_stream_unblock_armed") =>
       pc \in {"block_stream", "unblock.check", "cleanup"} \cup Blocked
  /\ Up("sync_armed") => pc \in {"cleanup.sync", "cleanup.timers"}
  /\ pc \in Blocked =>
       (Up("m_stream_unblock_armed") <=> ~disable_blocking_kernel)
  /\ pc \in {"block_stream", "unblock.check"} =>
       Up("m_stream_unblock_armed") /\ ~disable_blocking_kernel
  /\ pc \in {"profiler_start", "cuda_timer_start", "launcher",
             "cuda_timer_stop", "gpu_frequency_stop"}
       => (Up("m_gpu_frequency_cleanup_armed") <=> check_throttling)
  /\ pc \in {"launcher", "cuda_timer_stop"} => Up("m_cuda_timer_started")
  /\ pc \in {"warmup.block", "warmup.unblock", "warmup.check"} =>
       phase = "warmup"

\* The warmup's blocking kernel, released but abandoned by an exception
Abandoned ==
  flow = "unwinding" /\ phase = "warmup" /\ ran = {} /\ m_host_flag = 1

\* Where the blocking kernel may be queued, and who answers for it there
BlockGuarded == Queued("block_stream") =>
  /\ ran = {}
  /\ \/ pc = "warmup.unblock"
     \/ pc \in BeforeStart /\ phase = "warmup" /\ m_host_flag = 1
     \/ pc \in Timing /\ Up("m_stream_unblock_armed")
     \/ pc = "stop.sync" /\ m_host_flag = 1
     \/ /\ pc = "cleanup" /\ SyncNeeded
        /\ Up("m_stream_unblock_armed") \/ m_host_flag = 1
     \/ pc = "cleanup.sync" /\ Up("sync_armed") /\ m_host_flag = 1
     \/ pc \in CleaningUp \cup {"destroy", "destroyed"} /\ Abandoned

\* The same of the timestamp kernels
StampsGuarded ==
  /\ Queued("timestamps_start") =>
       \/ pc \in Timing /\ Up("m_gpu_frequency_cleanup_armed")
       \/ pc \in {"unblock_stream", "unblock.check", "stop.sync"}
       \/ pc = "cleanup" /\ SyncNeeded
       \/ pc = "cleanup.sync" /\ Up("sync_armed")
  /\ Queued("timestamps_stop") =>
       \/ pc \in {"unblock_stream", "unblock.check", "stop.sync"}
       \/ pc = "cleanup" /\ SyncNeeded
       \/ pc = "cleanup.sync" /\ Up("sync_armed")

EventsGuarded ==
  /\ Queued("event_start") =>
       \/ pc \in {"launcher", "cuda_timer_stop", "gpu_frequency_stop",
                  "unblock_stream", "unblock.check", "stop.sync"}
       \/ flow = "unwinding"
  /\ Queued("event_stop") =>
       \/ pc \in {"gpu_frequency_stop", "unblock_stream", "unblock.check",
                  "stop.sync"}
       \/ flow = "unwinding"
  /\ pc \in {"gpu_frequency_stop", "unblock_stream", "unblock.check",
             "stop.sync"}
       => (Queued("event_start") => Queued("event_stop"))

\* stop() and start() leave no work behind where they have synchronized.
Emptied ==
  /\ pc \in {"warmup.block", "cpu_timer_start", "block_stream",
             "profiler_stop", "cpu_timer_stop"} => Drained
  /\ pc \in {"warmup.block", "cpu_timer_start", "block_stream"} => ran = {}

Order ==
  /\ \A i \in 1..Len(stream) : stream[i] = "block_stream" => i = 1
  /\ NoResetUnderfoot
  /\ \A i, j \in 1..Len(stream) :
       stream[i] = "event_start" /\ stream[j] = "event_stop" => i < j

\* Until the host releases a blocked trial, the kernel holds the stream unless
\* it has reported.
Held ==
  /\ pc = "unblock.check" => m_host_flag = 1
  /\ pc \in Blocked /\ ~disable_blocking_kernel
       => m_host_flag = 0 /\ (m_host_timeout_flag = 1 \/ Queued("block_stream"))
  /\ /\ pc \in Timing \cup {"after_timer", "record"}
     /\ ~disable_blocking_kernel
     /\ "early" \in ran
     => /\ m_host_timeout_flag = 1
        /\ pc \notin {"stop.sync", "profiler_stop", "cpu_timer_stop",
                     "after_timer", "record"}

\* What a launch's record reads is queued or complete.
InFlight(w) == Queued(w) \/ w \in ran

Completes ==
  /\ pc \in {"launcher"} \cup Stopping \cup {"after_timer", "record"} =>
       InFlight("event_start")
  /\ pc \in (Stopping \ {"cuda_timer_stop"}) \cup {"after_timer", "record"} =>
       InFlight("event_stop")
  /\ check_throttling =>
       /\ pc \in {"profiler_start", "cuda_timer_start", "launcher"}
                 \cup Stopping \cup {"after_timer", "record"}
            => InFlight("timestamps_start")
       /\ pc \in (Stopping \ {"cuda_timer_stop", "gpu_frequency_stop"})
                 \cup {"after_timer", "record"}
            => InFlight("timestamps_stop")
  /\ pc \in {"after_timer", "record"} =>
       \A w \in Work \ {"launch"} : ~Queued(w)

\* How the blocking kernel stands to the flags
Kernel ==
  /\ kernel # "none" => ~Drained /\ stream[1] = "block_stream"
  /\ kernel = "left" /\ m_host_flag = 0 => now = "past"
  /\ kernel = "returning" /\ m_host_flag = 0 => m_host_timeout_flag = 1

IInv ==
  /\ TypeOK
  /\ Guards
  /\ BlockGuarded
  /\ StampsGuarded
  /\ EventsGuarded
  /\ Emptied
  /\ Order
  /\ Kernel
  /\ Held
  /\ Completes
-----------------------------------------------------------------------------
(* What the queue holds when work is submitted, runs or is drained. *)

LEMMA ContentsWhenSubmitted ==
  ASSUME stream \in Seq(Work), NEW w \in Work, stream' = Append(stream, w)
  PROVE  /\ stream' \in Seq(Work)
         /\ Contents' = Contents \cup {w}
         /\ Len(stream') = Len(stream) + 1
         /\ \A i \in 1..Len(stream) : stream'[i] = stream[i]
         /\ stream'[Len(stream) + 1] = w
  BY DEF Contents

LEMMA ContentsWhenRun ==
  ASSUME stream \in Seq(Work), stream # << >>, stream' = Tail(stream)
  PROVE  /\ stream' \in Seq(Work)
         /\ Head(stream) = stream[1]
         /\ Head(stream) \in Contents
         /\ Contents' \subseteq Contents
         /\ Contents \subseteq Contents' \cup {Head(stream)}
         /\ Len(stream) \in Nat \ {0}
         /\ Len(stream') = Len(stream) - 1
         /\ \A i \in 1..Len(stream') : stream'[i] = stream[i + 1]
  <1>1. /\ stream' \in Seq(Work)
        /\ Len(stream') = Len(stream) - 1
        /\ \A i \in 1..Len(stream') : stream'[i] = stream[i + 1]
    BY HeadTailProperties
  <1>2. Len(stream) \in Nat \ {0}
    BY EmptySeq
  <1>3. Head(stream) = stream[1]
    OBVIOUS
  <1>4. Head(stream) \in Contents
    BY <1>2, <1>3 DEF Contents
  <1>5. Contents' \subseteq Contents
    BY <1>1, <1>2 DEF Contents
  <1>6. Contents \subseteq Contents' \cup {Head(stream)}
    <2>1. SUFFICES ASSUME NEW i \in 1..Len(stream), i # 1
                   PROVE  stream[i] \in Contents'
      BY <1>3 DEF Contents
    <2>2. i - 1 \in 1..Len(stream') /\ stream'[i - 1] = stream[i]
      BY <1>1, <1>2, <2>1
    <2>3. QED  BY <2>2 DEF Contents
  <1>7. QED  BY <1>1, <1>2, <1>3, <1>4, <1>5, <1>6

LEMMA ContentsWhenDrained ==
  ASSUME stream \in Seq(Work)
  PROVE  stream = << >> <=> Contents = {}
  BY DEF Contents

LEMMA ContentsAreWork ==
  ASSUME stream \in Seq(Work)
  PROVE  Contents \subseteq Work
  BY DEF Contents

LEMMA QueueKept == UNCHANGED stream => Contents' = Contents
  BY DEF Contents
-----------------------------------------------------------------------------
(* Abbreviations the proofs below expand everywhere *)

USE DEF settings, device, control, guards, vars, kernelState,
        Continue, Unwind, ThrowInTimer, ThrowInLoop

-----------------------------------------------------------------------------
(* The queue at the steps of the two programs *)

LEMMA QueueSubmit ==
  ASSUME TypeOK
  PROVE  /\ Submit("memset_l2") => Contents' = Contents \cup {"memset_l2"}
         /\ Submit("block_stream")
              => Contents' = Contents \cup {"block_stream"}
         /\ Submit("timestamps_start")
              => Contents' = Contents \cup {"timestamps_start"}
         /\ Submit("timestamps_stop")
              => Contents' = Contents \cup {"timestamps_stop"}
         /\ Submit("event_start") => Contents' = Contents \cup {"event_start"}
         /\ Submit("event_stop") => Contents' = Contents \cup {"event_stop"}
         /\ Submit("launch") => Contents' = Contents \cup {"launch"}
  <1>1. stream \in Seq(Work)
    BY DEF TypeOK, DeviceTypeOK
  <1>2. \A w \in Work : Submit(w) => Contents' = Contents \cup {w}
    BY <1>1, ContentsWhenSubmitted DEF Submit
  <1>3. QED  BY <1>2 DEF Work

LEMMA QueueEmpty == ASSUME TypeOK PROVE Drained <=> Contents = {}
  BY ContentsWhenDrained DEF TypeOK, DeviceTypeOK, Drained

\* What leaves the stream, and in which order
LEMMA QueueCompletes ==
  ASSUME TypeOK, Order, Kernel, DeviceCompletes
  PROVE  /\ Head(stream) \in Contents
         /\ Contents' \subseteq Contents
         /\ Contents \subseteq Contents' \cup {Head(stream)}
         /\ Head(stream) \in ran'
         /\ ran' \subseteq ran \cup {Head(stream), "early"}
         /\ ran \subseteq ran'
         /\ ~Queued("block_stream")'
         /\ Queued("block_stream") => Head(stream) = "block_stream"
         /\ Head(stream) = "block_stream" => kernel = "returning"
         /\ Head(stream) = "event_stop" => ~Queued("event_start")
         /\ "early" \in ran' => \/ "early" \in ran
                                \/ /\ Head(stream) = "event_start"
                                   /\ ~Queued("event_stop")
         /\ "early" # Head(stream)
         /\ UNCHANGED <<settings, pc, control, guards, m_host_flag,
                        m_host_timeout_flag, now>>
  <1>1. /\ stream \in Seq(Work) /\ stream # << >> /\ stream' = Tail(stream)
        /\ UNCHANGED <<settings, pc, control, guards, m_host_flag,
                        m_host_timeout_flag, now>>
        /\ Head(stream) = "block_stream" => kernel = "returning"
    BY DEF TypeOK, DeviceTypeOK, DeviceCompletes, RunHead, KernelReturn,
           Drained, Kernel
  <1>2. /\ Head(stream) = stream[1]
        /\ Head(stream) \in Contents
        /\ Contents' \subseteq Contents
        /\ Contents \subseteq Contents' \cup {Head(stream)}
        /\ Len(stream) \in Nat \ {0}
        /\ Len(stream') = Len(stream) - 1
        /\ \A i \in 1..Len(stream') : stream'[i] = stream[i + 1]
    BY <1>1, ContentsWhenRun
  <1>3. ~Queued("block_stream")'
    <2>1. SUFFICES ASSUME NEW i \in 1..Len(stream'),
                          stream'[i] = "block_stream"
                   PROVE  FALSE
      BY DEF Queued, Contents
    <2>2. /\ i + 1 \in 1..Len(stream) /\ i + 1 # 1
          /\ stream[i + 1] = "block_stream"
      BY <1>2, <2>1
    <2>3. QED  BY <2>2 DEF Order
  <1>4. Queued("block_stream") => Head(stream) = "block_stream"
    BY <1>2 DEF Order, Queued, Contents
  <1>5. Head(stream) = "event_stop" => ~Queued("event_start")
    <2>1. SUFFICES ASSUME stream[1] = "event_stop", NEW i \in 1..Len(stream),
                          stream[i] = "event_start"
                   PROVE  FALSE
      BY <1>2 DEF Queued, Contents
    <2>2. 1 \in 1..Len(stream)
      BY <1>2
    <2>3. i < 1
      BY <2>1, <2>2 DEF Order
    <2>4. QED  BY <2>3
  <1>6. Head(stream) \in Work
    BY <1>1, <1>2, ContentsAreWork
  <1>7. "early" # Head(stream)
    BY <1>6 DEF Work
  <1>8. /\ Head(stream) \in ran'
        /\ ran' \subseteq ran \cup {Head(stream), "early"}
        /\ ran \subseteq ran'
        /\ "early" \in ran' => \/ "early" \in ran
                               \/ /\ Head(stream) = "event_start"
                                  /\ ~Queued("event_stop")
    BY <1>7 DEF DeviceCompletes, Complete
  <1>9. QED  BY <1>1, <1>2, <1>3, <1>4, <1>5, <1>7, <1>8

LEMMA QueueAdvances ==
  KernelAdvances => UNCHANGED <<settings, pc, control, guards, ran, stream,
                                m_host_flag>>
                    /\ m_host_timeout_flag' \in {m_host_timeout_flag, 1}
  BY DEF KernelAdvances, KernelStart, KernelTimeOut, KernelLeaveLoop,
         KernelReport

-----------------------------------------------------------------------------
(* Typing *)

LEMMA TypingStep == TypeOK /\ Kernel /\ [Next]_vars => TypeOK'
  <1> SUFFICES ASSUME TypeOK, Kernel, [Next]_vars PROVE TypeOK'
    OBVIOUS
  <1> USE DEF TypeOK, DeviceTypeOK, PCs, Flags, Set, Clear
  <1>w. \A w \in Work : Append(stream, w) \in Seq(Work)
    OBVIOUS
  <1>e. /\ {"memset_l2", "block_stream", "launch"} \subseteq Work
        /\ {"timestamps_start", "timestamps_stop"} \subseteq Work
        /\ {"event_start", "event_stop"} \subseteq Work
    BY DEF Work
  <1>1. CASE WarmupBlock
    BY <1>w, <1>e, <1>1 DEF WarmupBlock, Block, Submit
  <1>2. CASE WarmupUnblock
    BY <1>2 DEF WarmupUnblock, UnblockNoexcept
  <1>3. CASE WarmupCheck
    BY <1>3 DEF WarmupCheck
  <1>4. CASE Launch
    BY <1>w, <1>e, ConfigAssumption, <1>4 DEF Launch, Submit
  <1>5. CASE AfterLaunch
    BY <1>5 DEF AfterLaunch
  <1>6. CASE Destroy
    BY <1>6 DEF Destroy
  <1>7. CASE StartFlush
    BY <1>w, <1>e, <1>7 DEF StartFlush, Enqueue, Submit
  <1>8. CASE StartSync
    BY <1>8 DEF StartSync
  <1>9. CASE StartCpuTimer
    BY <1>9 DEF StartCpuTimer
  <1>10. CASE StartBlock
    BY <1>w, <1>e, <1>10 DEF StartBlock, Block, Submit
  <1>11. CASE StartFrequency
    BY <1>w, <1>e, <1>11 DEF StartFrequency, Enqueue, Submit, StartBuffer
  <1>12. CASE StartProfiler
    BY <1>12 DEF StartProfiler
  <1>13. CASE StartCudaTimer
    BY <1>w, <1>e, <1>13 DEF StartCudaTimer, Enqueue, Submit
  <1>14. CASE LauncherLaunch
    BY <1>w, <1>e, <1>14 DEF LauncherLaunch, Submit
  <1>15. CASE LauncherReturn
    BY <1>15 DEF LauncherReturn
  <1>16. CASE LauncherAfterTimer
    BY <1>w, <1>e, <1>16 DEF LauncherAfterTimer, Submit
  <1>17. CASE LauncherThrow
    BY <1>17 DEF LauncherThrow
  <1>18. CASE StopCudaTimer
    BY <1>w, <1>e, <1>18 DEF StopCudaTimer, Enqueue, Submit
  <1>19. CASE StopFrequency
    BY <1>w, <1>e, <1>19 DEF StopFrequency, Enqueue, Submit
  <1>20. CASE StopUnblock
    BY <1>20 DEF StopUnblock, UnblockNoexcept
  <1>21. CASE StopCheckTimeout
    BY <1>21 DEF StopCheckTimeout
  <1>22. CASE StopSync
    BY <1>22 DEF StopSync
  <1>23. CASE StopProfiler
    BY <1>23 DEF StopProfiler
  <1>24. CASE StopCpuTimer
    BY <1>24 DEF StopCpuTimer
  <1>25. CASE CleanupUnblock
    BY <1>25 DEF CleanupUnblock, ReleaseIfArmed, UnblockNoexcept, SyncNeeded
  <1>26. CASE CleanupSync
    BY <1>26 DEF CleanupSync
  <1>27. CASE CleanupTimers
    BY ConfigAssumption, <1>27 DEF CleanupTimers, CleanupProfiler, AfterCleanup
  <1>28. CASE DeviceCompletes
    <2>1. /\ stream # << >> /\ stream' = Tail(stream)
          /\ UNCHANGED <<m_host_flag, m_host_timeout_flag, now>>
          /\ kernel' \in {kernel, "none"}
      BY <1>28 DEF DeviceCompletes, RunHead, KernelReturn, Drained, Kernel
    <2>2. stream' \in Seq(Work) /\ Head(stream) \in Work
      BY <2>1, HeadTailProperties
    <2>3. ran' \subseteq Work \cup {"early"}
      BY <1>28, <2>2 DEF DeviceCompletes, Complete
    <2>4. UNCHANGED <<settings, pc, control, guards>>
      BY <1>28 DEF DeviceCompletes
    <2>5. QED  BY <2>1, <2>2, <2>3, <2>4 DEF KernelSteps
  <1>29. CASE KernelAdvances
    BY <1>29 DEF KernelAdvances, KernelStart, KernelTimeOut, KernelLeaveLoop,
                 KernelReport, KernelSteps
  <1>30. CASE UNCHANGED vars
    BY <1>30
  <1>31. QED
    BY <1>1, <1>2, <1>3, <1>4, <1>5, <1>6, <1>7, <1>8, <1>9, <1>10, <1>11,
       <1>12, <1>13, <1>14, <1>15, <1>16, <1>17, <1>18, <1>19, <1>20, <1>21,
       <1>22, <1>23, <1>24, <1>25, <1>26, <1>27, <1>28, <1>29, <1>30 DEF
       Next, Host, Measure, Start, Launcher, Stop, Cleanup, Device,
       Terminated

LEMMA GuardsStep == TypeOK /\ Guards /\ [Next]_vars => Guards'
  <1> SUFFICES ASSUME TypeOK, Guards, [Next]_vars PROVE Guards'
    OBVIOUS
  <1> USE DEF Guards, Up, Set, Clear, Blocked, Timing, Starting, Stopping,
          CleaningUp, check_throttling, disable_blocking_kernel
  <1>1. CASE WarmupBlock
    BY <1>1 DEF WarmupBlock, Block
  <1>2. CASE WarmupUnblock
    BY <1>2 DEF WarmupUnblock, UnblockNoexcept
  <1>3. CASE WarmupCheck
    BY <1>3 DEF WarmupCheck
  <1>4. CASE Launch
    BY <1>4 DEF Launch
  <1>5. CASE AfterLaunch
    BY <1>5 DEF AfterLaunch
  <1>6. CASE Destroy
    BY <1>6 DEF Destroy
  <1>7. CASE StartFlush
    BY <1>7 DEF StartFlush, Enqueue
  <1>8. CASE StartSync
    BY <1>8 DEF StartSync
  <1>9. CASE StartCpuTimer
    BY <1>9 DEF StartCpuTimer
  <1>10. CASE StartBlock
    BY <1>10 DEF StartBlock, Block
  <1>11. CASE StartFrequency
    BY <1>11 DEF StartFrequency, Enqueue, StartBuffer
  <1>12. CASE StartProfiler
    BY <1>12 DEF StartProfiler
  <1>13. CASE StartCudaTimer
    <2>1. /\ pc = "cuda_timer_start" /\ UNCHANGED <<settings, profiler, ran>>
          /\ \/ /\ pc' = "launcher" /\ UNCHANGED control
                /\ flow' = "normal" => Set("m_cuda_timer_started")
             \/ Unwind("guard") /\ UNCHANGED flags
      BY <1>13 DEF StartCudaTimer, Enqueue
    <2>2. flow = "normal"
      BY <2>1 DEF TypeOK
    <2>3. QED  BY <2>1, <2>2
  <1>14. CASE LauncherLaunch
    BY <1>14 DEF LauncherLaunch
  <1>15. CASE LauncherReturn
    BY <1>15 DEF LauncherReturn
  <1>16. CASE LauncherAfterTimer
    BY <1>16 DEF LauncherAfterTimer
  <1>17. CASE LauncherThrow
    BY <1>17 DEF LauncherThrow
  <1>18. CASE StopCudaTimer
    <2>1. /\ pc = "cuda_timer_stop" /\ UNCHANGED <<settings, profiler, ran>>
          /\ \/ /\ pc' = "gpu_frequency_stop" /\ UNCHANGED control
                /\ flow' = "normal" => Clear("m_cuda_timer_started")
             \/ Unwind("guard") /\ UNCHANGED flags
      BY <1>18 DEF StopCudaTimer, Enqueue
    <2>2. flow = "normal"
      BY <2>1 DEF TypeOK
    <2>3. QED  BY <2>1, <2>2
  <1>19. CASE StopFrequency
    <2>1. /\ pc = "gpu_frequency_stop" /\ UNCHANGED <<settings, profiler, ran>>
          /\ \/ /\ pc' = "unblock_stream" /\ UNCHANGED control
                /\ flow' = "normal" => Clear("m_gpu_frequency_cleanup_armed")
             \/ Unwind("guard") /\ UNCHANGED flags
      BY <1>19 DEF StopFrequency, Enqueue
    <2>2. flow = "normal"
      BY <2>1 DEF TypeOK
    <2>3. QED  BY <2>1, <2>2
  <1>20. CASE StopUnblock
    BY <1>20 DEF StopUnblock, UnblockNoexcept
  <1>21. CASE StopCheckTimeout
    BY <1>21 DEF StopCheckTimeout
  <1>22. CASE StopSync
    BY <1>22 DEF StopSync
  <1>23. CASE StopProfiler
    BY <1>23 DEF StopProfiler
  <1>24. CASE StopCpuTimer
    BY <1>24 DEF StopCpuTimer
  <1>25. CASE CleanupUnblock
    BY <1>25 DEF CleanupUnblock, ReleaseIfArmed, UnblockNoexcept, SyncNeeded
  <1>26. CASE CleanupSync
    BY <1>26 DEF CleanupSync
  <1>27. CASE CleanupTimers
    BY <1>27 DEF CleanupTimers, CleanupProfiler, AfterCleanup
  <1>28. CASE DeviceCompletes
    BY <1>28 DEF DeviceCompletes
  <1>29. CASE KernelAdvances
    BY <1>29 DEF KernelAdvances, KernelStart, KernelTimeOut, KernelLeaveLoop,
                 KernelReport
  <1>30. CASE UNCHANGED vars
    BY <1>30
  <1>31. QED
    BY <1>1, <1>2, <1>3, <1>4, <1>5, <1>6, <1>7, <1>8, <1>9, <1>10, <1>11,
       <1>12, <1>13, <1>14, <1>15, <1>16, <1>17, <1>18, <1>19, <1>20, <1>21,
       <1>22, <1>23, <1>24, <1>25, <1>26, <1>27, <1>28, <1>29, <1>30 DEF
       Next, Host, Measure, Start, Launcher, Stop, Cleanup, Device,
       Terminated

(* What guards the work of a launch *)

LEMMA BlockGuardedStep ==
  TypeOK /\ Order /\ Kernel /\ Emptied /\ Guards /\ Held /\ BlockGuarded /\
    [Next]_vars => BlockGuarded'
  <1> SUFFICES ASSUME TypeOK, Order, Kernel, Emptied, Guards, Held,
                      BlockGuarded, [Next]_vars PROVE BlockGuarded'
    OBVIOUS
  <1> USE DEF BlockGuarded, Abandoned, BeforeStart, SyncNeeded, Queued, Up,
          Set, Clear, Blocked, Timing, Starting, Stopping, CleaningUp
  <1>1. CASE WarmupBlock
    BY <1>1, QueueSubmit DEF WarmupBlock, Block, Emptied, Guards
  <1>2. CASE WarmupUnblock
    BY <1>2, QueueKept DEF WarmupUnblock, UnblockNoexcept, Guards
  <1>3. CASE WarmupCheck
    BY <1>3, QueueKept DEF WarmupCheck, Guards
  <1>4. CASE Launch
    BY <1>4, QueueKept, QueueSubmit DEF Launch, Guards
  <1>5. CASE AfterLaunch
    BY <1>5, QueueKept DEF AfterLaunch, Guards
  <1>6. CASE Destroy
    BY <1>6, QueueKept DEF Destroy, Guards
  <1>7. CASE StartFlush
    BY <1>7, QueueKept, QueueSubmit DEF StartFlush, Enqueue, Guards
  <1>8. CASE StartSync
    BY <1>8, QueueKept, QueueEmpty DEF StartSync, Guards
  <1>9. CASE StartCpuTimer
    BY <1>9, QueueKept DEF StartCpuTimer, Guards
  <1>10. CASE StartBlock
    BY <1>10, QueueKept, QueueSubmit DEF StartBlock, Block, Emptied, Guards
  <1>11. CASE StartFrequency
    BY <1>11, QueueKept, QueueSubmit DEF StartFrequency, Enqueue,
       StartBuffer, Guards
  <1>12. CASE StartProfiler
    BY <1>12, QueueKept DEF StartProfiler, Guards
  <1>13. CASE StartCudaTimer
    BY <1>13, QueueKept, QueueSubmit DEF StartCudaTimer, Enqueue, Guards
  <1>14. CASE LauncherLaunch
    BY <1>14, QueueSubmit DEF LauncherLaunch, Guards
  <1>15. CASE LauncherReturn
    BY <1>15, QueueKept, QueueEmpty DEF LauncherReturn, Guards
  <1>16. CASE LauncherAfterTimer
    BY <1>16, QueueKept, QueueSubmit DEF LauncherAfterTimer, Guards
  <1>17. CASE LauncherThrow
    BY <1>17, QueueKept DEF LauncherThrow, Guards
  <1>18. CASE StopCudaTimer
    BY <1>18, QueueKept, QueueSubmit DEF StopCudaTimer, Enqueue, Guards
  <1>19. CASE StopFrequency
    BY <1>19, QueueKept, QueueSubmit DEF StopFrequency, Enqueue, Guards
  <1>20. CASE StopUnblock
    BY <1>20, QueueKept DEF StopUnblock, UnblockNoexcept, Guards
  <1>21. CASE StopCheckTimeout
    BY <1>21, QueueKept DEF StopCheckTimeout, Held, Guards
  <1>22. CASE StopSync
    BY <1>22, QueueKept, QueueEmpty DEF StopSync, Guards
  <1>23. CASE StopProfiler
    BY <1>23, QueueKept DEF StopProfiler, Guards
  <1>24. CASE StopCpuTimer
    BY <1>24, QueueKept DEF StopCpuTimer, Guards
  <1>25. CASE CleanupUnblock
    BY <1>25, QueueKept DEF CleanupUnblock, ReleaseIfArmed, UnblockNoexcept,
       SyncNeeded, Guards
  <1>26. CASE CleanupSync
    BY <1>26, QueueKept, QueueEmpty DEF CleanupSync, Guards
  <1>27. CASE CleanupTimers
    BY <1>27, QueueKept DEF CleanupTimers, CleanupProfiler, AfterCleanup,
       Guards
  <1>28. CASE DeviceCompletes
    BY <1>28, QueueCompletes
  <1>29. CASE KernelAdvances
    BY <1>29, QueueAdvances, QueueKept
  <1>30. CASE UNCHANGED vars
    BY <1>30, QueueKept DEF Guards
  <1>31. QED
    BY <1>1, <1>2, <1>3, <1>4, <1>5, <1>6, <1>7, <1>8, <1>9, <1>10, <1>11,
       <1>12, <1>13, <1>14, <1>15, <1>16, <1>17, <1>18, <1>19, <1>20, <1>21,
       <1>22, <1>23, <1>24, <1>25, <1>26, <1>27, <1>28, <1>29, <1>30 DEF
       Next, Host, Measure, Start, Launcher, Stop, Cleanup, Device,
       Terminated

LEMMA StampsGuardedStep ==
  TypeOK /\ Order /\ Kernel /\ Emptied /\ Guards /\ StampsGuarded /\
    [Next]_vars => StampsGuarded'
  <1> SUFFICES ASSUME TypeOK, Order, Kernel, Emptied, Guards, StampsGuarded,
                      [Next]_vars PROVE StampsGuarded'
    OBVIOUS
  <1> USE DEF StampsGuarded, SyncNeeded, Queued, Up, Set, Clear, Blocked,
          Timing, Starting, Stopping, CleaningUp
  <1>1. CASE WarmupBlock
    BY <1>1, QueueSubmit DEF WarmupBlock, Block, Guards
  <1>2. CASE WarmupUnblock
    BY <1>2, QueueKept DEF WarmupUnblock, UnblockNoexcept, Guards
  <1>3. CASE WarmupCheck
    BY <1>3, QueueKept DEF WarmupCheck, Guards
  <1>4. CASE Launch
    BY <1>4, QueueKept, QueueSubmit DEF Launch, Guards
  <1>5. CASE AfterLaunch
    BY <1>5, QueueKept DEF AfterLaunch, Guards
  <1>6. CASE Destroy
    BY <1>6, QueueKept DEF Destroy, Guards
  <1>7. CASE StartFlush
    BY <1>7, QueueKept, QueueSubmit DEF StartFlush, Enqueue, Guards
  <1>8. CASE StartSync
    BY <1>8, QueueKept, QueueEmpty DEF StartSync, Guards
  <1>9. CASE StartCpuTimer
    BY <1>9, QueueKept DEF StartCpuTimer, Guards
  <1>10. CASE StartBlock
    BY <1>10, QueueKept, QueueSubmit DEF StartBlock, Block, Guards
  <1>11. CASE StartFrequency
    BY <1>11, QueueKept, QueueSubmit DEF StartFrequency, Enqueue,
       StartBuffer, Guards
  <1>12. CASE StartProfiler
    BY <1>12, QueueKept DEF StartProfiler, Guards
  <1>13. CASE StartCudaTimer
    BY <1>13, QueueKept, QueueSubmit DEF StartCudaTimer, Enqueue, Guards
  <1>14. CASE LauncherLaunch
    BY <1>14, QueueSubmit DEF LauncherLaunch, Guards
  <1>15. CASE LauncherReturn
    BY <1>15, QueueKept, QueueEmpty DEF LauncherReturn, Guards
  <1>16. CASE LauncherAfterTimer
    BY <1>16, QueueKept, QueueSubmit DEF LauncherAfterTimer, Guards
  <1>17. CASE LauncherThrow
    BY <1>17, QueueKept DEF LauncherThrow, Guards
  <1>18. CASE StopCudaTimer
    BY <1>18, QueueKept, QueueSubmit DEF StopCudaTimer, Enqueue, Guards
  <1>19. CASE StopFrequency
    BY <1>19, QueueKept, QueueSubmit DEF StopFrequency, Enqueue, Guards
  <1>20. CASE StopUnblock
    BY <1>20, QueueKept DEF StopUnblock, UnblockNoexcept, Guards
  <1>21. CASE StopCheckTimeout
    BY <1>21, QueueKept DEF StopCheckTimeout, Guards
  <1>22. CASE StopSync
    BY <1>22, QueueKept, QueueEmpty DEF StopSync, Guards
  <1>23. CASE StopProfiler
    BY <1>23, QueueKept DEF StopProfiler, Guards
  <1>24. CASE StopCpuTimer
    BY <1>24, QueueKept DEF StopCpuTimer, Guards
  <1>25. CASE CleanupUnblock
    BY <1>25, QueueKept DEF CleanupUnblock, ReleaseIfArmed, UnblockNoexcept,
       SyncNeeded, Guards
  <1>26. CASE CleanupSync
    BY <1>26, QueueKept, QueueEmpty DEF CleanupSync, Guards
  <1>27. CASE CleanupTimers
    BY <1>27, QueueKept DEF CleanupTimers, CleanupProfiler, AfterCleanup,
       Guards
  <1>28. CASE DeviceCompletes
    BY <1>28, QueueCompletes
  <1>29. CASE KernelAdvances
    BY <1>29, QueueAdvances, QueueKept
  <1>30. CASE UNCHANGED vars
    BY <1>30, QueueKept DEF Guards
  <1>31. QED
    BY <1>1, <1>2, <1>3, <1>4, <1>5, <1>6, <1>7, <1>8, <1>9, <1>10, <1>11,
       <1>12, <1>13, <1>14, <1>15, <1>16, <1>17, <1>18, <1>19, <1>20, <1>21,
       <1>22, <1>23, <1>24, <1>25, <1>26, <1>27, <1>28, <1>29, <1>30 DEF
       Next, Host, Measure, Start, Launcher, Stop, Cleanup, Device,
       Terminated

LEMMA EventsGuardedStep ==
  TypeOK /\ Order /\ Kernel /\ Emptied /\ Guards /\ EventsGuarded /\
    [Next]_vars => EventsGuarded'
  <1> SUFFICES ASSUME TypeOK, Order, Kernel, Emptied, Guards, EventsGuarded,
                      [Next]_vars PROVE EventsGuarded'
    OBVIOUS
  <1> USE DEF EventsGuarded, Queued, Up, Set, Clear, Blocked, Timing,
          Starting, Stopping, CleaningUp
  <1>1. CASE WarmupBlock
    BY <1>1, QueueSubmit DEF WarmupBlock, Block, Guards
  <1>2. CASE WarmupUnblock
    BY <1>2, QueueKept DEF WarmupUnblock, UnblockNoexcept, Guards
  <1>3. CASE WarmupCheck
    BY <1>3, QueueKept DEF WarmupCheck, Guards
  <1>4. CASE Launch
    BY <1>4, QueueKept, QueueSubmit DEF Launch, Guards
  <1>5. CASE AfterLaunch
    BY <1>5, QueueKept DEF AfterLaunch, Guards
  <1>6. CASE Destroy
    BY <1>6, QueueKept DEF Destroy, Guards
  <1>7. CASE StartFlush
    BY <1>7, QueueKept, QueueSubmit DEF StartFlush, Enqueue, Guards
  <1>8. CASE StartSync
    BY <1>8, QueueKept, QueueEmpty DEF StartSync, Guards
  <1>9. CASE StartCpuTimer
    BY <1>9, QueueKept DEF StartCpuTimer, Guards
  <1>10. CASE StartBlock
    BY <1>10, QueueKept, QueueSubmit DEF StartBlock, Block, Guards
  <1>11. CASE StartFrequency
    BY <1>11, QueueKept, QueueSubmit DEF StartFrequency, Enqueue,
       StartBuffer, Guards
  <1>12. CASE StartProfiler
    BY <1>12, QueueKept DEF StartProfiler, Guards
  <1>13. CASE StartCudaTimer
    BY <1>13, QueueKept, QueueSubmit DEF StartCudaTimer, Enqueue, Guards
  <1>14. CASE LauncherLaunch
    BY <1>14, QueueSubmit DEF LauncherLaunch, Guards
  <1>15. CASE LauncherReturn
    BY <1>15, QueueKept, QueueEmpty DEF LauncherReturn, Guards
  <1>16. CASE LauncherAfterTimer
    BY <1>16, QueueKept, QueueSubmit DEF LauncherAfterTimer, Guards
  <1>17. CASE LauncherThrow
    BY <1>17, QueueKept DEF LauncherThrow, Guards
  <1>18. CASE StopCudaTimer
    BY <1>18, QueueKept, QueueSubmit DEF StopCudaTimer, Enqueue, Guards
  <1>19. CASE StopFrequency
    BY <1>19, QueueKept, QueueSubmit DEF StopFrequency, Enqueue, Guards
  <1>20. CASE StopUnblock
    BY <1>20, QueueKept DEF StopUnblock, UnblockNoexcept, Guards
  <1>21. CASE StopCheckTimeout
    BY <1>21, QueueKept DEF StopCheckTimeout, Guards
  <1>22. CASE StopSync
    BY <1>22, QueueKept, QueueEmpty DEF StopSync, Guards
  <1>23. CASE StopProfiler
    BY <1>23, QueueKept DEF StopProfiler, Guards
  <1>24. CASE StopCpuTimer
    BY <1>24, QueueKept DEF StopCpuTimer, Guards
  <1>25. CASE CleanupUnblock
    BY <1>25, QueueKept DEF CleanupUnblock, ReleaseIfArmed, UnblockNoexcept,
       SyncNeeded, Guards
  <1>26. CASE CleanupSync
    BY <1>26, QueueKept, QueueEmpty DEF CleanupSync, Guards
  <1>27. CASE CleanupTimers
    BY <1>27, QueueKept DEF CleanupTimers, CleanupProfiler, AfterCleanup,
       Guards
  <1>28. CASE DeviceCompletes
    BY <1>28, QueueCompletes
  <1>29. CASE KernelAdvances
    BY <1>29, QueueAdvances, QueueKept
  <1>30. CASE UNCHANGED vars
    BY <1>30, QueueKept DEF Guards
  <1>31. QED
    BY <1>1, <1>2, <1>3, <1>4, <1>5, <1>6, <1>7, <1>8, <1>9, <1>10, <1>11,
       <1>12, <1>13, <1>14, <1>15, <1>16, <1>17, <1>18, <1>19, <1>20, <1>21,
       <1>22, <1>23, <1>24, <1>25, <1>26, <1>27, <1>28, <1>29, <1>30 DEF
       Next, Host, Measure, Start, Launcher, Stop, Cleanup, Device,
       Terminated

LEMMA EmptiedStep ==
  TypeOK /\ Order /\ Kernel /\ BlockGuarded /\ StampsGuarded /\
    EventsGuarded /\ Guards /\ Emptied /\ [Next]_vars => Emptied'
  <1> SUFFICES ASSUME TypeOK, Order, Kernel, BlockGuarded, StampsGuarded,
                      EventsGuarded, Guards, Emptied, [Next]_vars PROVE
                      Emptied'
    OBVIOUS
  <1> USE DEF Emptied, Drained, Queued, Up, Set, Clear, Blocked, Timing,
          Starting, Stopping, CleaningUp
  <1>1. CASE WarmupBlock
    BY <1>1 DEF WarmupBlock, Block, Guards
  <1>2. CASE WarmupUnblock
    BY <1>2, QueueKept DEF WarmupUnblock, UnblockNoexcept, Guards
  <1>3. CASE WarmupCheck
    BY <1>3, QueueKept DEF WarmupCheck, Guards
  <1>4. CASE Launch
    BY <1>4, QueueKept DEF Launch, Guards
  <1>5. CASE AfterLaunch
    BY <1>5, QueueKept DEF AfterLaunch, Guards
  <1>6. CASE Destroy
    BY <1>6, QueueKept DEF Destroy, Guards
  <1>7. CASE StartFlush
    BY <1>7, QueueKept DEF StartFlush, Enqueue, Guards
  <1>8. CASE StartSync
    BY <1>8, QueueKept DEF StartSync, Guards
  <1>9. CASE StartCpuTimer
    BY <1>9, QueueKept DEF StartCpuTimer, Guards
  <1>10. CASE StartBlock
    BY <1>10, QueueKept DEF StartBlock, Block, Guards
  <1>11. CASE StartFrequency
    BY <1>11, QueueKept DEF StartFrequency, Enqueue, StartBuffer, Guards
  <1>12. CASE StartProfiler
    BY <1>12, QueueKept DEF StartProfiler, Guards
  <1>13. CASE StartCudaTimer
    BY <1>13, QueueKept DEF StartCudaTimer, Enqueue, Guards
  <1>14. CASE LauncherLaunch
    BY <1>14 DEF LauncherLaunch, Guards
  <1>15. CASE LauncherReturn
    BY <1>15, QueueKept DEF LauncherReturn, Guards
  <1>16. CASE LauncherAfterTimer
    BY <1>16, QueueKept DEF LauncherAfterTimer, Guards
  <1>17. CASE LauncherThrow
    BY <1>17, QueueKept DEF LauncherThrow, Guards
  <1>18. CASE StopCudaTimer
    BY <1>18, QueueKept DEF StopCudaTimer, Enqueue, Guards
  <1>19. CASE StopFrequency
    BY <1>19, QueueKept DEF StopFrequency, Enqueue, Guards
  <1>20. CASE StopUnblock
    BY <1>20, QueueKept DEF StopUnblock, UnblockNoexcept, Guards
  <1>21. CASE StopCheckTimeout
    BY <1>21, QueueKept DEF StopCheckTimeout, Guards
  <1>22. CASE StopSync
    BY <1>22, QueueKept DEF StopSync, Guards
  <1>23. CASE StopProfiler
    BY <1>23, QueueKept DEF StopProfiler, Guards
  <1>24. CASE StopCpuTimer
    BY <1>24, QueueKept DEF StopCpuTimer, Guards
  <1>25. CASE CleanupUnblock
    BY <1>25, QueueKept DEF CleanupUnblock, ReleaseIfArmed, UnblockNoexcept,
       SyncNeeded, Guards
  <1>26. CASE CleanupSync
    BY <1>26, QueueKept DEF CleanupSync, Guards
  <1>27. CASE CleanupTimers
    BY <1>27, QueueKept DEF CleanupTimers, CleanupProfiler, AfterCleanup,
       Guards
  <1>28. CASE DeviceCompletes
    BY <1>28, QueueCompletes, QueueEmpty
  <1>29. CASE KernelAdvances
    BY <1>29, QueueAdvances
  <1>30. CASE UNCHANGED vars
    BY <1>30, QueueKept DEF Guards
  <1>31. QED
    BY <1>1, <1>2, <1>3, <1>4, <1>5, <1>6, <1>7, <1>8, <1>9, <1>10, <1>11,
       <1>12, <1>13, <1>14, <1>15, <1>16, <1>17, <1>18, <1>19, <1>20, <1>21,
       <1>22, <1>23, <1>24, <1>25, <1>26, <1>27, <1>28, <1>29, <1>30 DEF
       Next, Host, Measure, Start, Launcher, Stop, Cleanup, Device,
       Terminated

LEMMA HeldStep ==
  TypeOK /\ Order /\ Kernel /\ BlockGuarded /\ EventsGuarded /\ Emptied /\
    Guards /\ Held /\ [Next]_vars => Held'
  <1> SUFFICES ASSUME TypeOK, Order, Kernel, BlockGuarded, EventsGuarded,
                      Emptied, Guards, Held, [Next]_vars PROVE Held'
    OBVIOUS
  <1> USE DEF Held, disable_blocking_kernel, TimeoutDetected, Queued, Up,
          Set, Clear, Blocked, Timing, Starting, Stopping, CleaningUp
  <1>1. CASE WarmupBlock
    BY <1>1, QueueSubmit DEF WarmupBlock, Block, Guards
  <1>2. CASE WarmupUnblock
    BY <1>2, QueueKept DEF WarmupUnblock, UnblockNoexcept, Guards
  <1>3. CASE WarmupCheck
    BY <1>3, QueueKept DEF WarmupCheck, Guards
  <1>4. CASE Launch
    BY <1>4, QueueKept, QueueSubmit DEF Launch, Guards
  <1>5. CASE AfterLaunch
    BY <1>5, QueueKept DEF AfterLaunch, Guards
  <1>6. CASE Destroy
    BY <1>6, QueueKept DEF Destroy, Guards
  <1>7. CASE StartFlush
    BY <1>7, QueueKept, QueueSubmit DEF StartFlush, Enqueue, Guards
  <1>8. CASE StartSync
    BY <1>8, QueueKept, QueueEmpty DEF StartSync, Guards
  <1>9. CASE StartCpuTimer
    BY <1>9, QueueKept DEF StartCpuTimer, Emptied, Guards
  <1>10. CASE StartBlock
    BY <1>10, QueueKept, QueueSubmit DEF StartBlock, Block, Emptied, Guards
  <1>11. CASE StartFrequency
    BY <1>11, QueueKept, QueueSubmit DEF StartFrequency, Enqueue,
       StartBuffer, Guards
  <1>12. CASE StartProfiler
    BY <1>12, QueueKept DEF StartProfiler, Guards
  <1>13. CASE StartCudaTimer
    BY <1>13, QueueKept, QueueSubmit DEF StartCudaTimer, Enqueue, Guards
  <1>14. CASE LauncherLaunch
    BY <1>14, QueueSubmit DEF LauncherLaunch, Guards
  <1>15. CASE LauncherReturn
    BY <1>15, QueueKept, QueueEmpty DEF LauncherReturn, Guards
  <1>16. CASE LauncherAfterTimer
    BY <1>16, QueueKept, QueueSubmit DEF LauncherAfterTimer, Guards
  <1>17. CASE LauncherThrow
    BY <1>17, QueueKept DEF LauncherThrow, Guards
  <1>18. CASE StopCudaTimer
    BY <1>18, QueueKept, QueueSubmit DEF StopCudaTimer, Enqueue, Guards
  <1>19. CASE StopFrequency
    BY <1>19, QueueKept, QueueSubmit DEF StopFrequency, Enqueue, Guards
  <1>20. CASE StopUnblock
    BY <1>20, QueueKept DEF StopUnblock, UnblockNoexcept, Guards
  <1>21. CASE StopCheckTimeout
    BY <1>21, QueueKept DEF StopCheckTimeout, Guards
  <1>22. CASE StopSync
    BY <1>22, QueueKept, QueueEmpty DEF StopSync, Guards
  <1>23. CASE StopProfiler
    BY <1>23, QueueKept DEF StopProfiler, Guards
  <1>24. CASE StopCpuTimer
    BY <1>24, QueueKept DEF StopCpuTimer, Guards
  <1>25. CASE CleanupUnblock
    BY <1>25, QueueKept DEF CleanupUnblock, ReleaseIfArmed, UnblockNoexcept,
       SyncNeeded, Guards
  <1>26. CASE CleanupSync
    BY <1>26, QueueKept, QueueEmpty DEF CleanupSync, Guards
  <1>27. CASE CleanupTimers
    BY <1>27, QueueKept DEF CleanupTimers, CleanupProfiler, AfterCleanup,
       Guards
  <1>28. CASE DeviceCompletes
    <2>1. Head(stream) = "block_stream" /\ m_host_flag = 0
            => m_host_timeout_flag = 1
      BY <1>28, QueueCompletes DEF Kernel
    <2>2. pc \in Timing /\ "early" \in ran' /\ "early" \notin ran
            => pc \in {"launcher", "cuda_timer_stop"}
      BY <1>28, QueueCompletes DEF EventsGuarded, Guards
    <2>3. pc \in {"after_timer", "record"} => Head(stream) # "event_start"
      BY <1>28, QueueCompletes DEF EventsGuarded, Guards
    <2>4. QED  BY <1>28, QueueCompletes, <2>1, <2>2, <2>3
  <1>29. CASE KernelAdvances
    BY <1>29, QueueAdvances, QueueKept
  <1>30. CASE UNCHANGED vars
    BY <1>30, QueueKept DEF Guards
  <1>31. QED
    BY <1>1, <1>2, <1>3, <1>4, <1>5, <1>6, <1>7, <1>8, <1>9, <1>10, <1>11,
       <1>12, <1>13, <1>14, <1>15, <1>16, <1>17, <1>18, <1>19, <1>20, <1>21,
       <1>22, <1>23, <1>24, <1>25, <1>26, <1>27, <1>28, <1>29, <1>30 DEF
       Next, Host, Measure, Start, Launcher, Stop, Cleanup, Device,
       Terminated

LEMMA CompletesStep ==
  TypeOK /\ Order /\ Kernel /\ Emptied /\ Guards /\ Completes /\
    [Next]_vars => Completes'
  <1> SUFFICES ASSUME TypeOK, Order, Kernel, Emptied, Guards, Completes,
                      [Next]_vars PROVE Completes'
    OBVIOUS
  <1> USE DEF Completes, InFlight, check_throttling, Work, Queued, Up, Set,
          Clear, Blocked, Timing, Starting, Stopping, CleaningUp
  <1>1. CASE WarmupBlock
    BY <1>1, QueueSubmit DEF WarmupBlock, Block, Guards
  <1>2. CASE WarmupUnblock
    BY <1>2, QueueKept DEF WarmupUnblock, UnblockNoexcept, Guards
  <1>3. CASE WarmupCheck
    BY <1>3, QueueKept DEF WarmupCheck, Guards
  <1>4. CASE Launch
    BY <1>4, QueueKept, QueueSubmit DEF Launch, Guards
  <1>5. CASE AfterLaunch
    BY <1>5, QueueKept DEF AfterLaunch, Guards
  <1>6. CASE Destroy
    BY <1>6, QueueKept DEF Destroy, Guards
  <1>7. CASE StartFlush
    BY <1>7, QueueKept, QueueSubmit DEF StartFlush, Enqueue, Guards
  <1>8. CASE StartSync
    BY <1>8, QueueKept, QueueEmpty DEF StartSync, Guards
  <1>9. CASE StartCpuTimer
    BY <1>9, QueueKept DEF StartCpuTimer, Guards
  <1>10. CASE StartBlock
    BY <1>10, QueueKept, QueueSubmit DEF StartBlock, Block, Guards
  <1>11. CASE StartFrequency
    BY <1>11, QueueKept, QueueSubmit DEF StartFrequency, Enqueue,
       StartBuffer, Guards
  <1>12. CASE StartProfiler
    BY <1>12, QueueKept DEF StartProfiler, Guards
  <1>13. CASE StartCudaTimer
    BY <1>13, QueueKept, QueueSubmit DEF StartCudaTimer, Enqueue, Guards
  <1>14. CASE LauncherLaunch
    BY <1>14, QueueSubmit DEF LauncherLaunch, Guards
  <1>15. CASE LauncherReturn
    BY <1>15, QueueKept, QueueEmpty DEF LauncherReturn, Guards
  <1>16. CASE LauncherAfterTimer
    BY <1>16, QueueKept, QueueSubmit DEF LauncherAfterTimer, Guards
  <1>17. CASE LauncherThrow
    BY <1>17, QueueKept DEF LauncherThrow, Guards
  <1>18. CASE StopCudaTimer
    BY <1>18, QueueKept, QueueSubmit DEF StopCudaTimer, Enqueue, Guards
  <1>19. CASE StopFrequency
    BY <1>19, QueueKept, QueueSubmit DEF StopFrequency, Enqueue, Guards
  <1>20. CASE StopUnblock
    BY <1>20, QueueKept DEF StopUnblock, UnblockNoexcept, Guards
  <1>21. CASE StopCheckTimeout
    BY <1>21, QueueKept DEF StopCheckTimeout, Guards
  <1>22. CASE StopSync
    BY <1>22, QueueKept, QueueEmpty DEF StopSync, Guards
  <1>23. CASE StopProfiler
    BY <1>23, QueueKept DEF StopProfiler, Guards
  <1>24. CASE StopCpuTimer
    BY <1>24, QueueKept, QueueEmpty DEF StopCpuTimer, Emptied, Guards
  <1>25. CASE CleanupUnblock
    BY <1>25, QueueKept DEF CleanupUnblock, ReleaseIfArmed, UnblockNoexcept,
       SyncNeeded, Guards
  <1>26. CASE CleanupSync
    BY <1>26, QueueKept, QueueEmpty DEF CleanupSync, Guards
  <1>27. CASE CleanupTimers
    BY <1>27, QueueKept DEF CleanupTimers, CleanupProfiler, AfterCleanup,
       Guards
  <1>28. CASE DeviceCompletes
    BY <1>28, QueueCompletes
  <1>29. CASE KernelAdvances
    BY <1>29, QueueAdvances, QueueKept
  <1>30. CASE UNCHANGED vars
    BY <1>30, QueueKept DEF Guards
  <1>31. QED
    BY <1>1, <1>2, <1>3, <1>4, <1>5, <1>6, <1>7, <1>8, <1>9, <1>10, <1>11,
       <1>12, <1>13, <1>14, <1>15, <1>16, <1>17, <1>18, <1>19, <1>20, <1>21,
       <1>22, <1>23, <1>24, <1>25, <1>26, <1>27, <1>28, <1>29, <1>30 DEF
       Next, Host, Measure, Start, Launcher, Stop, Cleanup, Device,
       Terminated

-----------------------------------------------------------------------------
(* The order of the work in the stream, and the kernel at its head *)

\* When the host may queue w
Orderly(w) ==
  /\ w = "block_stream" => Drained
  /\ w \in Owned => ~Queued(w)
  /\ w = "event_start" => ~Queued("event_stop")

LEMMA OrderWhenSubmitted ==
  ASSUME TypeOK, Order, NEW w \in Work, Submit(w), Orderly(w)
  PROVE  Order'
  <1>1. stream \in Seq(Work) /\ stream' = Append(stream, w)
    BY DEF TypeOK, DeviceTypeOK, Submit
  <1>2. /\ Len(stream) \in Nat
        /\ Len(stream') = Len(stream) + 1
        /\ \A i \in 1..Len(stream) : stream'[i] = stream[i]
        /\ stream'[Len(stream) + 1] = w
    BY <1>1, ContentsWhenSubmitted
  <1>3. \A i \in 1..Len(stream') : i \in 1..Len(stream) \/ i = Len(stream) + 1
    BY <1>2
  <1>4. \A i \in 1..Len(stream) :
          /\ w \in Owned => stream[i] # w
          /\ w = "event_start" => stream[i] # "event_stop"
    BY DEF Orderly, Queued, Contents
  <1>5. w = "block_stream" => Len(stream) = 0
    BY DEF Orderly, Drained
  <1>6. \A i \in 1..Len(stream') : stream'[i] = "block_stream" => i = 1
    BY <1>2, <1>3, <1>5 DEF Order
  <1>7. \A i, j \in 1..Len(stream') :
          stream'[i] = stream'[j] /\ stream'[i] \in Owned => i = j
    BY <1>2, <1>3, <1>4 DEF Order, NoResetUnderfoot
  <1>8. \A i, j \in 1..Len(stream') :
          stream'[i] = "event_start" /\ stream'[j] = "event_stop" => i < j
    <2>1. SUFFICES ASSUME NEW i \in 1..Len(stream'), NEW j \in 1..Len(stream'),
                          stream'[i] = "event_start", stream'[j] = "event_stop"
                   PROVE  i < j
      OBVIOUS
    <2>2. CASE i \in 1..Len(stream) /\ j \in 1..Len(stream)
      BY <1>2, <2>1, <2>2 DEF Order
    <2>3. CASE i = Len(stream) + 1
      BY <1>2, <1>3, <1>4, <2>1, <2>3
    <2>4. CASE i \in 1..Len(stream) /\ j = Len(stream) + 1
      BY <1>2, <2>4
    <2>5. QED  BY <1>3, <2>2, <2>3, <2>4
  <1>9. QED  BY <1>6, <1>7, <1>8 DEF Order, NoResetUnderfoot

LEMMA OrderWhenRun ==
  ASSUME TypeOK, Order, stream # << >>, stream' = Tail(stream)
  PROVE  Order'
  <1>1. /\ Len(stream) \in Nat \ {0}
        /\ Len(stream') = Len(stream) - 1
        /\ \A i \in 1..Len(stream') : stream'[i] = stream[i + 1]
    BY ContentsWhenRun DEF TypeOK, DeviceTypeOK
  <1>2. \A i \in 1..Len(stream') : i + 1 \in 1..Len(stream) /\ i + 1 # 1
    BY <1>1
  <1>3. QED  BY <1>1, <1>2 DEF Order, NoResetUnderfoot

LEMMA OrderKept == Order /\ UNCHANGED stream => Order'
  BY DEF Order, NoResetUnderfoot

LEMMA OrderSubmit ==
  ASSUME TypeOK, Order
  PROVE  /\ Submit("memset_l2") => Order'
         /\ Submit("launch") => Order'
         /\ Submit("event_stop") => Order'
         /\ Submit("block_stream") /\ Drained => Order'
         /\ Submit("timestamps_start") /\ ~Queued("timestamps_start") => Order'
         /\ Submit("timestamps_stop") /\ ~Queued("timestamps_stop") => Order'
         /\ Submit("event_start") /\ ~Queued("event_stop") => Order'
  <1>1. \A w \in Work : Submit(w) /\ Orderly(w) => Order'
    BY OrderWhenSubmitted
  <1>2. Drained => ~Queued("block_stream")
    BY QueueEmpty DEF Queued
  <1>3. QED  BY <1>1, <1>2 DEF Work, Orderly, Owned

LEMMA OrderStep ==
  TypeOK /\ Kernel /\ Guards /\ StampsGuarded /\ EventsGuarded /\ Emptied
    /\ Order /\ [Next]_vars => Order'
  <1> SUFFICES ASSUME TypeOK, Kernel, Guards, StampsGuarded, EventsGuarded,
                      Emptied, Order, [Next]_vars PROVE Order'
    OBVIOUS
  <1> USE DEF Up, Set, Clear, Timing, Starting, Stopping, CleaningUp
  <1>1. CASE WarmupBlock
    BY <1>1, OrderSubmit DEF WarmupBlock, Block, Emptied
  <1>2. CASE WarmupUnblock
    BY <1>2, OrderKept DEF WarmupUnblock, UnblockNoexcept
  <1>3. CASE WarmupCheck
    BY <1>3, OrderKept DEF WarmupCheck
  <1>4. CASE Launch
    BY <1>4, OrderKept, OrderSubmit DEF Launch
  <1>5. CASE AfterLaunch
    BY <1>5, OrderKept DEF AfterLaunch
  <1>6. CASE Destroy
    BY <1>6, OrderKept DEF Destroy
  <1>7. CASE StartFlush
    BY <1>7, OrderKept, OrderSubmit DEF StartFlush, Enqueue
  <1>8. CASE StartSync
    BY <1>8, OrderKept DEF StartSync
  <1>9. CASE StartCpuTimer
    BY <1>9, OrderKept DEF StartCpuTimer
  <1>10. CASE StartBlock
    BY <1>10, OrderKept, OrderSubmit DEF StartBlock, Block, Emptied
  <1>11. CASE StartFrequency
    BY <1>11, OrderKept, OrderSubmit DEF StartFrequency, Enqueue,
       StartBuffer, StampsGuarded, Guards
  <1>12. CASE StartProfiler
    BY <1>12, OrderKept DEF StartProfiler
  <1>13. CASE StartCudaTimer
    BY <1>13, OrderKept, OrderSubmit DEF StartCudaTimer, Enqueue,
       EventsGuarded, Guards
  <1>14. CASE LauncherLaunch
    BY <1>14, OrderSubmit DEF LauncherLaunch
  <1>15. CASE LauncherReturn
    BY <1>15, OrderKept DEF LauncherReturn
  <1>16. CASE LauncherAfterTimer
    BY <1>16, OrderKept, OrderSubmit DEF LauncherAfterTimer
  <1>17. CASE LauncherThrow
    BY <1>17, OrderKept DEF LauncherThrow
  <1>18. CASE StopCudaTimer
    BY <1>18, OrderKept, OrderSubmit DEF StopCudaTimer, Enqueue
  <1>19. CASE StopFrequency
    BY <1>19, OrderKept, OrderSubmit DEF StopFrequency, Enqueue,
       StampsGuarded, Guards
  <1>20. CASE StopUnblock
    BY <1>20, OrderKept DEF StopUnblock, UnblockNoexcept
  <1>21. CASE StopCheckTimeout
    BY <1>21, OrderKept DEF StopCheckTimeout
  <1>22. CASE StopSync
    BY <1>22, OrderKept DEF StopSync
  <1>23. CASE StopProfiler
    BY <1>23, OrderKept DEF StopProfiler
  <1>24. CASE StopCpuTimer
    BY <1>24, OrderKept DEF StopCpuTimer
  <1>25. CASE CleanupUnblock
    BY <1>25, OrderKept DEF CleanupUnblock, ReleaseIfArmed, UnblockNoexcept,
       SyncNeeded
  <1>26. CASE CleanupSync
    BY <1>26, OrderKept DEF CleanupSync
  <1>27. CASE CleanupTimers
    BY <1>27, OrderKept DEF CleanupTimers, CleanupProfiler, AfterCleanup
  <1>28. CASE DeviceCompletes
    <2>1. stream # << >> /\ stream' = Tail(stream)
      BY <1>28 DEF DeviceCompletes, RunHead, KernelReturn, Drained, Kernel
    <2>2. QED  BY <2>1, OrderWhenRun
  <1>29. CASE KernelAdvances
    BY <1>29, QueueAdvances, OrderKept
  <1>30. CASE UNCHANGED vars
    BY <1>30, OrderKept
  <1>31. QED
    BY <1>1, <1>2, <1>3, <1>4, <1>5, <1>6, <1>7, <1>8, <1>9, <1>10, <1>11,
       <1>12, <1>13, <1>14, <1>15, <1>16, <1>17, <1>18, <1>19, <1>20, <1>21,
       <1>22, <1>23, <1>24, <1>25, <1>26, <1>27, <1>28, <1>29, <1>30 DEF
       Next, Host, Measure, Start, Launcher, Stop, Cleanup, Device,
       Terminated

HeadBlocks == ~Drained /\ stream[1] = "block_stream"

LEMMA HeadKept ==
  ASSUME TypeOK
  PROVE  /\ \A w \in Work : Submit(w) /\ HeadBlocks => HeadBlocks'
         /\ UNCHANGED stream /\ HeadBlocks => HeadBlocks'
  <1>1. ASSUME NEW w \in Work, Submit(w), HeadBlocks
        PROVE  HeadBlocks'
    <2>1. stream \in Seq(Work) /\ stream' = Append(stream, w) /\ stream # << >>
      BY <1>1 DEF TypeOK, DeviceTypeOK, Submit, HeadBlocks, Drained
    <2>2. 1 \in 1..Len(stream) /\ Len(stream') = Len(stream) + 1
      BY <2>1, EmptySeq, ContentsWhenSubmitted
    <2>3. stream'[1] = stream[1] /\ stream' # << >>
      BY <2>1, <2>2, ContentsWhenSubmitted
    <2>4. QED  BY <1>1, <2>3 DEF HeadBlocks, Drained
  <1>2. QED  BY <1>1 DEF HeadBlocks, Drained

LEMMA KernelStep == TypeOK /\ Emptied /\ Kernel /\ [Next]_vars => Kernel'
  <1> SUFFICES ASSUME TypeOK, Emptied, Kernel, [Next]_vars PROVE Kernel'
    OBVIOUS
  <1> USE DEF Kernel, HeadBlocks
  <1>h. /\ \A w \in {"memset_l2", "block_stream", "launch", "event_start",
                    "event_stop", "timestamps_start", "timestamps_stop"} :
             Submit(w) /\ HeadBlocks => HeadBlocks'
        /\ UNCHANGED stream /\ HeadBlocks => HeadBlocks'
    BY HeadKept DEF Work
  <1>1. CASE WarmupBlock
    BY <1>1, <1>h DEF WarmupBlock, Block, Emptied
  <1>2. CASE WarmupUnblock
    BY <1>2, <1>h DEF WarmupUnblock, UnblockNoexcept
  <1>3. CASE WarmupCheck
    BY <1>3, <1>h DEF WarmupCheck
  <1>4. CASE Launch
    BY <1>4, <1>h DEF Launch
  <1>5. CASE AfterLaunch
    BY <1>5, <1>h DEF AfterLaunch
  <1>6. CASE Destroy
    BY <1>6, <1>h DEF Destroy
  <1>7. CASE StartFlush
    BY <1>7, <1>h DEF StartFlush, Enqueue
  <1>8. CASE StartSync
    BY <1>8, <1>h DEF StartSync
  <1>9. CASE StartCpuTimer
    BY <1>9, <1>h DEF StartCpuTimer
  <1>10. CASE StartBlock
    BY <1>10, <1>h DEF StartBlock, Block, Emptied
  <1>11. CASE StartFrequency
    BY <1>11, <1>h DEF StartFrequency, Enqueue, StartBuffer
  <1>12. CASE StartProfiler
    BY <1>12, <1>h DEF StartProfiler
  <1>13. CASE StartCudaTimer
    BY <1>13, <1>h DEF StartCudaTimer, Enqueue
  <1>14. CASE LauncherLaunch
    BY <1>14, <1>h DEF LauncherLaunch
  <1>15. CASE LauncherReturn
    BY <1>15, <1>h DEF LauncherReturn
  <1>16. CASE LauncherAfterTimer
    BY <1>16, <1>h DEF LauncherAfterTimer
  <1>17. CASE LauncherThrow
    BY <1>17, <1>h DEF LauncherThrow
  <1>18. CASE StopCudaTimer
    BY <1>18, <1>h DEF StopCudaTimer, Enqueue
  <1>19. CASE StopFrequency
    BY <1>19, <1>h DEF StopFrequency, Enqueue
  <1>20. CASE StopUnblock
    BY <1>20, <1>h DEF StopUnblock, UnblockNoexcept
  <1>21. CASE StopCheckTimeout
    BY <1>21, <1>h DEF StopCheckTimeout
  <1>22. CASE StopSync
    BY <1>22, <1>h DEF StopSync
  <1>23. CASE StopProfiler
    BY <1>23, <1>h DEF StopProfiler
  <1>24. CASE StopCpuTimer
    BY <1>24, <1>h DEF StopCpuTimer
  <1>25. CASE CleanupUnblock
    BY <1>25, <1>h DEF CleanupUnblock, ReleaseIfArmed, UnblockNoexcept,
       SyncNeeded
  <1>26. CASE CleanupSync
    BY <1>26, <1>h DEF CleanupSync
  <1>27. CASE CleanupTimers
    BY <1>27, <1>h DEF CleanupTimers, CleanupProfiler, AfterCleanup
  <1>28. CASE DeviceCompletes
    BY <1>28 DEF DeviceCompletes, RunHead, KernelReturn, Drained
  <1>29. CASE KernelAdvances
    BY <1>29, <1>h DEF KernelAdvances, KernelStart, KernelTimeOut,
       KernelLeaveLoop, KernelReport, KeepsPolling, TypeOK, DeviceTypeOK
  <1>30. CASE UNCHANGED vars
    BY <1>30, <1>h
  <1>31. QED
    BY <1>1, <1>2, <1>3, <1>4, <1>5, <1>6, <1>7, <1>8, <1>9, <1>10, <1>11,
       <1>12, <1>13, <1>14, <1>15, <1>16, <1>17, <1>18, <1>19, <1>20, <1>21,
       <1>22, <1>23, <1>24, <1>25, <1>26, <1>27, <1>28, <1>29, <1>30 DEF
       Next, Host, Measure, Start, Launcher, Stop, Cleanup, Device,
       Terminated

-----------------------------------------------------------------------------
(* The invariant *)

LEMMA InvariantInit == Init => IInv
  <1> SUFFICES ASSUME Init PROVE IInv
    OBVIOUS
  <1> USE DEF Init, DeviceInit
  <1>1. stream = << >> /\ Len(stream) = 0 /\ Contents = {}
    BY DEF Contents
  <1>2. TypeOK
    BY ConfigAssumption DEF TypeOK, DeviceTypeOK, PCs, KernelSteps, Flags,
       ConfigType
  <1>3. Guards
    BY DEF Guards, Up, Timing, Starting, Stopping, Blocked, CleaningUp
  <1>4. BlockGuarded /\ StampsGuarded /\ EventsGuarded
    BY <1>1 DEF BlockGuarded, StampsGuarded, EventsGuarded, Queued
  <1>5. Emptied /\ Order /\ Kernel
    BY <1>1 DEF Emptied, Drained, Order, NoResetUnderfoot, Kernel
  <1>6. Held /\ Completes
    BY DEF Held, Completes, Blocked, Timing, Starting, Stopping
  <1>7. QED  BY <1>2, <1>3, <1>4, <1>5, <1>6 DEF IInv

LEMMA InvariantStep == IInv /\ [Next]_vars => IInv'
  <1> SUFFICES ASSUME IInv, [Next]_vars PROVE IInv'
    OBVIOUS
  <1>1. TypeOK' /\ Kernel'
    BY TypingStep, KernelStep DEF IInv
  <1>2. Guards' /\ Emptied' /\ Order'
    BY GuardsStep, EmptiedStep, OrderStep DEF IInv
  <1>3. BlockGuarded' /\ StampsGuarded' /\ EventsGuarded'
    BY BlockGuardedStep, StampsGuardedStep, EventsGuardedStep DEF IInv
  <1>4. Held' /\ Completes'
    BY HeldStep, CompletesStep DEF IInv
  <1>5. QED  BY <1>1, <1>2, <1>3, <1>4 DEF IInv

LEMMA Invariant == Spec => []IInv
  <1>1. QED  BY InvariantInit, InvariantStep, PTL DEF Spec
-----------------------------------------------------------------------------
(* What the invariant means *)

\* Every variable of the host and of the device keeps to its domain.
THEOREM Typing == Spec => []TypeOK
  <1>1. IInv => TypeOK
    BY DEF IInv
  <1>2. QED  BY <1>1, Invariant, PTL

\* Whatever throws and whenever, wherever start(), stop() or the cleanup
\* synchronizes the stream, the blocking kernel is released already.
THEOREM NoSelfDeadlock == Spec => []NeverAwaitsItself
  <1>1. IInv => NeverAwaitsItself
    <2> SUFFICES ASSUME IInv, Queued("block_stream"), m_host_flag # 1,
                        \/ pc \in {"start.sync", "stop.sync"}
                        \/ pc = "cleanup.sync" /\ Up("sync_armed")
                 PROVE  FALSE
      BY DEF NeverAwaitsItself
    <2>1. ~Up("m_stream_unblock_armed")
      BY DEF IInv, Guards, Blocked
    <2>2. QED  BY <2>1 DEF IInv, BlockGuarded, BeforeStart, Abandoned
  <1>2. QED  BY <1>1, Invariant, PTL

\* A measurement that is destroyed, after an exception or not, leaves no work
\* on the stream that uses its host memory, but for the released kernel of an
\* abandoned run_warmup.
THEOREM LaunchesAreDrained == Spec => []LaunchesDrained
  <1>1. IInv => LaunchesDrained
    <2> SUFFICES ASSUME IInv, pc \in {"destroy", "destroyed"},
                        NEW i \in 1..Len(stream), WillAccess(i)
                 PROVE  /\ i = 1 /\ stream[i] = "block_stream"
                        /\ m_host_flag = 1 /\ flow = "unwinding"
                        /\ phase = "warmup" /\ ran = {}
      BY DEF LaunchesDrained
    <2>1. Queued(stream[i])
      BY DEF Queued, Contents
    <2>2. stream[i] = "block_stream"
      BY <2>1 DEF WillAccess, Owned, IInv, StampsGuarded, Timing, Starting,
         Stopping
    <2>3. i = 1
      BY <2>2 DEF IInv, Order
    <2>4. Abandoned
      BY <2>1, <2>2 DEF IInv, BlockGuarded, BeforeStart, Timing, Starting,
         Stopping
    <2>5. QED  BY <2>2, <2>3, <2>4 DEF Abandoned
  <1>2. QED  BY <1>1, Invariant, PTL

\* The flags of a blocking kernel and the buffers of a timestamp kernel are
\* never reset while one of that kind is queued.
THEOREM NoResetIsUnderfoot == Spec => []NoResetUnderfoot
  <1>1. IInv => NoResetUnderfoot
    BY DEF IInv, Order
  <1>2. QED  BY <1>1, Invariant, PTL

\* The start event of a recorded trial that was held back completed only when
\* all of its launch, and its stop event, were queued.
THEOREM RecordedTrialsWereHeldBack == Spec => []TimedWorkWasHeldBack
  <1>1. IInv => TimedWorkWasHeldBack
    BY DEF IInv, Held, TimedWorkWasHeldBack
  <1>2. QED  BY <1>1, Invariant, PTL

\* The events and timestamps a record reads completed since its own start().
THEOREM RecordedTrialsAreComplete == Spec => []SampleComplete
  <1>1. IInv => SampleComplete
    BY DEF IInv, Completes, InFlight, Work, SampleComplete
  <1>2. QED  BY <1>1, Invariant, PTL

\* Between launches and at the end nothing is left started or armed.
THEOREM NothingIsLeftStarted == Spec => []NothingLeftStarted
  <1>1. IInv => NothingLeftStarted
    BY DEF IInv, TypeOK, Flags, Guards, Up, Timing, Starting, Stopping,
       Blocked, CleaningUp, NothingLeftStarted
  <1>2. QED  BY <1>1, Invariant, PTL
=============================================================================
