---------------------------- MODULE HotBatchProofs ----------------------------
(***************************************************************************)
(* A batch that the hot measurement counts is sound, for every set of      *)
(* settings, of calls that may fail, queue depth, size and number of       *)
(* batches.  The inductive invariant says how far a batch is at each place *)
(* of the host (Progress), what the stream then holds and in which order   *)
(* (Placed, Order), where the kernels of the benchmark are that were       *)
(* queued (Counted), and that the blocking kernel holds a batch back       *)
(* unless it has reported (Kernel, Held).  Once the cleanup runs, no batch *)
(* is counted any more.                                                    *)
(***************************************************************************)
EXTENDS HotBatch, SequenceTheorems, TLAPS

CleaningUp == {"~guard", "~guard.sync", "destroy", "destroyed"}
\* Between the construction of a guard and its release
Running == {"block", "cuda_timer_start", "launch", "unblock", "unblock.check",
            "unblocked", "cuda_timer_stop", "sync_stream"}
HotWork == {"block_stream", "event_start", "launch", "event_stop"}

TypeOK ==
  /\ DeviceTypeOK
  /\ config \in Configs
  /\ pc \in Running \cup CleaningUp \cup {"batch", "account"}
  /\ phase \in {"warmup", "trials"}
  /\ batch_size \in Sizes
  /\ launches \in Nat
  /\ queued \in Nat
  /\ batches \in 0..MaxBatches
  /\ armed \subseteq {"m_sync_armed", "m_unblock_armed"}
  /\ m_total_samples \in Nat
  /\ completed \in Nat
  /\ early \in {"yes", "no"}

\* How many launches of the batch have returned, and what is armed
Progress ==
  /\ pc # "launch" /\ pc \notin CleaningUp => queued = 0
  /\ pc \in {"block", "cuda_timer_start"} => launches = 0
  /\ pc = "launch" => launches < batch_size
  /\ pc \in {"unblock", "unblock.check", "unblocked"} =>
       launches = blocked_launches
  /\ pc \in {"cuda_timer_stop", "sync_stream", "account"} =>
       launches = batch_size
  /\ pc \in {"batch", "block", "unblock", "unblock.check", "unblocked"} =>
       phase = "trials"
  /\ phase = "warmup" /\ pc \notin CleaningUp => m_total_samples = 0

\* What the stream may hold, and where it is known to be empty
Placed ==
  /\ Contents \subseteq HotWork
  /\ pc \in {"batch", "block", "account"} => Drained
  /\ pc = "cuda_timer_start" => Contents \subseteq {"block_stream"}
  /\ pc \in Running \ {"sync_stream"} => ~Queued("event_stop")

\* The blocking kernel is first, and the events are queued once.
Order ==
  /\ \A i \in 1..Len(stream) : stream[i] = "block_stream" => i = 1
  /\ \A i, j \in 1..Len(stream) :
       stream[i] = stream[j] /\ stream[i] \in {"event_start", "event_stop"}
         => i = j

\* Kernels of the benchmark that the stream holds: all its work but the one
\* blocking kernel and the two events
One(w) == IF Queued(w) THEN 1 ELSE 0
Pending ==
  Len(stream) - One("block_stream") - One("event_start") - One("event_stop")

\* Every kernel queued since the warmup has run or is in the stream.
Counted ==
  /\ pc = "batch" => completed = m_total_samples * config.kernels
  /\ pc \in Running \cup {"account"} =>
       completed + Pending =
         (m_total_samples + launches) * config.kernels + queued

\* Where the blocked launches of a batch are not all queued, or not released
Blocked ==
  \/ pc \in {"cuda_timer_start", "unblock"} /\ phase = "trials"
  \/ pc = "launch" /\ phase = "trials" /\ launches < blocked_launches

\* Until the host releases a batch, the kernel holds the stream unless it has
\* reported; and what started too early is found out.
Held ==
  /\ Blocked => /\ m_host_flag = 0
                /\ m_host_timeout_flag = 1 \/ Queued("block_stream")
                /\ "m_unblock_armed" \in armed
  /\ early = "yes" /\ pc \notin CleaningUp =>
       /\ m_host_timeout_flag = 1
       /\ Blocked \/ pc = "unblock.check"

\* How the blocking kernel stands to the flags
Kernel ==
  /\ kernel # "none" => ~Drained /\ stream[1] = "block_stream"
  /\ kernel = "left" /\ m_host_flag = 0 => now = "past"
  /\ kernel = "returning" /\ m_host_flag = 0 => m_host_timeout_flag = 1

IInv ==
  /\ TypeOK
  /\ Progress
  /\ Placed
  /\ Order
  /\ Counted
  /\ Kernel
  /\ Held
-----------------------------------------------------------------------------
(* What the queue holds when work is submitted, runs or is drained. *)

LEMMA ContentsWhenSubmitted ==
  ASSUME stream \in Seq(Work), NEW w \in Work, stream' = Append(stream, w)
  PROVE  /\ stream' \in Seq(Work)
         /\ Contents' = Contents \cup {w}
         /\ Len(stream') = Len(stream) + 1
         /\ \A i \in 1..Len(stream) : stream'[i] = stream[i]
         /\ stream'[Len(stream) + 1] = w
  BY DEF Contents

LEMMA ContentsWhenRun ==
  ASSUME stream \in Seq(Work), stream # << >>, stream' = Tail(stream)
  PROVE  /\ stream' \in Seq(Work)
         /\ Head(stream) = stream[1]
         /\ Head(stream) \in Contents
         /\ Contents' \subseteq Contents
         /\ Contents \subseteq Contents' \cup {Head(stream)}
         /\ Len(stream) \in Nat \ {0}
         /\ Len(stream') = Len(stream) - 1
         /\ \A i \in 1..Len(stream') : stream'[i] = stream[i + 1]
  <1>1. /\ stream' \in Seq(Work)
        /\ Len(stream') = Len(stream) - 1
        /\ \A i \in 1..Len(stream') : stream'[i] = stream[i + 1]
    BY HeadTailProperties
  <1>2. Len(stream) \in Nat \ {0}
    BY EmptySeq
  <1>3. Head(stream) = stream[1]
    OBVIOUS
  <1>4. Head(stream) \in Contents
    BY <1>2, <1>3 DEF Contents
  <1>5. Contents' \subseteq Contents
    BY <1>1, <1>2 DEF Contents
  <1>6. Contents \subseteq Contents' \cup {Head(stream)}
    <2>1. SUFFICES ASSUME NEW i \in 1..Len(stream), i # 1
                   PROVE  stream[i] \in Contents'
      BY <1>3 DEF Contents
    <2>2. i - 1 \in 1..Len(stream') /\ stream'[i - 1] = stream[i]
      BY <1>1, <1>2, <2>1
    <2>3. QED  BY <2>2 DEF Contents
  <1>7. QED  BY <1>1, <1>2, <1>3, <1>4, <1>5, <1>6

LEMMA ContentsWhenDrained ==
  ASSUME stream \in Seq(Work)
  PROVE  stream = << >> <=> Contents = {}
  BY DEF Contents
-----------------------------------------------------------------------------
(* The stream at the steps of host and device *)

LEMMA StreamTyped ==
  ASSUME TypeOK
  PROVE  /\ stream \in Seq(Work) /\ Len(stream) \in Nat
         /\ Pending \in Int
         /\ Drained => Contents = {} /\ Pending = 0
         /\ Contents = {} => Drained
  <1>1. stream \in Seq(Work)
    BY DEF TypeOK, DeviceTypeOK
  <1>2. Drained <=> Contents = {}
    BY <1>1, ContentsWhenDrained DEF Drained
  <1>3. QED  BY <1>1, <1>2 DEF Drained, Pending, One, Queued

LEMMA StreamKept ==
  UNCHANGED stream => Contents' = Contents /\ Pending' = Pending
  BY DEF Contents, Pending, One, Queued

\* What queueing does: a kernel of the benchmark is one more that is pending,
\* an event or the blocking kernel is not.
LEMMA StreamSubmits ==
  ASSUME TypeOK, Order, NEW w \in HotWork, Submit(w),
         w = "block_stream" => Drained,
         w \in {"event_start", "event_stop"} => ~Queued(w)
  PROVE  /\ stream' \in Seq(Work)
         /\ Contents' = Contents \cup {w}
         /\ ~Drained'
         /\ Pending' = IF w = "launch" THEN Pending + 1 ELSE Pending
         /\ Order'
         /\ Kernel /\ UNCHANGED kernelState => Kernel'
  <1>1. stream \in Seq(Work) /\ Len(stream) \in Nat /\ w \in Work
    BY StreamTyped DEF HotWork, Work
  <1>2. /\ stream' \in Seq(Work)
        /\ Contents' = Contents \cup {w}
        /\ Len(stream') = Len(stream) + 1
        /\ \A i \in 1..Len(stream) : stream'[i] = stream[i]
        /\ stream'[Len(stream) + 1] = w
    BY <1>1, ContentsWhenSubmitted DEF Submit
  <1>3. \A i \in 1..Len(stream') :
          i \in 1..Len(stream) \/ i = Len(stream) + 1
    BY <1>1, <1>2
  <1>4. w # "launch" => ~Queued(w)
    BY StreamTyped DEF HotWork, Queued
  <1>5. Pending' = IF w = "launch" THEN Pending + 1 ELSE Pending
    <2>1. \A x \in HotWork : One(x) \in {0, 1} /\ (x # w => One(x)' = One(x))
      BY <1>2 DEF One, Queued
    <2>2. w # "launch" => One(w) = 0 /\ One(w)' = 1
      BY <1>2, <1>4 DEF One, Queued
    <2> HIDE DEF One
    <2>3. QED  BY <1>1, <1>2, <2>1, <2>2 DEF Pending, HotWork
  <1>6. Order'
    <2>1. \A i \in 1..Len(stream') : stream'[i] = "block_stream" => i = 1
      BY <1>1, <1>2, <1>3 DEF Order, Drained
    <2>2. \A i, j \in 1..Len(stream') :
            stream'[i] = stream'[j]
            /\ stream'[i] \in {"event_start", "event_stop"} => i = j
      <3>1. SUFFICES ASSUME NEW i \in 1..Len(stream'),
                            NEW j \in 1..Len(stream'),
                            stream'[i] = stream'[j],
                            stream'[i] \in {"event_start", "event_stop"}
                     PROVE  i = j
        OBVIOUS
      <3>2. CASE i \in 1..Len(stream) /\ j \in 1..Len(stream)
        BY <1>2, <3>1, <3>2 DEF Order
      <3>3. CASE i = Len(stream) + 1 \/ j = Len(stream) + 1
        <4>1. w \in {"event_start", "event_stop"} /\ w \notin Contents
          BY <1>2, <3>1, <3>3 DEF Queued
        <4>2. \A k \in 1..Len(stream) : stream'[k] # w
          BY <1>2, <4>1 DEF Contents
        <4>3. QED  BY <1>2, <1>3, <3>1, <3>3, <4>2
      <3>4. QED  BY <1>3, <3>2, <3>3
    <2>3. QED  BY <2>1, <2>2 DEF Order
  <1>7. ~Drained'
    BY <1>1, <1>2 DEF Drained
  <1>8. Kernel /\ UNCHANGED kernelState => Kernel'
    <2>1. ~Drained => stream'[1] = stream[1]
      BY <1>1, <1>2 DEF Drained
    <2>2. QED  BY <1>7, <2>1 DEF Kernel, kernelState
  <1>9. QED  BY <1>2, <1>5, <1>6, <1>7, <1>8

\* What completing does: work leaves the stream in its order, the blocking
\* kernel only when it has been released or has reported.
LEMMA StreamCompletes ==
  ASSUME TypeOK, Placed, Order, Kernel, DeviceCompletes
  PROVE  /\ stream' \in Seq(Work)
         /\ Head(stream) \in Contents
         /\ Contents' \subseteq Contents
         /\ Contents \subseteq Contents' \cup {Head(stream)}
         /\ Pending' = IF Head(stream) = "launch" THEN Pending - 1 ELSE Pending
         /\ Order' /\ Kernel'
         /\ Queued("block_stream") => Head(stream) = "block_stream"
         /\ Head(stream) = "block_stream" =>
              m_host_flag = 1 \/ m_host_timeout_flag = 1
         /\ kernel' \in KernelSteps
         /\ UNCHANGED <<settings, pc, progress, armed, m_host_flag,
                        m_host_timeout_flag, now>>
  <1>1. /\ stream \in Seq(Work) /\ stream # << >> /\ stream' = Tail(stream)
        /\ UNCHANGED <<settings, pc, progress, armed, m_host_flag,
                       m_host_timeout_flag, now>>
        /\ Head(stream) = "block_stream" => kernel = "returning"
        /\ kernel' \in KernelSteps
        /\ kernel' # "none" => kernel' = kernel /\ Head(stream) # "block_stream"
    BY StreamTyped DEF TypeOK, DeviceTypeOK, DeviceCompletes, RunHead,
       KernelReturn, Drained, Kernel, KernelSteps
  <1>2. /\ stream' \in Seq(Work)
        /\ Head(stream) = stream[1]
        /\ Head(stream) \in Contents
        /\ Contents' \subseteq Contents
        /\ Contents \subseteq Contents' \cup {Head(stream)}
        /\ Len(stream) \in Nat \ {0}
        /\ Len(stream') = Len(stream) - 1
        /\ \A i \in 1..Len(stream') : stream'[i] = stream[i + 1]
    BY <1>1, ContentsWhenRun
  <1>3. \A i \in 1..Len(stream') : i + 1 \in 1..Len(stream) /\ i + 1 # 1
    BY <1>2
  <1>4. /\ \A i \in 1..Len(stream') : stream'[i] # "block_stream"
        /\ Order'
    BY <1>2, <1>3 DEF Order
  <1>5. Queued("block_stream") => Head(stream) = "block_stream"
    BY <1>2 DEF Order, Queued, Contents
  <1>6. Head(stream) # "launch" => Head(stream) \notin Contents'
    <2>1. SUFFICES ASSUME Head(stream) # "launch", NEW i \in 1..Len(stream'),
                          stream'[i] = Head(stream)
                   PROVE  FALSE
      BY DEF Contents
    <2>2. Head(stream) \in {"event_start", "event_stop"}
      BY <1>2, <1>4, <2>1 DEF Placed, HotWork
    <2>3. stream[i + 1] = stream[1] /\ 1 \in 1..Len(stream)
      BY <1>2, <2>1
    <2>4. QED  BY <1>2, <1>3, <2>2, <2>3 DEF Order
  <1>7. Pending' = IF Head(stream) = "launch" THEN Pending - 1 ELSE Pending
    <2> PICK h \in HotWork : h = Head(stream)
      BY <1>2 DEF Placed
    <2>1. \A x \in HotWork : One(x) \in {0, 1} /\ (x # h => One(x)' = One(x))
      BY <1>2 DEF One, Queued
    <2>2. h # "launch" => One(h) = 1 /\ One(h)' = 0
      BY <1>2, <1>6 DEF One, Queued
    <2> HIDE DEF One
    <2>3. QED
      BY <1>1, <1>2, <2>1, <2>2, StreamTyped DEF Pending, HotWork
  <1>8. Kernel'
    <2>1. kernel' = "none"
      BY <1>1, <1>2 DEF Kernel
    <2>2. QED  BY <2>1 DEF Kernel
  <1>9. Head(stream) = "block_stream" =>
          m_host_flag = 1 \/ m_host_timeout_flag = 1
    BY <1>1 DEF Kernel, TypeOK, DeviceTypeOK
  <1>10. QED
    BY <1>1, <1>2, <1>4, <1>5, <1>7, <1>8, <1>9

LEMMA DeviceKept ==
  ASSUME IInv, UNCHANGED <<settings, device>>
  PROVE  /\ DeviceTypeOK' /\ Order' /\ Kernel' /\ Drained' = Drained
         /\ Contents' = Contents /\ Pending' = Pending
         /\ UNCHANGED <<stream, m_host_flag, m_host_timeout_flag, kernel, now,
                        config, timeout>>
  BY StreamKept DEF IInv, TypeOK, DeviceTypeOK, Order, Kernel, Drained, device,
                    settings

\* Launches times the kernels of one
LEMMA Products ==
  ASSUME NEW a \in Nat, NEW b \in Nat, NEW k \in Nat
  PROVE  /\ (a + (b + 1)) * k = (a + b) * k + k
         /\ (a + b) * k \in Nat
  OBVIOUS

LEMMA ConfigTyped ==
  ASSUME TypeOK
  PROVE  /\ config.kernels \in Nat
         /\ batch_size \in Nat \ {0} /\ blocked_launches \in 1..batch_size
         /\ HeldBack <=> phase = "trials"
  BY ConfigAssumption DEF TypeOK, ConfigType, Sizes, blocked_launches,
     HeldBack, m_disable_blocking_kernel
-----------------------------------------------------------------------------
LEMMA InitEstablishes == Init => IInv
  <1> SUFFICES ASSUME Init PROVE IInv
    OBVIOUS
  <1>1. TypeOK
    BY ConfigAssumption DEF Init, TypeOK, DeviceTypeOK, DeviceInit, ConfigType,
       KernelSteps, Running, Sizes
  <1>2. Drained /\ Contents = {} /\ Pending = 0
    BY <1>1, StreamTyped DEF Init, DeviceInit, Drained
  <1>3. Progress /\ Placed /\ Order /\ Kernel /\ Held
    BY <1>1, <1>2 DEF Init, DeviceInit, Progress, Placed, Order, Kernel, Held,
       Drained, Queued, Blocked, HotWork, CleaningUp
  <1>4. Counted
    <2>1. (0 + 0) * config.kernels = 0
      BY <1>1, ConfigTyped
    <2>2. QED  BY <1>2, <2>1 DEF Init, Counted
  <1>5. QED  BY <1>1, <1>3, <1>4 DEF IInv

\* Once the guard's cleanup runs, only the types, the order of the stream and
\* the kernel's flags matter.
LEMMA CleanupPreserves ==
  ASSUME IInv, TypeOK', Order', Kernel', Contents' \subseteq HotWork,
         pc' \in CleaningUp
  PROVE  IInv'
  BY DEF IInv, Progress, Placed, Counted, Held, Blocked, CleaningUp, Running

LEMMA BeginBatchStep == IInv /\ BeginBatch => IInv'
  <1> SUFFICES ASSUME IInv, BeginBatch PROVE IInv'
    OBVIOUS
  <1>1. /\ DeviceTypeOK' /\ Order' /\ Kernel' /\ Drained' = Drained
        /\ Contents' = Contents /\ Pending' = Pending
        /\ config' = config
    BY DeviceKept DEF BeginBatch
  <1>2. pc = "batch" /\ pc' = "block" /\ phase = "trials" /\ phase' = phase
        /\ queued = 0 /\ queued' = 0 /\ launches' = 0 /\ early' = "no"
        /\ m_total_samples' = m_total_samples /\ completed' = completed
    BY DEF BeginBatch, m_disable_blocking_kernel, IInv, Progress, CleaningUp
  <1>3. TypeOK'
    BY <1>1, <1>2, ConfigAssumption DEF IInv, TypeOK, BeginBatch, Running
  <1>4. Drained /\ Contents = {} /\ Pending = 0
    BY <1>2, StreamTyped DEF IInv, Placed
  <1>5. Progress' /\ Placed' /\ Held'
    BY <1>1, <1>2, <1>4 DEF IInv, Progress, Placed, Held, Blocked, Queued,
       CleaningUp
  <1>6. Counted'
    <2>1. m_total_samples \in Nat /\ completed \in Nat
      BY DEF IInv, TypeOK
    <2>2. completed = m_total_samples * config.kernels
      BY <1>2 DEF IInv, Counted
    <2>3. QED  BY <1>1, <1>2, <1>4, <2>1, <2>2 DEF Counted
  <1>7. QED  BY <1>1, <1>3, <1>5, <1>6 DEF IInv

LEMMA GuardBlockStep == IInv /\ GuardBlock => IInv'
  <1> SUFFICES ASSUME IInv, GuardBlock PROVE IInv'
    OBVIOUS
  <1>1. /\ pc = "block" /\ Drained /\ Contents = {} /\ kernel = "none"
        /\ UNCHANGED <<config, timeout, kernel, now, progress, history>>
        /\ armed' = armed \cup {"m_unblock_armed"}
    BY StreamTyped DEF GuardBlock, IInv, Placed, Kernel, settings
  <1>2. ASSUME Block
        PROVE  /\ stream' \in Seq(Work) /\ Contents' = {"block_stream"}
               /\ Pending' = Pending /\ Order'
               /\ m_host_flag' = 0 /\ m_host_timeout_flag' = 0
    BY <1>1, <1>2, StreamSubmits DEF Block, IInv, Queued, HotWork
  <1>3. Kernel'
    BY <1>1 DEF Kernel
  <1>4. CASE Block /\ pc' = "cuda_timer_start"
    <2>1. TypeOK'
      BY <1>1, <1>2, <1>4 DEF IInv, TypeOK, DeviceTypeOK, Running, progress,
         history
    <2>2. Progress' /\ Placed'
      <3>1. Progress'
        BY <1>1, <1>4 DEF IInv, Progress, progress, CleaningUp
      <3>2. Placed'
        BY <1>2, <1>4 DEF Placed, Queued, HotWork
      <3>3. QED  BY <3>1, <3>2
    <2>3. Counted'
      BY <1>1, <1>2, <1>4 DEF IInv, Counted, Running, progress, history
    <2>4. Held'
      BY <1>1, <1>2, <1>4 DEF IInv, Held, Blocked, Queued, progress, history,
         CleaningUp
    <2>5. QED  BY <1>2, <1>3, <1>4, <2>1, <2>2, <2>3, <2>4 DEF IInv
  <1>5. CASE pc' = "~guard" /\ Block
    <2>1. TypeOK'
      BY <1>1, <1>2, <1>5 DEF IInv, TypeOK, DeviceTypeOK, CleaningUp,
         progress, history
    <2>2. QED
      BY <1>2, <1>3, <1>5, <2>1, CleanupPreserves DEF CleaningUp, HotWork
  <1>6. CASE pc' = "~guard"
             /\ UNCHANGED <<stream, m_host_flag, m_host_timeout_flag>>
    <2>1. TypeOK'
      BY <1>1, <1>6 DEF IInv, TypeOK, DeviceTypeOK, CleaningUp, progress,
         history
    <2>2. Contents' = Contents /\ Order'
      BY <1>6, StreamKept DEF IInv, Order
    <2>3. QED  BY <1>1, <1>3, <1>6, <2>1, <2>2, CleanupPreserves DEF CleaningUp
  <1>7. QED  BY <1>4, <1>5, <1>6 DEF GuardBlock

\* A call that queues an event: the event is queued, or it may be and the
\* guard's cleanup runs.
LEMMA EnqueueStep ==
  ASSUME IInv, NEW call, NEW work \in {"event_start", "event_stop"},
         ~Queued(work), NEW next \in Running, Enqueue(call, work, next),
         UNCHANGED <<settings, history>>
  PROVE  /\ TypeOK' /\ Order' /\ Kernel'
         /\ UNCHANGED <<config, m_host_flag, m_host_timeout_flag, progress,
                        armed, history>>
         /\ \/ /\ pc' = next /\ Contents' = Contents \cup {work}
               /\ Pending' = Pending
            \/ pc' = "~guard" /\ Contents' \subseteq HotWork
  <1>1. UNCHANGED <<config, timeout, m_host_flag, m_host_timeout_flag, kernel,
                    now, progress, armed, history>>
    BY DEF Enqueue, Continue, Throw, kernelState, settings
  <1>2. Contents \subseteq HotWork /\ work \in HotWork
    BY DEF IInv, Placed, HotWork
  <1>3. ASSUME Submit(work)
        PROVE  /\ stream' \in Seq(Work) /\ Order' /\ Kernel'
               /\ Contents' = Contents \cup {work} /\ Pending' = Pending
    BY <1>1, <1>2, <1>3, StreamSubmits DEF IInv, kernelState
  <1>4. ASSUME UNCHANGED stream
        PROVE  /\ stream' \in Seq(Work) /\ Order' /\ Kernel'
               /\ Contents' = Contents
    BY <1>1, <1>4, StreamKept, StreamTyped DEF IInv, Order, Kernel, Drained
  <1>5. stream' \in Seq(Work) /\ Order' /\ Kernel'
    BY <1>3, <1>4 DEF Enqueue
  <1>6. pc' \in {next, "~guard"}
    BY DEF Enqueue, Continue, Throw
  <1>7. TypeOK'
    BY <1>1, <1>5, <1>6 DEF IInv, TypeOK, DeviceTypeOK, CleaningUp, progress,
       history
  <1>8. QED
    BY <1>1, <1>2, <1>3, <1>4, <1>5, <1>7 DEF Enqueue, Continue, Throw

LEMMA TimerStartStep == IInv /\ TimerStart => IInv'
  <1> SUFFICES ASSUME IInv, TimerStart PROVE IInv'
    OBVIOUS
  <1>1. pc = "cuda_timer_start" /\ Contents \subseteq {"block_stream"}
    BY DEF TimerStart, IInv, Placed
  <1>2. /\ TypeOK' /\ Order' /\ Kernel'
        /\ UNCHANGED <<config, m_host_flag, m_host_timeout_flag, progress,
                       armed, history>>
        /\ \/ /\ pc' = "launch" /\ Contents' = Contents \cup {"event_start"}
              /\ Pending' = Pending
           \/ pc' = "~guard" /\ Contents' \subseteq HotWork
    BY <1>1, EnqueueStep DEF TimerStart, Queued, Running
  <1>3. CASE /\ pc' = "launch" /\ Contents' = Contents \cup {"event_start"}
             /\ Pending' = Pending
    <2>1. Progress'
      BY <1>1, <1>2, <1>3, ConfigTyped DEF IInv, Progress, progress, CleaningUp
    <2>2. Placed'
      BY <1>1, <1>2, <1>3 DEF IInv, Placed, Queued, HotWork, Running
    <2>3. Counted'
      BY <1>1, <1>2, <1>3 DEF IInv, Counted, Running, progress, history
    <2>4. Held'
      <3>1. launches' < blocked_launches'
        BY <1>1, <1>2, <1>3, ConfigTyped DEF IInv, Progress, progress,
           blocked_launches
      <3>2. Blocked' <=> Blocked
        BY <1>1, <1>2, <1>3, <3>1 DEF Blocked, progress
      <3>3. QED
        BY <1>1, <1>2, <1>3, <3>2 DEF IInv, Held, Queued, history, CleaningUp
    <2>5. QED  BY <1>2, <2>1, <2>2, <2>3, <2>4 DEF IInv
  <1>4. CASE pc' = "~guard" /\ Contents' \subseteq HotWork
    BY <1>2, <1>4, CleanupPreserves DEF CleaningUp
  <1>5. QED  BY <1>2, <1>3, <1>4

LEMMA TimerStopStep == IInv /\ TimerStop => IInv'
  <1> SUFFICES ASSUME IInv, TimerStop PROVE IInv'
    OBVIOUS
  <1>1. pc = "cuda_timer_stop" /\ ~Queued("event_stop") /\ early = "no"
    BY DEF TimerStop, IInv, Placed, Running, Held, TypeOK, Blocked, CleaningUp
  <1>2. /\ TypeOK' /\ Order' /\ Kernel'
        /\ UNCHANGED <<config, m_host_flag, m_host_timeout_flag, progress,
                       armed, history>>
        /\ \/ /\ pc' = "sync_stream" /\ Contents' = Contents \cup {"event_stop"}
              /\ Pending' = Pending
           \/ pc' = "~guard" /\ Contents' \subseteq HotWork
    BY <1>1, EnqueueStep DEF TimerStop, Running
  <1>3. CASE /\ pc' = "sync_stream" /\ Contents' = Contents \cup {"event_stop"}
             /\ Pending' = Pending
    <2>1. Progress' /\ Placed'
      BY <1>1, <1>2, <1>3 DEF IInv, Progress, Placed, HotWork, progress,
         CleaningUp
    <2>2. Counted'
      BY <1>1, <1>2, <1>3 DEF IInv, Counted, Running, progress, history
    <2>3. Held'
      BY <1>1, <1>2, <1>3 DEF Held, Blocked, history
    <2>4. QED  BY <1>2, <2>1, <2>2, <2>3 DEF IInv
  <1>4. CASE pc' = "~guard" /\ Contents' \subseteq HotWork
    BY <1>2, <1>4, CleanupPreserves DEF CleaningUp
  <1>5. QED  BY <1>2, <1>3, <1>4

LEMMA LaunchKernelStep == IInv /\ LaunchKernel => IInv'
  <1> SUFFICES ASSUME IInv, LaunchKernel PROVE IInv'
    OBVIOUS
  <1>1. /\ pc = "launch" /\ queued' = queued + 1
        /\ UNCHANGED <<config, timeout, m_host_flag, m_host_timeout_flag,
                       kernel, now, pc, phase, batch_size, launches, batches,
                       m_total_samples, armed, completed, early>>
    BY DEF LaunchKernel, settings, kernelState, history
  <1>2. /\ stream' \in Seq(Work) /\ Contents' = Contents \cup {"launch"}
        /\ Pending' = Pending + 1 /\ Order' /\ Kernel'
    BY <1>1, StreamSubmits DEF LaunchKernel, IInv, HotWork, kernelState
  <1>3. TypeOK'
    BY <1>1, <1>2 DEF IInv, TypeOK, DeviceTypeOK
  <1>4. Progress' /\ Placed'
    BY <1>1, <1>2 DEF IInv, Progress, Placed, Queued, HotWork, blocked_launches
  <1>5. Counted'
    <2>1. /\ completed \in Int /\ Pending \in Int /\ queued \in Int
          /\ completed + Pending =
               (m_total_samples + launches) * config.kernels + queued
      BY <1>1, StreamTyped DEF IInv, TypeOK, Counted, Running
    <2>2. (m_total_samples + launches) * config.kernels \in Int
      BY ConfigTyped, Products DEF IInv, TypeOK
    <2>3. QED  BY <1>1, <1>2, <2>1, <2>2 DEF Counted
  <1>6. Held'
    BY <1>1, <1>2 DEF IInv, Held, Blocked, Queued, blocked_launches
  <1>7. QED  BY <1>2, <1>3, <1>4, <1>5, <1>6 DEF IInv

LEMMA LaunchReturnStep == IInv /\ LaunchReturn => IInv'
  <1> SUFFICES ASSUME IInv, LaunchReturn PROVE IInv'
    OBVIOUS
  <1>1. /\ DeviceTypeOK' /\ Order' /\ Kernel' /\ Drained' = Drained
        /\ Contents' = Contents /\ Pending' = Pending
        /\ UNCHANGED <<config, m_host_flag, m_host_timeout_flag>>
    BY DeviceKept DEF LaunchReturn
  <1>2. /\ pc = "launch" /\ queued = config.kernels
        /\ launches' = launches + 1 /\ queued' = 0
        /\ pc' = IF HeldBack /\ launches' = blocked_launches THEN "unblock"
                 ELSE IF launches' = batch_size THEN "cuda_timer_stop"
                 ELSE "launch"
        /\ UNCHANGED <<phase, batch_size, batches, m_total_samples, armed,
                       completed, early>>
    BY DEF LaunchReturn, history
  <1>3. /\ launches \in Nat /\ batch_size \in Nat \ {0}
        /\ launches < batch_size /\ blocked_launches \in 1..batch_size
        /\ blocked_launches' = blocked_launches
        /\ HeldBack <=> phase = "trials"
    BY <1>2, ConfigTyped DEF IInv, TypeOK, Progress, blocked_launches
  <1>4. ASSUME phase = "trials", launches' = blocked_launches
        PROVE  Progress' /\ Held'
    <2>1. pc' = "unblock"
      BY <1>2, <1>3, <1>4
    <2>2. QED
      BY <1>1, <1>2, <1>3, <1>4, <2>1 DEF IInv, Progress, Held, Blocked, Queued,
         CleaningUp
  <1>5. ASSUME ~(phase = "trials" /\ launches' = blocked_launches),
               launches' = batch_size
        PROVE  Progress' /\ Held'
    <2>1. pc' = "cuda_timer_stop"
      BY <1>2, <1>3, <1>5
    <2>2. ~Blocked
      BY <1>2, <1>3, <1>5 DEF Blocked
    <2>3. early = "no"
      BY <1>2, <2>2 DEF IInv, Held, TypeOK, CleaningUp
    <2>4. QED
      BY <1>2, <1>5, <2>1, <2>3 DEF IInv, Progress, Held, Blocked, CleaningUp
  <1>6. ASSUME ~(phase = "trials" /\ launches' = blocked_launches),
               launches' # batch_size
        PROVE  Progress' /\ Held'
    <2>1. pc' = "launch"
      BY <1>2, <1>3, <1>6
    <2>2. Blocked' <=> Blocked
      BY <1>2, <1>3, <1>6, <2>1 DEF Blocked
    <2>3. QED
      BY <1>1, <1>2, <1>3, <1>6, <2>1, <2>2 DEF IInv, Progress, Held, Queued,
         CleaningUp
  <1>7. /\ pc' \in {"unblock", "cuda_timer_stop", "launch"}
        /\ Progress' /\ Held'
    <2>1. pc' \in {"unblock", "cuda_timer_stop", "launch"}
      BY <1>2
    <2>2. QED  BY <2>1, <1>4, <1>5, <1>6
  <1>8. TypeOK'
    BY <1>1, <1>2, <1>7 DEF IInv, TypeOK, Running
  <1>9. Placed'
    BY <1>1, <1>2, <1>7 DEF IInv, Placed, Queued, Running
  <1>10. Counted'
    <2>1. /\ completed \in Int /\ Pending \in Int
          /\ completed + Pending =
               (m_total_samples + launches) * config.kernels + config.kernels
      BY <1>2, StreamTyped DEF IInv, TypeOK, Counted, Running
    <2>2. (m_total_samples + (launches + 1)) * config.kernels =
            (m_total_samples + launches) * config.kernels + config.kernels
      BY <1>3, ConfigTyped, Products DEF IInv, TypeOK
    <2>3. (m_total_samples + (launches + 1)) * config.kernels \in Int
      BY <1>3, ConfigTyped, Products DEF IInv, TypeOK
    <2>4. QED  BY <1>1, <1>2, <1>7, <2>1, <2>2, <2>3 DEF Counted
  <1>11. QED  BY <1>1, <1>7, <1>8, <1>9, <1>10 DEF IInv

LEMMA GuardUnblockStep == IInv /\ GuardUnblock => IInv'
  <1> SUFFICES ASSUME IInv, GuardUnblock PROVE IInv'
    OBVIOUS
  <1>1. pc = "unblock" /\ Blocked /\ "m_unblock_armed" \in armed
    BY DEF GuardUnblock, IInv, Progress, Blocked, Held
  <1>2. /\ pc' = "unblock.check" /\ m_host_flag' = 1
        /\ UNCHANGED <<config, timeout, stream, m_host_timeout_flag, kernel,
                       now, progress, armed, history>>
    BY <1>1 DEF GuardUnblock, UnblockNoexcept, Continue, settings
  <1>3. Contents' = Contents /\ Pending' = Pending /\ Drained' = Drained
    BY <1>2, StreamKept DEF Drained
  <1>4. TypeOK'
    BY <1>2 DEF IInv, TypeOK, DeviceTypeOK, Running, progress, history
  <1>5. Progress' /\ Placed'
    BY <1>1, <1>2, <1>3 DEF IInv, Progress, Placed, Queued, Running, progress,
       blocked_launches, CleaningUp
  <1>6. Order' /\ Kernel'
    BY <1>2 DEF IInv, Order, Kernel, Drained
  <1>7. Counted'
    BY <1>1, <1>2, <1>3 DEF IInv, Counted, Running, progress, history
  <1>8. Held'
    BY <1>1, <1>2 DEF IInv, Held, Blocked, history, CleaningUp
  <1>9. QED  BY <1>4, <1>5, <1>6, <1>7, <1>8 DEF IInv

LEMMA GuardCheckStep == IInv /\ GuardCheck => IInv'
  <1> SUFFICES ASSUME IInv, GuardCheck PROVE IInv'
    OBVIOUS
  <1>1. /\ DeviceTypeOK' /\ Order' /\ Kernel' /\ Drained' = Drained
        /\ Contents' = Contents /\ Pending' = Pending
        /\ UNCHANGED <<config, m_host_flag, m_host_timeout_flag>>
    BY DeviceKept DEF GuardCheck
  <1>2. pc = "unblock.check" /\ UNCHANGED <<progress, history>>
    BY DEF GuardCheck
  <1>3. CASE TimeoutDetected
    <2>1. pc' = "~guard" /\ UNCHANGED armed
      BY <1>3 DEF GuardCheck
    <2>2. TypeOK'
      BY <1>1, <1>2, <2>1 DEF IInv, TypeOK, CleaningUp, progress, history
    <2>3. QED
      BY <1>1, <2>1, <2>2, CleanupPreserves DEF IInv, Placed, CleaningUp
  <1>4. CASE ~TimeoutDetected
    <2>1. pc' = "unblocked" /\ armed' = armed \ {"m_unblock_armed"}
      BY <1>4 DEF GuardCheck
    <2>2. early = "no"
      BY <1>2, <1>4 DEF TimeoutDetected, IInv, TypeOK, Held, CleaningUp
    <2>3. TypeOK'
      BY <1>1, <1>2, <2>1 DEF IInv, TypeOK, Running, progress, history
    <2>4. Progress' /\ Placed'
      BY <1>1, <1>2, <2>1 DEF IInv, Progress, Placed, Queued, Running, progress,
         blocked_launches, CleaningUp
    <2>5. Counted'
      BY <1>1, <1>2, <2>1 DEF IInv, Counted, Running, progress, history
    <2>6. Held'
      BY <1>2, <2>1, <2>2 DEF Held, Blocked, history
    <2>7. QED  BY <1>1, <2>3, <2>4, <2>5, <2>6 DEF IInv
  <1>5. QED  BY <1>3, <1>4

LEMMA UnblockedStep == IInv /\ Unblocked => IInv'
  <1> SUFFICES ASSUME IInv, Unblocked PROVE IInv'
    OBVIOUS
  <1>1. /\ DeviceTypeOK' /\ Order' /\ Kernel' /\ Drained' = Drained
        /\ Contents' = Contents /\ Pending' = Pending
        /\ UNCHANGED <<config, m_host_flag, m_host_timeout_flag>>
    BY DeviceKept DEF Unblocked
  <1>2. /\ pc = "unblocked" /\ UNCHANGED <<progress, armed, history>>
        /\ pc' = IF launches = batch_size THEN "cuda_timer_stop" ELSE "launch"
    BY DEF Unblocked, Continue
  <1>3. /\ launches = blocked_launches /\ launches \in 1..batch_size
        /\ batch_size \in Nat
    BY <1>2, ConfigTyped DEF IInv, Progress
  <1>4. early = "no"
    BY <1>2 DEF IInv, TypeOK, Held, Blocked, CleaningUp
  <1>5. TypeOK'
    BY <1>1, <1>2 DEF IInv, TypeOK, Running, progress, history
  <1>6. Progress' /\ Placed'
    BY <1>1, <1>2, <1>3 DEF IInv, Progress, Placed, Queued, Running, progress,
       CleaningUp
  <1>7. Counted'
    BY <1>1, <1>2 DEF IInv, Counted, Running, progress, history
  <1>8. Held'
    <2>1. ~(launches < blocked_launches)
      BY <1>3
    <2>2. ~Blocked'
      BY <1>2, <2>1 DEF Blocked, progress, blocked_launches
    <2>3. QED  BY <1>2, <1>4, <2>2 DEF Held, history
  <1>9. QED  BY <1>1, <1>5, <1>6, <1>7, <1>8 DEF IInv

LEMMA SyncAndReleaseStep == IInv /\ SyncAndRelease => IInv'
  <1> SUFFICES ASSUME IInv, SyncAndRelease PROVE IInv'
    OBVIOUS
  <1>1. /\ DeviceTypeOK' /\ Order' /\ Kernel' /\ Drained' = Drained
        /\ Contents' = Contents /\ Pending' = Pending
        /\ UNCHANGED config
    BY DeviceKept DEF SyncAndRelease
  <1>2. pc = "sync_stream" /\ Drained /\ UNCHANGED <<progress, history>>
    BY DEF SyncAndRelease, Throw
  <1>3. early = "no"
    BY <1>2 DEF IInv, TypeOK, Held, Blocked, CleaningUp
  <1>4. CASE pc' = "account" /\ armed' = {}
    <2>1. TypeOK'
      BY <1>1, <1>2, <1>4 DEF IInv, TypeOK, progress, history
    <2>2. Progress' /\ Placed' /\ Held'
      BY <1>1, <1>2, <1>3, <1>4 DEF IInv, Progress, Placed, Held, Blocked,
         Running, progress, history, CleaningUp
    <2>3. Counted'
      BY <1>1, <1>2, <1>4 DEF IInv, Counted, Running, progress, history
    <2>4. QED  BY <1>1, <2>1, <2>2, <2>3 DEF IInv
  <1>5. CASE pc' = "~guard" /\ UNCHANGED armed
    <2>1. TypeOK'
      BY <1>1, <1>2, <1>5 DEF IInv, TypeOK, CleaningUp, progress, history
    <2>2. QED
      BY <1>1, <1>5, <2>1, CleanupPreserves DEF IInv, Placed, CleaningUp
  <1>6. QED  BY <1>4, <1>5 DEF SyncAndRelease, Throw

LEMMA AccountStep == IInv /\ Account => IInv'
  <1> SUFFICES ASSUME IInv, Account PROVE IInv'
    OBVIOUS
  <1>1. /\ DeviceTypeOK' /\ Order' /\ Kernel' /\ Drained' = Drained
        /\ Contents' = Contents /\ Pending' = Pending
        /\ UNCHANGED config
    BY DeviceKept DEF Account
  <1>2. /\ pc = "account" /\ Drained /\ Pending = 0 /\ queued = 0
        /\ launches = batch_size /\ early = "no"
        /\ UNCHANGED <<batch_size, launches, queued, batches, armed, early>>
    BY StreamTyped DEF Account, IInv, TypeOK, Progress, Placed, Held, Blocked,
       CleaningUp
  <1>3. /\ m_total_samples \in Nat /\ completed \in Nat
        /\ batch_size \in Nat \ {0} /\ config.kernels \in Nat
    BY ConfigTyped DEF IInv, TypeOK
  <1>4. completed = (m_total_samples + batch_size) * config.kernels
    BY <1>2, <1>3, Products DEF IInv, Counted
  <1>5. 0 * config.kernels = 0
    BY <1>3
  <1>6. /\ phase' = "trials" /\ pc' \in {"batch", "destroy"}
        /\ m_total_samples' \in Nat /\ completed' \in Nat
        /\ completed' = m_total_samples' * config.kernels
    <2>1. CASE phase = "warmup"
      BY <1>2, <1>3, <1>5, <2>1 DEF Account, IInv, Progress, CleaningUp
    <2>2. CASE phase = "trials"
      <3>1. /\ m_total_samples' = m_total_samples + batch_size
            /\ completed' = completed /\ phase' = phase
            /\ pc' \in {"batch", "destroy"} /\ config' = config
        BY <1>1, <2>2 DEF Account
      <3>2. completed' = m_total_samples' * config.kernels
        BY <1>4, <3>1
      <3>3. QED  BY <1>3, <2>2, <3>1, <3>2
    <2>3. QED  BY <2>1, <2>2 DEF IInv, TypeOK
  <1>7. TypeOK'
    BY <1>1, <1>2, <1>6 DEF IInv, TypeOK, CleaningUp
  <1>8. Progress' /\ Placed' /\ Held'
    <2>1. Progress'
      BY <1>2, <1>6 DEF Progress, CleaningUp
    <2>2. Placed'
      BY <1>1, <1>2, <1>6 DEF IInv, Placed, Running
    <2>3. Held'
      BY <1>2, <1>6 DEF Held, Blocked
    <2>4. QED  BY <2>1, <2>2, <2>3
  <1>9. Counted'
    BY <1>1, <1>6 DEF Counted, Running
  <1>10. QED  BY <1>1, <1>7, <1>8, <1>9 DEF IInv

\* The steps of the host that end in the cleanup, or belong to it
LEMMA EndingStep ==
  IInv /\ (LaunchThrow \/ AccountThrow \/ CleanupUnblock \/ CleanupSync
           \/ Destroy) => IInv'
  <1> SUFFICES ASSUME IInv, LaunchThrow \/ AccountThrow \/ CleanupUnblock
                            \/ CleanupSync \/ Destroy
               PROVE  IInv'
    OBVIOUS
  <1>1. /\ pc' \in CleaningUp
        /\ UNCHANGED <<settings, stream, m_host_timeout_flag, kernel, now,
                       progress, armed, history>>
        /\ m_host_flag' \in {m_host_flag, 1}
    BY DEF LaunchThrow, AccountThrow, CleanupUnblock, CleanupSync, Destroy,
       Throw, Continue, UnblockNoexcept, device, CleaningUp
  <1>2. Contents' = Contents
    BY <1>1, StreamKept
  <1>3. TypeOK'
    BY <1>1 DEF IInv, TypeOK, DeviceTypeOK, settings, progress, history
  <1>4. Order' /\ Kernel'
    BY <1>1 DEF IInv, Order, Kernel, Drained
  <1>5. QED
    BY <1>1, <1>2, <1>3, <1>4, CleanupPreserves DEF IInv, Placed

LEMMA DeviceCompletesStep == IInv /\ DeviceCompletes => IInv'
  <1> SUFFICES ASSUME IInv, DeviceCompletes PROVE IInv'
    OBVIOUS
  <1>1. /\ stream' \in Seq(Work)
        /\ Head(stream) \in Contents
        /\ Contents' \subseteq Contents
        /\ Contents \subseteq Contents' \cup {Head(stream)}
        /\ Pending' = IF Head(stream) = "launch" THEN Pending - 1 ELSE Pending
        /\ Order' /\ Kernel'
        /\ Queued("block_stream") => Head(stream) = "block_stream"
        /\ Head(stream) = "block_stream" =>
             m_host_flag = 1 \/ m_host_timeout_flag = 1
        /\ kernel' \in KernelSteps
        /\ UNCHANGED <<config, timeout, pc, progress, armed, m_host_flag,
                       m_host_timeout_flag, now>>
    BY StreamCompletes DEF IInv, settings
  <1>2. /\ completed' = IF Head(stream) = "launch" THEN completed + 1
                        ELSE completed
        /\ early' = IF /\ Head(stream) = "event_start"
                       /\ HeldBack /\ launches < blocked_launches
                    THEN "yes" ELSE early
    BY DEF DeviceCompletes, Complete
  <1>3. TypeOK'
    BY <1>1, <1>2 DEF IInv, TypeOK, DeviceTypeOK, progress
  <1>4. ~Drained /\ pc \notin {"batch", "block", "account"}
    BY <1>1, StreamTyped DEF IInv, Placed
  <1>5. Progress' /\ Placed'
    BY <1>1, <1>4 DEF IInv, Progress, Placed, Queued, progress, blocked_launches
  <1>6. Counted'
    <2>1. completed \in Int /\ Pending \in Int
      BY StreamTyped DEF IInv, TypeOK
    <2>2. completed' + Pending' = completed + Pending
      BY <1>1, <1>2, <2>1
    <2>3. QED  BY <1>1, <1>4, <2>2 DEF IInv, Counted, progress
  <1>7. Held'
    <2>1. Blocked' <=> Blocked
      BY <1>1 DEF Blocked, progress, blocked_launches
    <2>2. Blocked => m_host_timeout_flag = 1 \/ Queued("block_stream")'
      BY <1>1 DEF IInv, Held, Queued
    <2>3. ASSUME Head(stream) = "event_start", HeldBack,
                 launches < blocked_launches, pc \notin CleaningUp
          PROVE  Blocked /\ m_host_timeout_flag = 1
      <3>1. pc # "cuda_timer_start"
        BY <1>1, <2>3 DEF IInv, Placed
      <3>2. pc \notin {"unblock", "unblock.check", "unblocked",
                      "cuda_timer_stop", "sync_stream"}
        BY <2>3, ConfigTyped DEF IInv, Progress
      <3>3. pc = "launch"
        BY <1>4, <2>3, <3>1, <3>2 DEF IInv, TypeOK, Running
      <3>4. Blocked
        BY <2>3, <3>3 DEF Blocked, HeldBack
      <3>5. ~Queued("block_stream")
        BY <1>1, <2>3
      <3>6. QED  BY <3>4, <3>5 DEF IInv, Held
    <2>4. QED
      BY <1>1, <1>2, <2>1, <2>2, <2>3 DEF IInv, Held
  <1>8. QED  BY <1>1, <1>3, <1>5, <1>6, <1>7 DEF IInv

LEMMA KernelAdvancesStep == IInv /\ KernelAdvances => IInv'
  <1> SUFFICES ASSUME IInv, KernelAdvances PROVE IInv'
    OBVIOUS
  <1>1. /\ UNCHANGED <<config, timeout, pc, progress, armed, history, stream,
                       m_host_flag>>
        /\ m_host_timeout_flag' \in {m_host_timeout_flag, 1}
        /\ kernel' \in KernelSteps /\ now' \in {"before", "past"}
    BY DEF KernelAdvances, KernelStart, KernelTimeOut, KernelLeaveLoop,
       KernelReport, IInv, TypeOK, DeviceTypeOK, KernelSteps, settings
  <1>2. Contents' = Contents /\ Pending' = Pending /\ Drained' = Drained
    BY <1>1, StreamKept DEF Drained
  <1>3. TypeOK'
    BY <1>1 DEF IInv, TypeOK, DeviceTypeOK, progress, history
  <1>4. Progress' /\ Placed' /\ Counted' /\ Order'
    BY <1>1, <1>2 DEF IInv, Progress, Placed, Counted, Order, Queued, progress,
       history, blocked_launches
  <1>5. Kernel'
    <2>1. CASE KernelStart
      <3>1. ~Drained /\ Head(stream) = stream[1]
        BY <2>1, StreamTyped DEF KernelStart, Drained, IInv
      <3>2. QED  BY <2>1, <3>1 DEF KernelStart, Kernel, Drained
    <2>2. CASE KernelTimeOut \/ KernelLeaveLoop \/ KernelReport
      BY <2>2 DEF KernelTimeOut, KernelLeaveLoop, KernelReport, KeepsPolling,
         Kernel, Drained, IInv, TypeOK, DeviceTypeOK
    <2>3. QED  BY <2>1, <2>2 DEF KernelAdvances
  <1>6. Held'
    BY <1>1, <1>2 DEF IInv, Held, Blocked, Queued, progress, history,
       blocked_launches
  <1>7. QED  BY <1>3, <1>4, <1>5, <1>6 DEF IInv

LEMMA StepPreserves == IInv /\ [Next]_vars => IInv'
  <1> SUFFICES ASSUME IInv, [Next]_vars PROVE IInv'
    OBVIOUS
  <1>1. CASE UNCHANGED vars
    <2>1. UNCHANGED <<settings, device, config, pc, progress, armed, history>>
      BY <1>1 DEF vars, settings
    <2>2. /\ DeviceTypeOK' /\ Order' /\ Kernel' /\ Drained' = Drained
          /\ Contents' = Contents /\ Pending' = Pending
          /\ UNCHANGED <<m_host_flag, m_host_timeout_flag>>
      BY <2>1, DeviceKept
    <2>3. QED
      BY <2>1, <2>2 DEF IInv, TypeOK, Progress, Placed, Counted, Held, Blocked,
         Queued, progress, history, blocked_launches
  <1>2. CASE Batch
    BY <1>2, BeginBatchStep, GuardBlockStep, TimerStartStep, LaunchKernelStep,
       LaunchReturnStep, EndingStep, GuardUnblockStep, GuardCheckStep,
       UnblockedStep, TimerStopStep, SyncAndReleaseStep, AccountStep DEF Batch
  <1>3. CASE CleanupUnblock \/ CleanupSync \/ Destroy
    BY <1>3, EndingStep
  <1>4. CASE Device
    BY <1>4, DeviceCompletesStep, KernelAdvancesStep DEF Device
  <1>5. QED  BY <1>1, <1>2, <1>3, <1>4 DEF Next, Host, Terminated
-----------------------------------------------------------------------------
\* The inductive invariant holds of every hot measurement.
THEOREM HotInvariant == Spec => []IInv
  BY InitEstablishes, StepPreserves, PTL DEF Spec

\* Whichever calls fail, whatever the launcher queues and however host and
\* device interleave, a batch that is counted has run to its last kernel, with
\* nothing of a batch before it, and none of its blocked launches started
\* before all of them were queued (run_trials and its stream_cleanup_guard).
THEOREM CountedBatchIsAlwaysSound == Spec => []CountedBatchIsSound
  <1>1. IInv => CountedBatchIsSound
    <2>1. SUFFICES ASSUME IInv, pc = "account"
                   PROVE  early = "no" /\ completed =
                            (m_total_samples + batch_size) * config.kernels
      BY DEF CountedBatchIsSound
    <2>2. early = "no"
      BY <2>1 DEF IInv, TypeOK, Held, Blocked, CleaningUp
    <2>3. /\ launches = batch_size /\ queued = 0 /\ Pending = 0
          /\ completed \in Nat
      BY <2>1, StreamTyped DEF IInv, TypeOK, Progress, Placed, CleaningUp
    <2>4. (m_total_samples + batch_size) * config.kernels \in Nat
      BY <2>1, ConfigTyped, Products DEF IInv, TypeOK
    <2>5. QED  BY <2>1, <2>2, <2>3, <2>4 DEF IInv, Counted
  <1>2. QED  BY <1>1, HotInvariant, PTL
=============================================================================
