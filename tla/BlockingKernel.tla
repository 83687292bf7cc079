--------------------------- MODULE BlockingKernel ---------------------------
(***************************************************************************)
(* A CUDA stream and the kernel NVBench uses to hold it back while the     *)
(* host queues the work of one measurement (nvbench/blocking_kernel.cu).   *)
(*                                                                         *)
(* The stream executes its work in FIFO order.  The work at its head is    *)
(* the work in execution.  The blocking kernel is the only work whose      *)
(* inside matters: it polls a flag in the host's memory, gives up when a   *)
(* timeout passes, and then raises a second flag in the host's memory.     *)
(* The module holds the state, the operations the host calls and the steps *)
(* of the device; ColdLaunch and HotBatch are the two host programs that   *)
(* use it.                                                                 *)
(***************************************************************************)
EXTENDS Naturals, Sequences

CONSTANT QueueDepth   \* work the driver queues on a stream before a launch
                      \* blocks the host (the docs advise at most ~32 kernels)

ASSUME QueueDepthAssumption == QueueDepth \in Nat \ {0}

VARIABLES
  timeout,              \* the timeout handed to block(): finite or negative
  stream,               \* the work queued, its head in execution
  m_host_flag,          \* set by the host: the kernel may leave
  m_host_timeout_flag,  \* set by the kernel: it left because time was up
  kernel,               \* where the blocking kernel at the head stands
  now                   \* the kernel's last reading of the clock: before or
                        \* past timeout_point

device == <<stream, m_host_flag, m_host_timeout_flag, kernel, now>>

Work == {"memset_l2", "block_stream", "timestamps_start", "timestamps_stop",
         "event_start", "event_stop", "launch"}

\* Work that reads or writes host memory registered by the measurement that
\* queued it: the two flags of the blocking kernel, the buffers of the two
\* timestamp kernels.
Owned == {"block_stream", "timestamps_start", "timestamps_stop"}

KernelSteps == {"none", "polling", "left", "returning"}

DeviceTypeOK ==
  /\ timeout \in {"finite", "negative"}
  /\ stream \in Seq(Work)
  /\ m_host_flag \in {0, 1}
  /\ m_host_timeout_flag \in {0, 1}
  /\ kernel \in KernelSteps
  /\ now \in {"before", "past"}

DeviceInit ==
  /\ stream = << >>
  /\ m_host_flag = 0
  /\ m_host_timeout_flag = 0
  /\ kernel = "none"
  /\ now = "before"

Contents == {stream[i] : i \in 1..Len(stream)}

Queued(w) == w \in Contents

-----------------------------------------------------------------------------
(* What the host calls. *)

\* Queue work; the call does not return before the driver has room for it.
Submit(w) ==
  /\ Len(stream) < QueueDepth
  /\ stream' = Append(stream, w)

\* Mutant: the host's flag keeps its value.
BlockWithoutReset ==
  /\ m_host_timeout_flag' = 0
  /\ Submit("block_stream")
  /\ UNCHANGED m_host_flag

\* blocking_kernel::block
Block ==
  /\ m_host_flag' = 0
  /\ m_host_timeout_flag' = 0
  /\ Submit("block_stream")

\* blocking_kernel::unblock_noexcept, the first half of unblock as well
UnblockNoexcept == m_host_flag' = 1

\* Mutant: unblock does not look at the kernel's flag.
NeverDetected == FALSE

\* The second half of unblock: it throws when the kernel gave up
TimeoutDetected == m_host_timeout_flag = 1

\* cudaStreamSynchronize returns
Drained == stream = << >>

-----------------------------------------------------------------------------
(* What the device does. *)

\* Any other work at the head of the stream runs to its end.
RunHead ==
  /\ ~Drained
  /\ Head(stream) # "block_stream"
  /\ stream' = Tail(stream)
  /\ UNCHANGED <<m_host_flag, m_host_timeout_flag, kernel, now>>

\* The blocking kernel starts; a negative timeout puts timeout_point before
\* start_point, so the first reading of the clock is already past it.
KernelStart ==
  /\ ~Drained
  /\ Head(stream) = "block_stream"
  /\ kernel = "none"
  /\ kernel' = "polling"
  /\ now' = IF timeout = "negative" THEN "past" ELSE "before"
  /\ UNCHANGED <<stream, m_host_flag, m_host_timeout_flag>>

\* Mutant: the loop does not test the clock.
KeepsPollingForever == m_host_flag = 0

\* The loop's condition
KeepsPolling == m_host_flag = 0 /\ (timeout = "negative" \/ now = "before")

\* A reading of the clock past the timeout (readings before it change
\* nothing).  The first reading precedes the loop and each later one follows
\* a test of the flag, which may be raised between the two: the reading
\* depends on nothing but the clock.
KernelTimeOut ==
  /\ kernel = "polling"
  /\ now = "before"
  /\ now' = "past"
  /\ UNCHANGED <<stream, m_host_flag, m_host_timeout_flag, kernel>>

KernelLeaveLoop ==
  /\ kernel = "polling"
  /\ ~KeepsPolling
  /\ kernel' = "left"
  /\ UNCHANGED <<stream, m_host_flag, m_host_timeout_flag, now>>

\* if (now >= timeout_point): raise the flag and print the banner
KernelReport ==
  /\ kernel = "left"
  /\ kernel' = "returning"
  /\ m_host_timeout_flag' = IF now = "past" THEN 1 ELSE m_host_timeout_flag
  /\ UNCHANGED <<stream, m_host_flag, now>>

KernelReturn ==
  /\ kernel = "returning"
  /\ kernel' = "none"
  /\ stream' = Tail(stream)
  /\ UNCHANGED <<m_host_flag, m_host_timeout_flag, now>>
=============================================================================
