---------------------------- MODULE MCColdLaunch ----------------------------
\* Instances of ColdLaunch for TLC.
EXTENDS ColdLaunch

\* Every setting of one launch of up to two kernels, on a stream that holds six
\* commands: a blocked launch of one kernel just fits, one of two fills the
\* queue, and only the blocking kernel's timeout lets the host go on.  A
\* launcher that fills the queue or synchronizes without the timeout deadlocks,
\* as documented; it is left out.
AllConfigs ==
  {c \in [run_once : BOOLEAN, disable_blocking_kernel : BOOLEAN,
          timeout : {"finite", "negative"}, timer_tag : BOOLEAN, syncs : BOOLEAN,
          kernels : 1..2] :
     c.syncs \/ c.kernels = 2 => c.timeout = "finite"}
=============================================================================
