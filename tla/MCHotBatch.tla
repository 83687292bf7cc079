------------------------------ MODULE MCHotBatch ------------------------------
(***************************************************************************)
(* Instances of HotBatch: every setting, launchers of one kernel and of    *)
(* three, two launches of which do not fit the stream behind the blocking  *)
(* kernel, with and without a synchronization of their own.                *)
(***************************************************************************)
EXTENDS HotBatch

AllConfigs ==
  [disable_blocking_kernel : BOOLEAN, timeout : {"finite", "negative"},
   kernels : {1, 3}, syncs : BOOLEAN]
=============================================================================
