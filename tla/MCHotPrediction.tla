---------------------------- MODULE MCHotPrediction ----------------------------
(***************************************************************************)
(* Instances of HotPrediction.  With a timeout launches may be too short   *)
(* for the CUDA timer; without one they are not, or the batches would go   *)
(* on for ever.  MaxInt is small, so that predictions and the growth of a  *)
(* batch overflow it.                                                      *)
(***************************************************************************)
EXTENDS HotPrediction

Limited ==
  [m_batch_target_time : {1, 7, 20}, limited : {TRUE},
   m_timeout : {-1, 0, 6, 25}, m_min_samples : {-1, 1, 5, 9},
   cuda_costs : {{0, 1, 3}}]

Unlimited ==
  [m_batch_target_time : {1, 7, 20, 50}, limited : {FALSE},
   m_timeout : {0}, m_min_samples : {-1, 1, 5, 9}, cuda_costs : {{1, 3, 10}}]

Both == Limited \cup Unlimited
=============================================================================
