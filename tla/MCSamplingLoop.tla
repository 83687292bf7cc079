---------------------------- MODULE MCSamplingLoop ----------------------------
(***************************************************************************)
(* Instances of SamplingLoop, all with a timeout: without one a GPU that   *)
(* throttles, or an entropy that does not settle, is sampled for ever.     *)
(***************************************************************************)
EXTENDS SamplingLoop

ColdConfigs ==
  [kind : {"cold"}, run_once : {FALSE}, min_samples : {0, 1, 3},
   limited : {TRUE}, timeout : {0, 9}, criterion : CriterionNames,
   goal : {2, 4}, delay : {0, 2}]

OtherConfigs ==
  [kind : {"cpu_only"}, run_once : BOOLEAN, min_samples : {-1, 2, 4},
   limited : {TRUE}, timeout : {-1, 8}, criterion : CriterionNames,
   goal : {3}, delay : {0}]
  \cup
  [kind : {"cold"}, run_once : {TRUE}, min_samples : {3},
   limited : {TRUE}, timeout : {0}, criterion : CriterionNames,
   goal : {3}, delay : {1}]

AllConfigs == ColdConfigs \cup OtherConfigs
=============================================================================
