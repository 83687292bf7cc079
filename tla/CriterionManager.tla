-------------------------- MODULE CriterionManager --------------------------
(***************************************************************************)
(* The stopping criteria as one shared object each, and their parameters.  *)
(* The manager hands out references: a measurement that is initialized     *)
(* writes its parameters into the object every later user will see.        *)
(* Parameters are counted in thousandths, samples in ones.  Criteria that  *)
(* a program registers itself are not modelled.                            *)
(***************************************************************************)
EXTENDS Integers, TLC

VARIABLE m_map      \* the parameters in the shared object of every criterion

Criteria == {"stdrel", "entropy", "sample-count"}

default_stopping_criterion == "stdrel"

\* The parameters the constructors give
Defaults ==
  [c \in Criteria |->
     CASE c = "stdrel"  -> "max-noise" :> 5 @@ "min-time" :> 500
       [] c = "entropy" -> "max-angle" :> 48 @@ "min-r2" :> 360
       [] OTHER         -> "target-samples" :> 100]

Params == UNION {DOMAIN Defaults[c] : c \in Criteria}

\* Mutant: only what is missing is added, as by emplace.
AddMissing(mine, other) == mine @@ other

\* What other does not have keeps the value it had.
set_from(mine, other) ==
  [p \in DOMAIN mine |-> IF p \in DOMAIN other THEN other[p] ELSE mine[p]]

\* do_initialize: sample-count throws, the others reset their statistics.
do_initialize(c, params) == c = "sample-count" => params["target-samples"] > 0
=============================================================================
