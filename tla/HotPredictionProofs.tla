------------------------- MODULE HotPredictionProofs -------------------------
(***************************************************************************)
(* The safety of the hot measurement's batches, for every target, timeout, *)
(* minimum, width of the integers and cost of a launch.  The inductive     *)
(* invariant bounds the sizes of the batches (TypeOK) and says what the    *)
(* measurement has at each place (Position); it rests on what the          *)
(* predictions return for any estimate at all (the first lemmas).          *)
(***************************************************************************)
EXTENDS HotPrediction, TLAPS

Sizes == 1..MaxInt

TypeOK ==
  /\ config \in Configs
  /\ pc \in {"batch", "account", "done"}
  /\ batch_size \in Sizes
  /\ timeout_batch_size \in Sizes
  /\ m_total_samples \in Nat
  /\ m_total_cuda_time \in Nat
  /\ walltime \in Nat
  /\ m_max_time_exceeded \in BOOLEAN

\* A batch has run before it is accounted for, and only a timeout that is
\* found then ends the measurement early.
Position ==
  /\ pc # "batch" => m_total_samples > 0
  /\ pc # "done" => ~m_max_time_exceeded

IInv == TypeOK /\ Position /\ OneMoreBatchSuffices
-----------------------------------------------------------------------------
(* What the predictions return *)

\* Whatever the estimate, a batch has a launch, and no more than the integer
\* can count.
LEMMA PredictionIsASize ==
  ASSUME NEW duration \in Int, NEW elapsed \in Int, NEW samples \in Int,
         NEW minimum_size \in Int, minimum_size <= MaxInt,
         NEW fallback \in Int, fallback <= MaxInt
  PROVE  predict_batch_size(duration, elapsed, samples, minimum_size,
                            fallback) \in Sizes
  <1> DEFINE predicted_launches == (duration * samples) \div elapsed
  <1>1. AtLeast(minimum_size, 1) \in Sizes /\ AtLeast(fallback, 1) \in Sizes
    BY PredictionAssumption DEF AtLeast, Sizes
  <1>2. CASE duration <= 0 \/ elapsed <= 0
    BY <1>1, <1>2 DEF predict_batch_size
  <1>3. CASE ~(duration <= 0 \/ elapsed <= 0)
    <2>1. elapsed \in Nat \ {0} /\ duration * samples \in Int
      BY <1>3
    <2>2. predicted_launches \in Int
      BY <2>1
    <2> HIDE DEF predicted_launches
    <2>3. CASE predicted_launches >= MaxInt
      BY <1>1, <1>3, <2>3 DEF predict_batch_size, predicted_launches
    <2>4. CASE ~(predicted_launches >= MaxInt)
      <3>1. AtLeast(predicted_launches, AtLeast(minimum_size, 1)) \in Sizes
        BY <1>1, <2>2, <2>4, PredictionAssumption DEF AtLeast, Sizes
      <3>2. QED
        BY <1>3, <2>4, <3>1 DEF predict_batch_size, predicted_launches
    <2>5. QED  BY <2>3, <2>4
  <1>4. QED  BY <1>2, <1>3

LEMMA CapIsASize ==
  ASSUME NEW duration \in Int, NEW elapsed \in Int, NEW samples \in Int,
         NEW cuda_batch_size \in Sizes
  PROVE  predict_timeout_batch_cap(duration, elapsed, samples,
                                   cuda_batch_size) \in Sizes
  <1>1. 1 \in Sizes /\ 1 <= MaxInt
        /\ cuda_batch_size \in Int /\ cuda_batch_size <= MaxInt
    BY PredictionAssumption DEF Sizes
  <1>2. predict_batch_size(duration, elapsed, samples, 1, cuda_batch_size)
          \in Sizes
    BY <1>1, PredictionIsASize
  <1>3. QED  BY <1>1, <1>2 DEF predict_timeout_batch_cap

\* A batch that would outgrow the integer stays at its limit.
LEMMA GrowthIsASize ==
  ASSUME NEW size \in Sizes, NEW minimum_size \in Int, minimum_size <= MaxInt
  PROVE  grow_batch_size(size, minimum_size) \in Sizes
  <1> DEFINE fallback == AtLeast(minimum_size, 1)
             batch == AtLeast(size, fallback)
  <1>1. fallback \in Sizes /\ batch \in Sizes
    BY PredictionAssumption DEF AtLeast, Sizes
  <1>2. MaxInt \in Nat \ {0} /\ MaxInt \div 2 \in Int
        /\ 2 * (MaxInt \div 2) <= MaxInt
    BY PredictionAssumption
  <1> HIDE DEF fallback, batch
  <1>3. CASE batch > MaxInt \div 2
    BY <1>2, <1>3 DEF grow_batch_size, fallback, batch, Sizes
  <1>4. CASE ~(batch > MaxInt \div 2)
    <2>1. batch * 2 \in Sizes
      BY <1>1, <1>2, <1>4 DEF Sizes
    <2>2. AtLeast(batch * 2, fallback) \in Sizes
      BY <1>1, <2>1 DEF AtLeast
    <2>3. QED  BY <1>4, <2>2 DEF grow_batch_size, fallback, batch
  <1>5. QED  BY <1>3, <1>4

LEMMA ConfigTyped ==
  ASSUME config \in Configs
  PROVE  /\ target \in Nat \ {0} /\ minimum \in Int /\ minimum <= MaxInt
         /\ config.m_timeout \in Int /\ config.limited \in BOOLEAN
         /\ config.cuda_costs \subseteq Nat
         /\ hot_batch_size_floor \in Int /\ hot_batch_size_floor <= MaxInt
  <1>1. /\ target \in Nat \ {0} /\ minimum \in Int /\ minimum <= MaxInt
        /\ config.m_timeout \in Int /\ config.limited \in BOOLEAN
        /\ config.cuda_costs \subseteq Nat
    BY PredictionAssumption DEF ConfigType, target, minimum
  <1>2. QED
    BY <1>1, PredictionAssumption DEF hot_batch_size_floor, AtMost, AtLeast,
       minimum_hot_batch_size

LEMMA Products ==
  ASSUME NEW a \in Nat, NEW b \in Nat
  PROVE  a * b \in Nat
  OBVIOUS
-----------------------------------------------------------------------------
LEMMA InitEstablishes == Init => IInv
  <1> SUFFICES ASSUME Init PROVE IInv
    OBVIOUS
  <1> PICK cuda \in config.cuda_costs, wall \in WallCosts :
        /\ batch_size = predict_batch_size(target, 95 * cuda, 100,
                                           hot_batch_size_floor, minimum)
        /\ timeout_batch_size =
             predict_timeout_batch_cap(config.m_timeout, wall, 1, batch_size)
    BY DEF Init
  <1>1. config \in Configs /\ cuda \in Nat /\ wall \in Nat
    BY ConfigTyped, PredictionAssumption DEF Init
  <1>2. batch_size \in Sizes
    BY <1>1, ConfigTyped, PredictionIsASize
  <1>3. timeout_batch_size \in Sizes
    BY <1>1, <1>2, ConfigTyped, CapIsASize
  <1>4. TypeOK /\ Position
    BY <1>1, <1>2, <1>3 DEF Init, TypeOK, Position
  <1>5. OneMoreBatchSuffices
    BY <1>1, ConfigTyped DEF Init, OneMoreBatchSuffices
  <1>6. QED  BY <1>4, <1>5 DEF IInv

LEMMA RunBatchPreserves == IInv /\ RunBatch => IInv'
  <1> SUFFICES ASSUME IInv, RunBatch PROVE IInv'
    OBVIOUS
  <1>1. batch_size' \in Sizes /\ batch_size' \in Nat \ {0}
    BY DEF RunBatch, IInv, TypeOK, AtMost, Sizes
  <1> PICK cuda \in config.cuda_costs, wall \in WallCosts :
        /\ m_total_cuda_time' = m_total_cuda_time + batch_size' * cuda
        /\ walltime' = walltime + batch_size' * wall
    BY DEF RunBatch
  <1>2. cuda \in Nat /\ wall \in Nat
    BY ConfigTyped, PredictionAssumption DEF IInv, TypeOK
  <1>3. batch_size' * cuda \in Nat /\ batch_size' * wall \in Nat
    BY <1>1, <1>2, Products
  <1>4. /\ m_total_samples' \in Nat /\ m_total_samples' > 0
        /\ m_total_cuda_time' \in Nat /\ walltime' \in Nat
    BY <1>1, <1>3 DEF RunBatch, IInv, TypeOK
  <1>5. QED
    BY <1>1, <1>4 DEF RunBatch, IInv, TypeOK, Position, OneMoreBatchSuffices

LEMMA NextBatchPreserves == IInv /\ NextBatch => IInv'
  <1> SUFFICES ASSUME IInv, NextBatch PROVE IInv'
    OBVIOUS
  <1> USE DEF IInv
  <1>1. /\ target \in Nat \ {0} /\ minimum \in Int /\ minimum <= MaxInt
        /\ config.m_timeout \in Int
        /\ m_total_samples \in Nat /\ m_total_cuda_time \in Nat
        /\ walltime \in Nat /\ batch_size \in Sizes
    BY ConfigTyped DEF TypeOK
  <1>2. FallbackSize \in Int /\ FallbackSize <= MaxInt
    BY <1>1, PredictionAssumption DEF FallbackSize, AtLeast
  <1>3. batch_size' \in Sizes
    <2>1. grow_batch_size(batch_size, hot_batch_size_floor) \in Sizes
      BY <1>1, ConfigTyped, GrowthIsASize DEF TypeOK
    <2>2. /\ grow_batch_size(batch_size, hot_batch_size_floor) \in Int
          /\ grow_batch_size(batch_size, hot_batch_size_floor) <= MaxInt
      BY <2>1 DEF Sizes
    <2>3. target - m_total_cuda_time \in Int
      BY <1>1
    <2>4. QED
      BY <1>1, <1>2, <2>2, <2>3, PredictionIsASize DEF NextBatch
  <1>4. timeout_batch_size' \in Sizes
    <2>1. config.m_timeout - walltime \in Int
      BY <1>1
    <2>2. QED  BY <1>1, <1>3, <2>1, CapIsASize DEF NextBatch, TypeOK
  <1>5. TypeOK' /\ Position'
    BY <1>3, <1>4 DEF NextBatch, TypeOK, Position
  <1>6. OneMoreBatchSuffices'
    <2>1. SUFFICES ASSUME m_total_cuda_time >= target
                   PROVE  batch_size' = minimum - m_total_samples
      BY DEF NextBatch, OneMoreBatchSuffices, target, minimum
    <2>2. m_total_samples < minimum
      BY <1>1, <2>1 DEF NextBatch, Satisfied
    <2>3. FallbackSize = minimum - m_total_samples
      BY <1>1, <2>1, <2>2 DEF FallbackSize, AtLeast
    <2>4. target - m_total_cuda_time <= 0
      BY <1>1, <2>1
    <2>5. batch_size' = AtLeast(FallbackSize, 1)
      BY <2>4 DEF NextBatch, predict_batch_size
    <2>6. QED  BY <1>1, <2>2, <2>3, <2>5 DEF AtLeast
  <1>7. QED  BY <1>5, <1>6

LEMMA StepPreserves == IInv /\ [Next]_vars => IInv'
  <1> SUFFICES ASSUME IInv, [Next]_vars PROVE IInv'
    OBVIOUS
  <1>1. CASE RunBatch
    BY <1>1, RunBatchPreserves
  <1>2. CASE NextBatch
    BY <1>2, NextBatchPreserves
  <1>3. CASE Finish
    BY <1>3 DEF Finish, IInv, TypeOK, Position, OneMoreBatchSuffices
  <1>4. CASE UNCHANGED vars
    BY <1>4 DEF vars, IInv, TypeOK, Position, OneMoreBatchSuffices, target,
                minimum
  <1>5. QED  BY <1>1, <1>2, <1>3, <1>4 DEF Next, Done
-----------------------------------------------------------------------------
\* Whatever the estimates and however often they fail, every batch has a
\* launch and is one the integer can count (predict_batch_size,
\* grow_batch_size), and the invariant holds.
THEOREM PredictionInvariant == Spec => []IInv
  BY InitEstablishes, StepPreserves, PTL DEF Spec

\* For every target, minimum, timeout and cost of a launch: a measurement that
\* has its GPU time but not its samples runs just the launches that are
\* missing (run_trials' fallback size).
THEOREM OneMoreBatchAlwaysSuffices == Spec => []OneMoreBatchSuffices
  <1>1. IInv => OneMoreBatchSuffices
    BY DEF IInv
  <1>2. QED  BY <1>1, PredictionInvariant, PTL

LEMMA StepRefines == IInv /\ IInv' /\ [Next]_vars => [M!Next]_(M!vars)
  <1> SUFFICES ASSUME IInv, IInv', [Next]_vars PROVE [M!Next]_(M!vars)
    OBVIOUS
  <1> USE DEF M!vars, minimum
  <1>1. CASE RunBatch
    <2>1. m_total_samples' > m_total_samples
      BY <1>1 DEF RunBatch, IInv, TypeOK, Sizes
    <2>2. M!Gather
      BY <1>1, <2>1 DEF RunBatch, M!Gather
    <2>3. QED  BY <2>2 DEF M!Next
  <1>2. CASE Finish
    <2>1. M!Complete
      BY <1>2 DEF Finish, Satisfied, M!Complete, IInv, Position
    <2>2. QED  BY <2>1 DEF M!Next
  <1>3. CASE NextBatch /\ TimedOut
    <2>1. M!TimeOut
      BY <1>3 DEF NextBatch, TimedOut, M!TimeOut
    <2>2. QED  BY <2>1 DEF M!Next
  <1>4. CASE NextBatch /\ ~TimedOut
    BY <1>4 DEF NextBatch
  <1>5. CASE UNCHANGED vars
    BY <1>5 DEF vars
  <1>6. QED  BY <1>1, <1>2, <1>3, <1>4, <1>5 DEF Next, Done

\* The batches are a measurement, whatever its settings and its launches cost:
\* they never lose a sample, complete it only with its minimum of them, and
\* give up only with a timeout (run_trials).  That they end is left to the run.
THEOREM PredictionIsMeasurement == Spec => M!Spec
  <1>1. Init => M!Init
    BY DEF Init, M!Init
  <1>2. QED
    BY <1>1, PredictionInvariant, StepRefines, PTL DEF Spec, M!Spec
=============================================================================
