---------------------------- MODULE HotPrediction ----------------------------
(***************************************************************************)
(* How many launches the batches of a hot measurement have and when they   *)
(* stop: measure_hot::run_trials with predict_batch_size,                  *)
(* predict_cuda_batch_size, predict_timeout_batch_cap and grow_batch_size. *)
(* Durations are whole numbers of ticks, so a prediction is the same floor *)
(* of a quotient as the code's conversion to an integer; the rounding of   *)
(* the code's floating-point operations is left out.  What happens on the  *)
(* stream while a batch runs is module HotBatch's.                         *)
(***************************************************************************)
EXTENDS Integers

CONSTANTS
  Configs,     \* the settings a measurement may have
  WallCosts,   \* wall-clock ticks a launch may take
  MaxInt       \* the largest int64_t

\* limited: the timeout is finite.  cuda_costs: the GPU ticks a launch may
\* take, by the CUDA timer.
ConfigType == [m_batch_target_time : Nat \ {0}, limited : BOOLEAN,
               m_timeout : Int, m_min_samples : Int, cuda_costs : SUBSET Nat]

ASSUME PredictionAssumption ==
  /\ Configs \subseteq ConfigType
  /\ WallCosts \subseteq Nat \ {0}
  /\ MaxInt \in Nat \ {0}
  /\ \A c \in Configs : c.m_min_samples <= MaxInt

VARIABLES
  config,
  pc,
  batch_size,
  timeout_batch_size,
  m_total_samples,
  m_total_cuda_time,
  walltime,             \* m_walltime_timer's duration since run_trials began
  m_max_time_exceeded

vars == <<config, pc, batch_size, timeout_batch_size, m_total_samples,
          m_total_cuda_time, walltime, m_max_time_exceeded>>

AtLeast(a, b) == IF a >= b THEN a ELSE b   \* std::max
AtMost(a, b) == IF a <= b THEN a ELSE b    \* std::min

target == config.m_batch_target_time
minimum == config.m_min_samples

-----------------------------------------------------------------------------
(* The predictions *)

\* predict_batch_size: how often a launch fits into duration, if `samples`
\* launches took `elapsed`.  An estimate of no duration at all, and one the
\* integer cannot hold, are invalid.
predict_batch_size(duration, elapsed, samples, minimum_size, fallback) ==
  LET clamped_min_size == AtLeast(minimum_size, 1)
      clamped_fallback == AtLeast(fallback, 1)
      predicted_launches == (duration * samples) \div elapsed
  IN IF duration <= 0 \/ elapsed <= 0 THEN clamped_fallback
     ELSE IF predicted_launches >= MaxInt THEN clamped_fallback
     ELSE AtLeast(predicted_launches, clamped_min_size)

\* An exhausted budget allows one launch; an infinite one is no cap.
predict_timeout_batch_cap(duration, elapsed, samples, cuda_batch_size) ==
  IF ~config.limited THEN cuda_batch_size
  ELSE IF duration <= 0 THEN 1
  ELSE predict_batch_size(duration, elapsed, samples, 1, cuda_batch_size)

grow_batch_size(size, minimum_size) ==
  LET fallback == AtLeast(minimum_size, 1)
      batch == AtLeast(size, fallback)
  IN IF batch > MaxInt \div 2 THEN MaxInt ELSE AtLeast(batch * 2, fallback)

minimum_hot_batch_size == 4

hot_batch_size_floor == AtMost(AtLeast(minimum, 1), minimum_hot_batch_size)

-----------------------------------------------------------------------------
\* The warmup's launch gives the first estimates, its GPU time times .95.
Init ==
  /\ config \in Configs
  /\ \E cuda \in config.cuda_costs, wall \in WallCosts :
       /\ batch_size = predict_batch_size(target, 95 * cuda, 100,
                                          hot_batch_size_floor, minimum)
       /\ timeout_batch_size =
            predict_timeout_batch_cap(config.m_timeout, wall, 1, batch_size)
  /\ pc = "batch"
  /\ m_total_samples = 0
  /\ m_total_cuda_time = 0
  /\ walltime = 0
  /\ m_max_time_exceeded = FALSE

\* A batch of launches that take this time, which may differ from all before
RunBatch ==
  /\ pc = "batch"
  /\ batch_size' = AtMost(batch_size, timeout_batch_size)
  /\ \E cuda \in config.cuda_costs, wall \in WallCosts :
       /\ m_total_cuda_time' = m_total_cuda_time + batch_size' * cuda
       /\ walltime' = walltime + batch_size' * wall
  /\ m_total_samples' = m_total_samples + batch_size'
  /\ pc' = "account"
  /\ UNCHANGED <<config, timeout_batch_size, m_max_time_exceeded>>

\* Mutant: the GPU time alone ends the measurement.
TargetMet == m_total_cuda_time >= target

Satisfied == m_total_cuda_time >= target /\ m_total_samples >= minimum

\* Mutant: the fallback is always all of the minimum.
FallbackToAll == minimum

FallbackSize ==
  IF m_total_cuda_time >= target THEN AtLeast(minimum - m_total_samples, 1)
                                 ELSE minimum

TimedOut == config.limited /\ walltime > config.m_timeout

Finish ==
  /\ pc = "account"
  /\ Satisfied
  /\ pc' = "done"
  /\ UNCHANGED <<config, batch_size, timeout_batch_size, m_total_samples,
                 m_total_cuda_time, walltime, m_max_time_exceeded>>

\* The next batch, unless the time is up: enough launches for the GPU time
\* that is missing, but at least twice the last ones, capped by the time left.
NextBatch ==
  /\ pc = "account"
  /\ ~Satisfied
  /\ batch_size' = predict_batch_size(target - m_total_cuda_time,
                      m_total_cuda_time, m_total_samples,
                      grow_batch_size(batch_size, hot_batch_size_floor),
                      FallbackSize)
  /\ IF TimedOut
     THEN /\ m_max_time_exceeded' = TRUE
          /\ pc' = "done"
          /\ UNCHANGED timeout_batch_size
     ELSE /\ timeout_batch_size' =
               predict_timeout_batch_cap(config.m_timeout - walltime, walltime,
                                         m_total_samples, batch_size')
          /\ pc' = "batch"
          /\ UNCHANGED m_max_time_exceeded
  /\ UNCHANGED <<config, m_total_samples, m_total_cuda_time, walltime>>

Done == pc = "done" /\ UNCHANGED vars

Next == RunBatch \/ Finish \/ NextBatch \/ Done

\* The host's thread runs.  WallCosts holds no 0: the clock advances while a
\* kernel is launched.
Spec == Init /\ [][Next]_vars /\ WF_vars(RunBatch \/ Finish \/ NextBatch)
-----------------------------------------------------------------------------
\* Once the GPU-time target is met, one more batch, if the timeout does not cap
\* it, brings exactly the samples that are missing.
OneMoreBatchSuffices ==
  pc = "batch" /\ m_total_cuda_time >= target =>
    batch_size = minimum - m_total_samples

M == INSTANCE Measurement WITH
       limited <- config.limited, samples <- m_total_samples,
       outcome <- IF pc # "done" THEN "running"
                  ELSE IF m_max_time_exceeded THEN "timed_out" ELSE "complete"

\* The batches are a measurement: it completes only with its minimum of
\* samples, gives up only with a timeout, and with one it ends, however small
\* the batches are made for it.
IsMeasurement == M!Promise
=============================================================================
