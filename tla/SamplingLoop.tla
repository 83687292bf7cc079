----------------------------- MODULE SamplingLoop -----------------------------
(***************************************************************************)
(* What a trial does to the statistics of a cold or a CPU-only measurement *)
(* and when the trials stop: record_measurements with the discarding of    *)
(* throttled trials, is_finished, the three stopping criteria and the      *)
(* summaries and warnings after the loop.  A trial's launch is module      *)
(* ColdLaunch's; here it takes some time and succeeds.  Durations are      *)
(* ticks.  A noise estimate is only under or over the criterion's limit,   *)
(* or invalid, and entropy's fit is good or not.                           *)
(***************************************************************************)
EXTENDS Integers

CONSTANTS
  Configs,
  Durations,                       \* ticks a trial's kernel may take
  MaxDelay,                        \* bound: ticks of the recovery delay
  min_samples_for_noise_estimate,  \* 5 in the code
  invalid_noise_estimate_limit,    \* 64
  min_noise_stability_window,      \* 64
  noise_stability_check_interval   \* 16

CriterionNames == {"stdrel", "entropy", "sample-count"}

\* limited: the timeout is finite.  goal: min-time of stdrel, target-samples of
\* sample-count.
ConfigType == [kind : {"cold", "cpu_only"}, run_once : BOOLEAN,
               min_samples : Int, limited : BOOLEAN, timeout : Int,
               criterion : CriterionNames, goal : Nat, delay : Nat]

\* do_initialize of sample-count throws unless target-samples is positive.
ASSUME SamplingAssumption ==
  /\ Configs \subseteq ConfigType
  /\ \A c \in Configs : /\ c.timeout >= -1
                        /\ c.criterion = "sample-count" => c.goal > 0
  /\ Durations \subseteq Nat
  /\ MaxDelay \in Nat
  /\ min_samples_for_noise_estimate \in Nat \ {0}
  /\ invalid_noise_estimate_limit \in Nat \ {0}
  /\ min_noise_stability_window \in Nat
  /\ noise_stability_check_interval \in Nat \ {0}

VARIABLES
  config,
  pc,
  m_total_samples,
  m_total_time,                       \* m_total_cuda_time, or m_total_cpu_time
  lengths,                            \* of the vectors of measurements
  m_throttle_discard_count,
  m_dynamic_throttle_recovery_delay,
  walltime,
  m_max_time_exceeded,
  criterion,                          \* the stopping criterion's state
  warnings, summaries                 \* what generate_summaries wrote

statistics == <<m_total_samples, m_total_time, lengths, criterion>>
throttling == <<m_throttle_discard_count, m_dynamic_throttle_recovery_delay>>
written == <<warnings, summaries>>
vars == <<config, pc, statistics, throttling, walltime, m_max_time_exceeded,
          written>>

Vectors == {"m_sm_clock_rates", "m_cuda_times", "m_cpu_times"}

m_check_throttling == config.kind = "cold" /\ ~config.run_once

\* The vectors a recorded trial is appended to
Recorded ==
  {"m_cpu_times"}
    \cup (IF config.kind = "cold" THEN {"m_cuda_times"} ELSE {})
    \cup (IF m_check_throttling THEN {"m_sm_clock_rates"} ELSE {})

AtMost(a, b) == IF a <= b THEN a ELSE b

-----------------------------------------------------------------------------
(* The stopping criteria *)

\* stopping_criterion_base::initialize: nothing of an earlier measurement is
\* left.  noise: the last estimate; invalid: how many in a row were invalid;
\* tracked: how many valid ones were pushed.
Fresh == [samples |-> 0, time |-> 0, noise |-> "none", invalid |-> 0, tracked |-> 0]

\* add_measurement: all criteria count, stdrel estimates the noise as well.
AddMeasurement(time) ==
  LET c == [criterion EXCEPT !.samples = @ + 1, !.time = @ + time] IN
    IF config.criterion # "stdrel" \/ c.samples < min_samples_for_noise_estimate
    THEN criterion' = c
    ELSE \/ criterion' = [c EXCEPT !.noise = "invalid", !.invalid = @ + 1]
         \/ \E noise \in {"under", "over"} :
              criterion' = [c EXCEPT !.noise = noise, !.invalid = 0,
                                     !.tracked = @ + 1]

\* stdrel: what has to hold before the noise is looked at
NoiseIsKnown ==
  /\ criterion.time > config.goal
  /\ criterion.tracked > 0
  /\ criterion.invalid = 0

GivesUp == criterion.invalid >= invalid_noise_estimate_limit

\* What stdrel must, and what it may, find finished: the noise may have
\* converged above its limit.
StdrelMust == GivesUp \/ (NoiseIsKnown /\ criterion.noise = "under")

StdrelMay ==
  \/ StdrelMust
  \/ /\ NoiseIsKnown
     /\ criterion.tracked > min_noise_stability_window
     /\ criterion.samples % noise_stability_check_interval = 0

\* The criterion's verdict, one of at most two
Verdict ==
  CASE config.criterion = "sample-count" -> {criterion.samples >= config.goal}
    [] config.criterion = "stdrel" -> {StdrelMust, StdrelMay}
    [] config.criterion = "entropy" ->
         IF criterion.samples < 2 \/ criterion.samples % 2 # 0
         THEN {FALSE} ELSE BOOLEAN

-----------------------------------------------------------------------------
\* initialize, and run_trials_prologue, which starts the clock
Init ==
  /\ config \in Configs
  /\ pc = "record"
  /\ m_total_samples = 0
  /\ m_total_time = 0
  /\ lengths = [v \in Vectors |-> 0]
  /\ m_throttle_discard_count = 0
  /\ m_dynamic_throttle_recovery_delay = config.delay
  /\ walltime = 0
  /\ m_max_time_exceeded = FALSE
  /\ criterion = Fresh
  /\ warnings = {} /\ summaries = {}

\* The clock advances; past the timeout all its readings are alike.
Elapse(ticks) ==
  walltime' = IF config.limited THEN AtMost(walltime + ticks, config.timeout + 1)
                                ELSE walltime + ticks

\* By a half more again, and by no more than half a second (5 ticks)
Longer(delay) == delay + AtMost((3 * delay) \div 2, 5)

\* Mutant: the clock rate is kept before it is found to be too low.
ClockRateKept ==
  /\ lengths' = [lengths EXCEPT !["m_sm_clock_rates"] = @ + 1]
  /\ UNCHANGED <<m_total_samples, m_total_time, criterion>>

NothingKept == UNCHANGED statistics

\* record_measurements of a throttled trial: wait, from the fourth in a row on
\* longer each time, and record nothing.  More than three in a row are counted
\* as three, and the delay grows to MaxDelay at most.
Discard ==
  /\ pc = "record"
  /\ m_check_throttling
  /\ NothingKept
  /\ m_dynamic_throttle_recovery_delay' =
       IF m_throttle_discard_count > 2
       THEN AtMost(Longer(m_dynamic_throttle_recovery_delay), MaxDelay)
       ELSE m_dynamic_throttle_recovery_delay
  /\ \E time \in Durations :
       Elapse(1 + time + m_dynamic_throttle_recovery_delay')
  /\ m_throttle_discard_count' = AtMost(m_throttle_discard_count + 1, 3)
  /\ pc' = "is_finished"
  /\ UNCHANGED <<config, m_max_time_exceeded, written>>

\* record_measurements of any other trial
Record ==
  /\ pc = "record"
  /\ \E time \in Durations :
       /\ Elapse(1 + time)
       /\ m_total_time' = m_total_time + time
       /\ AddMeasurement(time)
  /\ m_total_samples' = m_total_samples + 1
  /\ lengths' = [v \in Vectors |->
                   IF v \in Recorded THEN lengths[v] + 1 ELSE lengths[v]]
  /\ m_throttle_discard_count' = 0
  /\ pc' = "is_finished"
  /\ UNCHANGED <<config, m_dynamic_throttle_recovery_delay,
                 m_max_time_exceeded, written>>

EnoughSamples == m_total_samples >= config.min_samples

\* Mutant: the clock is not looked at after a discarded trial.
TimedOutUnlessThrottled ==
  config.limited /\ walltime > config.timeout /\ m_throttle_discard_count = 0

TimedOut == config.limited /\ walltime > config.timeout

IsFinished ==
  /\ pc = "is_finished"
  /\ \E finished \in IF EnoughSamples THEN Verdict ELSE {FALSE} :
       IF config.run_once \/ finished
       THEN pc' = "summaries" /\ UNCHANGED m_max_time_exceeded
       ELSE /\ pc' = IF TimedOut THEN "summaries" ELSE "record"
            /\ m_max_time_exceeded' = TimedOut
  /\ UNCHANGED <<config, statistics, throttling, walltime, written>>

-----------------------------------------------------------------------------
(* generate_summaries *)

\* Throttling can discard every trial of a cold measurement.
HasStatistics == config.kind = "cpu_only" \/ m_total_samples # 0

\* Mutant: the parameter max-noise is not found under its name.
NoNoiseWarning == {}

\* log_measurement_timeout_warnings: the measurement's own deviation is the
\* criterion's last estimate.
NoiseWarning ==
  IF config.criterion # "stdrel" THEN {}
  ELSE IF m_total_samples < min_samples_for_noise_estimate
       THEN {"few samples for noise"}
  ELSE IF criterion.noise = "invalid" THEN {"no noise estimate"}
  ELSE IF criterion.noise = "over" THEN {"max-noise"} ELSE {}

TimeoutWarnings ==
  NoiseWarning
  \cup (IF m_total_samples < config.min_samples THEN {"min_samples"} ELSE {})
  \cup (IF config.criterion = "stdrel" /\ m_total_time < config.goal
        THEN {"min_time"} ELSE {})

GenerateSummaries ==
  /\ pc = "summaries"
  /\ summaries' = {"sample_size"}
                    \cup (IF HasStatistics THEN {"statistics"} ELSE {})
  /\ warnings' = (IF m_max_time_exceeded THEN TimeoutWarnings ELSE {})
                   \cup (IF HasStatistics THEN {} ELSE {"no accepted samples"})
  /\ pc' = "done"
  /\ UNCHANGED <<config, statistics, throttling, walltime, m_max_time_exceeded>>

Done == pc = "done" /\ UNCHANGED vars

Step == Discard \/ Record \/ IsFinished \/ GenerateSummaries

Next == Step \/ Done

\* The host's thread runs; a trial takes at least a tick of the wall clock.
Spec == Init /\ [][Next]_vars /\ WF_vars(Step)
-----------------------------------------------------------------------------
\* However trials are discarded, every vector has the measurement's number of
\* samples and the criterion has judged just these: the quotients, and the
\* pairs of vectors the printers write, are of the same trials.
SamplesAgree ==
  /\ \A v \in Recorded : lengths[v] = m_total_samples
  /\ criterion.samples = m_total_samples
  /\ criterion.time = m_total_time

\* "If a measurement times out, the default markdown log will report which
\* termination conditions were still unmet" (docs/cli_help.md:155): so it is of
\* stdrel, but for a time that is min-time to the tick, which do_is_finished
\* does not accept and the warning does not report.
StdrelTimeoutIsReported ==
  /\ pc = "done" /\ m_max_time_exceeded
  /\ config.criterion = "stdrel" /\ m_total_time # config.goal
  => warnings # {}

Outcome == IF pc \in {"record", "is_finished"} THEN "running"
           ELSE IF m_max_time_exceeded THEN "timed_out" ELSE "complete"

\* --profile asks for one sample only.
M == INSTANCE Measurement WITH
       minimum <- IF config.run_once THEN 1 ELSE config.min_samples,
       limited <- config.limited, samples <- m_total_samples, outcome <- Outcome

\* The loop is a measurement: it completes only with its minimum of samples,
\* gives up only with a timeout, and with one it ends, even if every trial is
\* throttled or no estimate of the noise is ever valid.
IsMeasurement == M!Promise
=============================================================================
