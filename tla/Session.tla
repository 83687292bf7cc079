------------------------------ MODULE Session ------------------------------
(***************************************************************************)
(* A run of the benchmarks a command line selects: every state takes the   *)
(* settings of its benchmark, its generator may select another stopping    *)
(* criterion, and the measurement is judged by the object all measurements *)
(* with that criterion share.  Each benchmark is taken with one state;     *)
(* how a measurement goes is for ColdLaunch, HotBatch and SamplingLoop.    *)
(***************************************************************************)
EXTENDS OptionParser

CONSTANT MaySelect      \* the criteria a generator may select

\* For any other name get_criterion throws.
ASSUME SelectionAssumption == MaySelect \subseteq Criteria

VARIABLES
  bench,                \* the benchmark that is run
  state,                \* its state
  measured              \* history: how every state was measured

running == <<bench, state, measured>>
session_vars == <<m_map, parsing, running>>

NoState == [stopping_criterion |-> "none"]

SessionInit ==
  /\ ParserInit
  /\ bench = 1
  /\ state = NoState
  /\ measured = <<>>

\* The constructor the state generator calls.  The other one, which leaves out
\* m_skip_batched, is used by the tests alone.
NewState(b) ==
  [is_cpu_only |-> b.is_cpu_only, run_once |-> b.run_once,
   skip_batched |-> b.skip_batched,
   stopping_criterion |-> b.stopping_criterion,
   criterion_params |-> b.criterion_params, selected |-> FALSE]

BeginState ==
  /\ status = "parsed"
  /\ bench <= Len(parser.m_benchmarks)
  /\ state' = NewState(parser.m_benchmarks[bench])
  /\ status' = "generator"
  /\ UNCHANGED <<m_map, m_args, parser, bench, measured>>

EndSession ==
  /\ status = "parsed"
  /\ bench > Len(parser.m_benchmarks)
  /\ status' = "finished"
  /\ UNCHANGED <<m_map, m_args, parser, running>>

\* state::set_stopping_criterion, by the generator
SetStoppingCriterion ==
  /\ status = "generator"
  /\ ~state.selected
  /\ \E c \in MaySelect :
       state' = [state EXCEPT !.stopping_criterion = c,
                              !.criterion_params = m_map[c], !.selected = TRUE]
  /\ UNCHANGED <<m_map, parsing, bench, measured>>

\* What the measurement's initialize() leaves in the shared object
Initialized == set_from(m_map[state.stopping_criterion], state.criterion_params)

skip_hot_measurement == state.run_once \/ state.skip_batched

\* A criterion that refuses its parameters throws out of the measurement.
\* Otherwise samples are taken, and batches after them.
Measure ==
  /\ status = "generator"
  /\ LET c == state.stopping_criterion
         accepted == do_initialize(c, Initialized)
     IN /\ m_map' = [m_map EXCEPT ![c] = Initialized]
        /\ measured' = Append(measured,
             [criterion |-> c, selected |-> state.selected,
              wanted |-> state.criterion_params, used |-> Initialized,
              accepted |-> accepted,
              batched |-> /\ accepted /\ ~state.is_cpu_only
                          /\ ~skip_hot_measurement])
  /\ state' = NoState
  /\ bench' = bench + 1
  /\ status' = "parsed"
  /\ UNCHANGED <<m_args, parser>>

Ended == status \in {"rejected", "exited", "finished"} /\ UNCHANGED session_vars

SessionNext ==
  \/ Parse /\ UNCHANGED running
  \/ BeginState \/ SetStoppingCriterion \/ Measure \/ EndSession
  \/ Ended

SessionSpec == SessionInit /\ [][SessionNext]_session_vars

-----------------------------------------------------------------------------
\* A measurement is judged by the parameters of its own state, and refused for
\* no others, whatever the measurements before it left in the shared object.
JudgedByItsOwnParameters ==
  \A i \in DOMAIN measured :
    LET m == measured[i]
    IN /\ m.used = m.wanted
       /\ m.accepted <=> do_initialize(m.criterion, m.wanted)

\* A generator that selects a criterion gets its "Default values for all
\* parameters" (nvbench/stopping_criterion.cuh:91).
SelectionHasDefaults ==
  \A i \in DOMAIN measured :
    measured[i].selected => measured[i].used = Defaults[measured[i].criterion]
=============================================================================
