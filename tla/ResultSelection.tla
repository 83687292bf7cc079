--------------------------- MODULE ResultSelection ---------------------------
(***************************************************************************)
(* What nvbench-compare-robust and nvbench-compare-legacy take from two    *)
(* result files: the filters of the command line, the devices, the         *)
(* benchmarks and the states that belong together.                         *)
(*                                                                         *)
(* A result file is Unreadable or [devices, benchmarks]; a benchmark is    *)
(* [name, devices, states]; a state is [device, name, axes, listed,        *)
(* skipped, timing], where name is the device prefix of the name           *)
(* ("Device=0", or None) and the rest of it, axes is the function of its   *)
(* axis values, listed has the names of these axes in the order of the     *)
(* file, and timing is None when it has no summaries.                      *)
(***************************************************************************)
EXTENDS TimingComparison

CONSTANT Unreadable   \* a file that cannot be read, or is no result file

-----------------------------------------------------------------------------
(* Filters: an axis argument is [name, pow2, values]. *)

MalformedAxis(arg) ==
  \/ arg.name = "" \/ arg.values = <<>>
  \/ arg.pow2 /\ NotANumber \in Range(arg.values)

AxisFilter(arg) ==
  [name |-> arg.name, values |-> {IF arg.pow2 THEN 2^v ELSE v : v \in Range(arg.values)}]

parse_axis_filters(args) ==
  IF \E i \in DOMAIN args : MalformedAxis(args[i]) THEN Refused
  ELSE {AxisFilter(args[i]) : i \in DOMAIN args}

matches_axis_filters(state, filters) ==
  \A f \in filters : f.name \in DOMAIN state.axes /\ state.axes[f.name] \in f.values

\* -a and -b in the order of the command line: <<"axis", arg>> or <<"benchmark", name>>
\* The axis arguments, by their places
AxisArgs(actions) ==
  [i \in {j \in DOMAIN actions : actions[j][1] = "axis"} |-> actions[i][2]]

\* Mutant: every axis argument goes to all the scopes.
ScopesShareAxes(actions) ==
  [global |-> AxisArgs(actions),
   scopes |-> LET names == SelectSeq(actions, LAMBDA action : action[1] = "benchmark")
              IN [i \in DOMAIN names |-> [name |-> names[i][2], axes |-> <<>>]]]

\* An axis argument goes to the scope before it, or to all when there is none.
WithAction(plan, action) ==
  IF action[1] = "benchmark"
  THEN [plan EXCEPT !.scopes = Append(@, [name |-> action[2], axes |-> <<>>])]
  ELSE IF plan.scopes = <<>> THEN [plan EXCEPT !.global = Append(@, action[2])]
  ELSE [plan EXCEPT !.scopes[Len(plan.scopes)].axes = Append(@, action[2])]

ScopeActions(actions) ==
  LET after[i \in 0..Len(actions)] ==
        IF i = 0 THEN [global |-> <<>>, scopes |-> <<>>]
        ELSE WithAction(after[i - 1], actions[i])
  IN after[Len(actions)]

build_benchmark_filter_plan(actions) ==
  LET plan == ScopeActions(actions)
      global == parse_axis_filters(plan.global)
      scopes == [i \in DOMAIN plan.scopes |->
                   [name |-> plan.scopes[i].name,
                    filters |-> parse_axis_filters(plan.scopes[i].axes)]]
  IN IF global = Refused \/ \E i \in DOMAIN scopes : scopes[i].filters = Refused
     THEN Refused ELSE [global |-> global, scopes |-> scopes]

\* The alternatives a benchmark's states may satisfy; none: it is not selected.
axis_filter_groups_for_benchmark(name, plan) ==
  IF plan.scopes = <<>> THEN {plan.global}
  ELSE {plan.global \cup scope.filters : scope \in {s \in Range(plan.scopes) : s.name = name}}

matches_axis_filter_groups(state, groups) ==
  \E filters \in groups : matches_axis_filters(state, filters)

-----------------------------------------------------------------------------
(* Devices: a filter is None (all of them) or a sequence of ids. *)

Ids(devices) == {devices[i].id : i \in DOMAIN devices}

select_devices(devices, filter) ==
  IF filter = None THEN devices
  ELSE IF ~ Range(filter) \subseteq Ids(devices) THEN Refused
  ELSE [i \in DOMAIN filter |->
          devices[Max({d \in DOMAIN devices : devices[d].id = filter[i]})]]

resolve_benchmark_device_ids(bench, filter) ==
  IF filter = None THEN bench.devices
  ELSE IF ~ Range(filter) \subseteq Range(bench.devices) THEN Refused
  ELSE filter

-----------------------------------------------------------------------------
(* Benchmarks and states that belong together *)

\* The place of the first one of that name, or 0
find_matching_bench(needle, haystack) ==
  LET same == {i \in DOMAIN haystack : haystack[i].name = needle.name}
  IN IF same = {} THEN 0 ELSE Min(same)

\* Only the prefix of the state's own device is taken away.
state_match_key(state) ==
  IF state.name.prefix = state.device THEN [state.name EXCEPT !.prefix = None] ELSE state.name

\* Mutant: states are told apart by their names alone.
NameOnly(state) == <<state_match_key(state), <<>>>>

state_comparison_key(state) == <<state_match_key(state), state.axes>>

\* Places from the first to the last
InOrder(places) ==
  [k \in 1..Cardinality(places) |->
     CHOOSE i \in places : Cardinality({j \in places : j < i}) = k - 1]

\* The places of a device's selected states, in order
DeviceStates(states, device, groups) ==
  InOrder({i \in DOMAIN states : /\ states[i].device = device
                                 /\ matches_axis_filter_groups(states[i], groups)})

\* The places in a section of the states with a key
Group(states, section, key) ==
  InOrder({i \in Range(section) : state_comparison_key(states[i]) = key})

Keys(states, section) == {state_comparison_key(states[i]) : i \in Range(section)}

\* state_group_counts(ref) = state_group_counts(cmp)
SameGroups(ref_states, ref, cmp_states, cmp) ==
  \A key \in Keys(ref_states, ref) \cup Keys(cmp_states, cmp) :
    Len(Group(ref_states, ref, key)) = Len(Group(cmp_states, cmp, key))

missing_state_summaries_decision(ref, cmp) ==
  IF ref.skipped \/ cmp.skipped THEN Decision("????", "state_skipped")
  ELSE IF None \in {ref.timing, cmp.timing}
  THEN Decision("????", "gpu_timing_summaries_missing")
  ELSE None
=============================================================================
