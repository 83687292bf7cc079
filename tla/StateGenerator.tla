--------------------------- MODULE StateGenerator ---------------------------
(***************************************************************************)
(* How a benchmark's axes and devices become the states it is run with:    *)
(* state_iterator, which counts through the values of some axes as an      *)
(* odometer does, and state_generator, which uses one for the type axes    *)
(* and one for the others.  A type configuration is known to the runner    *)
(* only by its number, so the generator has to count as the template       *)
(* metaprogram does that instantiates the benchmark for each of them.      *)
(* An axis is its size and the set of its active values; its values are    *)
(* 0 .. size-1, as the code's indices are.                                 *)
(***************************************************************************)
EXTENDS Integers, SequencesExt, FiniteSetsExt

CONSTANT Benchmarks   \* the benchmarks whose states are generated

\* Only a type axis may have values that are not active.
AxisType == [size : Nat, active : SUBSET Nat]

BenchmarkType == [type_axes : Seq(AxisType), other_axes : Seq(AxisType),
                  devices : Seq(Nat)]

ASSUME BenchmarkAssumption ==
  \A b \in Benchmarks :
    /\ b \in BenchmarkType
    /\ \A a \in Range(b.type_axes) : a.active \subseteq 0..(a.size - 1)
    /\ \A a \in Range(b.other_axes) : a.active = 0..(a.size - 1)

VARIABLES
  bench,
  pc,                      \* what is being built
  m_indices,               \* the iterator: [size, index] of every axis
  m_current, m_total,
  m_type_axis_configs,     \* [config, active_mask]
  m_non_type_axis_configs,
  device,                  \* position of the next device
  type_config_index,       \* of the next type configuration for it
  m_states                 \* [config, device, type_config_index]

iterator == <<m_indices, m_current, m_total>>
built == <<m_type_axis_configs, m_non_type_axis_configs>>
states == <<device, type_config_index, m_states>>
vars == <<bench, pc, iterator, built, states>>

NoDevice == -1   \* std::nullopt

Product(sizes) ==
  LET product[n \in 0..Len(sizes)] ==
        IF n = 0 THEN 1 ELSE product[n - 1] * sizes[n]
  IN product[Len(sizes)]

-----------------------------------------------------------------------------
(* state_iterator *)

InitIterator(axes) ==
  /\ m_indices' = [i \in DOMAIN axes |-> [size |-> axes[i].size, index |-> 0]]
  /\ m_current' = 0
  /\ m_total' = Product([i \in DOMAIN axes |-> axes[i].size])

iter_valid == m_current < m_total

Carries(entry) == entry.index + 1 >= entry.size

\* next: the entries up to the first that does not carry are counted.
NextIndices ==
  LET stops == {i \in DOMAIN m_indices : ~Carries(m_indices[i])}
      last == IF stops = {} THEN Len(m_indices) ELSE Min(stops)
  IN [i \in DOMAIN m_indices |->
        IF i > last THEN m_indices[i]
        ELSE [m_indices[i] EXCEPT !.index =
                IF Carries(m_indices[i]) THEN 0 ELSE @ + 1]]

NextIteration ==
  /\ m_indices' = NextIndices
  /\ m_current' = m_current + 1
  /\ UNCHANGED m_total

Indices == [i \in DOMAIN m_indices |-> m_indices[i].index]

-----------------------------------------------------------------------------
(* state_generator *)

\* Mutant: the type axes are counted in the order they are declared.
AsDeclared(axes) == axes

\* The last type axis counts fastest.  The order is its own inverse.
SortTypeAxes(axes) == Reverse(axes)

\* build_axis_configs begins with an iterator of the type axes.
Init ==
  /\ bench \in Benchmarks
  /\ pc = "begin"
  /\ m_indices = <<>> /\ m_current = 0 /\ m_total = 0
  /\ m_type_axis_configs = <<>> /\ m_non_type_axis_configs = <<>>
  /\ device = 1 /\ type_config_index = 0
  /\ m_states = <<>>

Begin ==
  /\ pc = "begin"
  /\ InitIterator(SortTypeAxes(bench.type_axes))
  /\ pc' = "type_axis_configs"
  /\ UNCHANGED <<bench, built, states>>

\* The indices go back to their axes, whose names the code keeps with them.
BuildTypeAxisConfig ==
  /\ pc = "type_axis_configs"
  /\ iter_valid
  /\ LET config == SortTypeAxes(Indices) IN
       m_type_axis_configs' =
         Append(m_type_axis_configs,
                [config |-> config,
                 active_mask |-> \A i \in DOMAIN config :
                                   config[i] \in bench.type_axes[i].active])
  /\ NextIteration
  /\ UNCHANGED <<bench, pc, m_non_type_axis_configs, states>>

TypeAxisConfigsBuilt ==
  /\ pc = "type_axis_configs"
  /\ ~iter_valid
  /\ InitIterator(bench.other_axes)
  /\ pc' = "non_type_axis_configs"
  /\ UNCHANGED <<bench, built, states>>

BuildNonTypeAxisConfig ==
  /\ pc = "non_type_axis_configs"
  /\ iter_valid
  /\ m_non_type_axis_configs' = Append(m_non_type_axis_configs, Indices)
  /\ NextIteration
  /\ UNCHANGED <<bench, pc, m_type_axis_configs, states>>

NonTypeAxisConfigsBuilt ==
  /\ pc = "non_type_axis_configs"
  /\ ~iter_valid
  /\ pc' = "states"
  /\ UNCHANGED <<bench, iterator, built, states>>

\* Mutant: masked configurations get states as well.
NeverMasked(type_config) == FALSE

IsMasked(type_config) == ~type_config.active_mask

\* build_states: every device in turn, or none at all
Devices == IF bench.devices = <<>> THEN <<NoDevice>> ELSE bench.devices

\* add_states_for_device, one type configuration after the other.  Their index
\* counts the masked ones, too.
AtTypeConfig ==
  /\ pc = "states" /\ device <= Len(Devices)
  /\ type_config_index < Len(m_type_axis_configs)

TypeConfig == m_type_axis_configs[type_config_index + 1]

\* The inner loop
StatesOfTypeConfig ==
  [n \in DOMAIN m_non_type_axis_configs |->
     [config |-> TypeConfig.config \o m_non_type_axis_configs[n],
      device |-> Devices[device], type_config_index |-> type_config_index]]

AddStates ==
  /\ AtTypeConfig /\ ~IsMasked(TypeConfig)
  /\ m_states' = m_states \o StatesOfTypeConfig
  /\ type_config_index' = type_config_index + 1
  /\ UNCHANGED <<bench, pc, iterator, built, device>>

SkipMasked ==
  /\ AtTypeConfig /\ IsMasked(TypeConfig)
  /\ type_config_index' = type_config_index + 1
  /\ UNCHANGED <<bench, pc, iterator, built, device, m_states>>

NextDevice ==
  /\ pc = "states" /\ device <= Len(Devices)
  /\ type_config_index >= Len(m_type_axis_configs)
  /\ device' = device + 1 /\ type_config_index' = 0
  /\ UNCHANGED <<bench, pc, iterator, built, m_states>>

Finish ==
  /\ pc = "states" /\ device > Len(Devices)
  /\ pc' = "created"
  /\ UNCHANGED <<bench, iterator, built, states>>

Created == pc = "created" /\ UNCHANGED vars

Step == Begin \/ BuildTypeAxisConfig \/ TypeAxisConfigsBuilt
          \/ BuildNonTypeAxisConfig \/ NonTypeAxisConfigsBuilt
          \/ AddStates \/ SkipMasked \/ NextDevice \/ Finish

Next == Step \/ Created

Spec == Init /\ [][Next]_vars

-----------------------------------------------------------------------------
\* benchmark_base::get_config_count, the total of the progress display
get_config_count ==
  Product([i \in DOMAIN bench.type_axes |->
             Cardinality(bench.type_axes[i].active)])
    * Product([i \in DOMAIN bench.other_axes |-> bench.other_axes[i].size])
    * Len(Devices)

-----------------------------------------------------------------------------
\* a comes before b when the first axis that differs decides.
Precedes(a, b) ==
  \E i \in DOMAIN a :
    a[i] < b[i] /\ \A j \in 1..(i - 1) : a[j] = b[j]

\* The k-th type configuration is the k-th of tl::cartesian_product, whose last
\* type list varies fastest: the runner picks an instantiation by this number.
TypeConfigsMatchInstantiations ==
  /\ \A j, k \in DOMAIN m_type_axis_configs :
       j < k => Precedes(m_type_axis_configs[j].config,
                         m_type_axis_configs[k].config)
  /\ pc \in {"states", "created"} =>
       Len(m_type_axis_configs) =
         Product([i \in DOMAIN bench.type_axes |-> bench.type_axes[i].size])

Axes == bench.type_axes \o bench.other_axes

Occurrences(seq, x) == Cardinality({i \in DOMAIN seq : seq[i] = x})

\* Every choice of an active value on every axis, on every device, gets as many
\* states as the device is listed, nothing else gets any, and the progress
\* display announces them all, by a count made apart from the states.
EveryConfigurationHasItsState ==
  pc = "created" =>
    LET values == UNION {Axes[i].active : i \in DOMAIN Axes}
        choices == {c \in [DOMAIN Axes -> values] :
                      \A i \in DOMAIN Axes : c[i] \in Axes[i].active}
        generated == [i \in DOMAIN m_states |->
                        <<m_states[i].config, m_states[i].device>>]
    IN /\ Range(generated) = choices \X Range(Devices)
       /\ \A s \in Range(generated) :
            Occurrences(generated, s) = Occurrences(Devices, s[2])
       /\ Len(m_states) = get_config_count
=============================================================================
