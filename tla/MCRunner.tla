------------------------------ MODULE MCRunner ------------------------------
(***************************************************************************)
(* Instances of Runner: a benchmark of two type configurations on two      *)
(* devices, one of the CPU alone with a masked type configuration, and one *)
(* of a single state.                                                      *)
(***************************************************************************)
EXTENDS Runner

\* The states of StateGenerator, for these active type configurations and one
\* other axis of n values
Generated(devices, types, n) ==
  LET per_device == Len(types) * n IN
    [i \in 1..(Len(devices) * per_device) |->
       [device |-> devices[((i - 1) \div per_device) + 1],
        type_config_index |-> types[(((i - 1) % per_device) \div n) + 1]]]

OnTwoDevices ==
  [num_type_configs |-> 2, devices |-> <<1, 0>>,
   states |-> Generated(<<1, 0>>, <<0, 1>>, 1)]

CpuOnly ==
  [num_type_configs |-> 3, devices |-> <<>>,
   states |-> Generated(<<NoDevice>>, <<0, 2>>, 2)]

OneState ==
  [num_type_configs |-> 1, devices |-> <<1>>,
   states |-> Generated(<<1>>, <<0>>, 1)]

ThreeBenchmarks == <<OnTwoDevices, CpuOnly, OneState>>

=============================================================================
