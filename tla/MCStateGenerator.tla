-------------------------- MODULE MCStateGenerator --------------------------
(***************************************************************************)
(* Instances of StateGenerator: up to two type axes with every mask, up to *)
(* two other axes, one of which may be empty, and devices that are absent, *)
(* one, two, or one listed twice.                                          *)
(***************************************************************************)
EXTENDS StateGenerator

TypeAxes == UNION {[size : {n}, active : SUBSET (0..(n - 1))] : n \in 1..3}

OtherAxes == {[size |-> n, active |-> 0..(n - 1)] : n \in {0, 1, 2, 3}}

UpTo2(axes) == {<<>>} \cup {<<a>> : a \in axes} \cup {<<a, b>> : a, b \in axes}

AllBenchmarks ==
  [type_axes : UpTo2(TypeAxes), other_axes : UpTo2(OtherAxes),
   devices : {<<>>, <<0>>, <<1, 0>>, <<0, 0>>}]
=============================================================================
