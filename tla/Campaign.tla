------------------------------ MODULE Campaign ------------------------------
(***************************************************************************)
(* What a run of benchmarks promises about its states, in whatever order   *)
(* they come: each is dealt with once, it is measured or it is skipped,    *)
(* and once the run is asked to stop no further state is measured.  Module *)
(* Runner implements it.                                                   *)
(***************************************************************************)
EXTENDS FiniteSets

CONSTANT States

VARIABLES
  outcome,   \* of every state: "pending", "measured" or "skipped"
  stopped    \* the states whose run has been asked to stop

vars == <<outcome, stopped>>

Pending == {s \in States : outcome[s] = "pending"}

Init ==
  /\ outcome = [s \in States |-> "pending"]
  /\ stopped = {}

Measure(s) ==
  /\ outcome[s] = "pending" /\ s \notin stopped
  /\ outcome' = [outcome EXCEPT ![s] = "measured"]
  /\ UNCHANGED stopped

Skip(s) ==
  /\ outcome[s] = "pending"
  /\ outcome' = [outcome EXCEPT ![s] = "skipped"]
  /\ UNCHANGED stopped

\* A state asks for the rest, or for the rest of its benchmark, to be skipped.
Stop(s, rest) ==
  /\ outcome[s] = "pending" /\ s \notin stopped
  /\ outcome' = [outcome EXCEPT ![s] = "skipped"]
  /\ stopped' = stopped \cup rest

Next == \E s \in States :
  \/ Measure(s)
  \/ Skip(s)
  \/ \E rest \in SUBSET Pending : s \in rest /\ Stop(s, rest)

Spec == Init /\ [][Next]_vars
=============================================================================
