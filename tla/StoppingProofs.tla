--------------------------- MODULE StoppingProofs ---------------------------
(***************************************************************************)
(* What a measurement is told to stop by, and that it does.  The first     *)
(* half is about Session: for every command line, the settings of the      *)
(* benchmarks are those that are written, and each measurement is judged   *)
(* by its own state's.  The second half is about SamplingLoop: for every   *)
(* set of settings, trial length and limit of the criteria, the sampling   *)
(* counts the same trials everywhere and gives up for the reason it says.  *)
(***************************************************************************)
EXTENDS SamplingLoop, Session, FiniteSetTheorems, SequenceTheorems, WellFoundedInduction, TLAPS

-----------------------------------------------------------------------------
(* The inductive invariant *)

\* The arguments of J with this option and key
Of(args, J, opt, key) == {j \in J : args[j].opt = opt /\ args[j].key = key}

Selections(args, J) ==
  {j \in J : args[j].opt = "--stopping-criterion" /\ args[j].key \in Criteria}

\* Those of a parameter after the last selection
ParamsOf(args, J, p) ==
  {j \in Of(args, J, "parameter", p) : \A k \in Selections(args, J) : k < j}

ValueOf(args, given, key, otherwise) ==
  IF given = {} THEN otherwise ELSE Stored(key, args[Max(given)].val)

CriterionOf(args, J, d) ==
  IF Selections(args, J) = {} THEN d.stopping_criterion ELSE args[Max(Selections(args, J))].key

InitialOf(args, J, d) ==
  IF Selections(args, J) = {} THEN d.criterion_params ELSE Defaults[CriterionOf(args, J, d)]

\* What the arguments J make of the benchmark d
DevicesTold(args, J, d, devices) ==
  devices = IF d.is_cpu_only \/ Of(args, J, "--devices", "") = {} THEN d.devices
            ELSE parse_devices(args[Max(Of(args, J, "--devices", ""))].val)

CriterionTold(args, J, d, chosen, params) ==
  /\ chosen = CriterionOf(args, J, d) /\ chosen \in Criteria
  /\ params = [p \in DOMAIN Defaults[chosen] |->
                 ValueOf(args, ParamsOf(args, J, p), p, InitialOf(args, J, d)[p])]
  /\ \A p : ParamsOf(args, J, p) # {} => p \in DOMAIN Defaults[chosen]

PropsTold(args, J, d, props) ==
  props = [k \in Props |-> ValueOf(args, Of(args, J, "property", k), k, d.props[k])]

AxesTold(args, J, d, axes) ==
  axes = [x \in DOMAIN d.axes |->
            LET given == Of(args, J, "--axis", x)
            IN IF given = {} THEN d.axes[x] ELSE {args[Max(given)].val}]

FlagsTold(args, J, d, once, disabled, skipped) ==
  /\ once = (d.run_once \/ Of(args, J, "--profile", "") # {})
  /\ disabled = (d.disable_blocking_kernel \/ Of(args, J, "--profile", "") # {})
  /\ Of(args, J, "--no-batch", "") # {} => skipped

Configured(args, J, d, b) ==
  /\ d \in Range(Registered)
  /\ DOMAIN b = BenchmarkFields /\ b.name = d.name /\ b.is_cpu_only = d.is_cpu_only
  /\ DevicesTold(args, J, d, b.devices)
  /\ CriterionTold(args, J, d, b.stopping_criterion, b.criterion_params)
  /\ PropsTold(args, J, d, b.props)
  /\ AxesTold(args, J, d, b.axes)
  /\ FlagsTold(args, J, d, b.run_once, b.disable_blocking_kernel, b.skip_batched)

-----------------------------------------------------------------------------
(* Finite sets of numbers *)

LEMMA Greatest ==
  ASSUME NEW S \in SUBSET Int, IsFiniteSet(S), S # {}
  PROVE  \E g \in S : \A y \in S : y <= g
  <1>1. IsWellFoundedOn(StrictSubsetOrdering(S), SUBSET S)
    BY FS_StrictSubsetOrderingWellFounded, FS_FiniteSubsetsOfFinite
  <1> DEFINE Above(v) == {u \in S : u > v}
             above == {Above(v) : v \in S}
  <1>2. above \subseteq SUBSET S /\ above # {}
    OBVIOUS
  <1> HIDE DEF above
  <1>3. PICK a \in above : \A y \in above : ~ (<<y, a>> \in StrictSubsetOrdering(S))
    BY <1>1, <1>2, WFMin
  <1>4. PICK v \in S : a = Above(v)
    BY <1>3 DEF above
  <1>5. ASSUME NEW y \in S, y > v
        PROVE  FALSE
    <2>1. Above(y) \in above
      BY DEF above
    <2>2. \A u \in S : u > y => u > v
      BY <1>5
    <2>3. Above(y) \subseteq Above(v)
      BY <2>2
    <2>4. y \in Above(v)
      BY <1>5
    <2>5. y \in Int /\ ~ (y < y)
      OBVIOUS
    <2>6. <<Above(y), a>> \in StrictSubsetOrdering(S)
      BY <1>4, <2>3, <2>4, <2>5 DEF StrictSubsetOrdering
    <2> QED
      BY <1>3, <2>1, <2>6
  <1> QED
    BY <1>5

LEMMA MaxIsGreatest ==
  ASSUME NEW S \in SUBSET Int, IsFiniteSet(S), S # {}
  PROVE  Max(S) \in S /\ \A y \in S : y <= Max(S)
  BY Greatest DEF Max

\* A number beyond all of a set is its greatest when it joins it.
LEMMA MaxOfLater ==
  ASSUME NEW S \in SUBSET Nat, NEW j \in Nat, \A i \in S : i < j
  PROVE  Max(S \cup {j}) = j
  <1>1. j \in S \cup {j} /\ \A y \in S \cup {j} : j >= y
    OBVIOUS
  <1>2. \A x \in S \cup {j} : (\A y \in S \cup {j} : x >= y) => x = j
    OBVIOUS
  <1> QED
    BY <1>1, <1>2 DEF Max

LEMMA LeastOf ==
  ASSUME NEW S \in SUBSET Nat, IsFiniteSet(S), S # {}
  PROVE  \E l \in S : \A y \in S : l <= y
  <1>1. IsWellFoundedOn(StrictSubsetOrdering(S), SUBSET S)
    BY FS_StrictSubsetOrderingWellFounded, FS_FiniteSubsetsOfFinite
  <1> DEFINE Below(v) == {u \in S : u < v}
             below == {Below(v) : v \in S}
  <1>2. below \subseteq SUBSET S /\ below # {}
    OBVIOUS
  <1> HIDE DEF below
  <1>3. PICK a \in below : \A y \in below : ~ (<<y, a>> \in StrictSubsetOrdering(S))
    BY <1>1, <1>2, WFMin
  <1>4. PICK v \in S : a = Below(v)
    BY <1>3 DEF below
  <1>5. ASSUME NEW y \in S, y < v
        PROVE  FALSE
    <2>1. Below(y) \in below
      BY DEF below
    <2>2. \A u \in S : u < y => u < v
      BY <1>5
    <2>3. Below(y) \subseteq Below(v)
      BY <2>2
    <2>4. y \in Below(v)
      BY <1>5
    <2>5. y \in Int /\ ~ (y < y)
      OBVIOUS
    <2>6. <<Below(y), a>> \in StrictSubsetOrdering(S)
      BY <1>4, <2>3, <2>4, <2>5 DEF StrictSubsetOrdering
    <2> QED
      BY <1>3, <2>1, <2>6
  <1> QED
    BY <1>5

-----------------------------------------------------------------------------
(* One more argument *)

\* K are the arguments J and a later one.
Later(J, j, K) ==
  J \in SUBSET Nat /\ j \in Nat /\ K = J \cup {j} /\ \A i \in J : i < j

\* A later argument of that option and key is the last one of them.
LEMMA LastOne ==
  ASSUME NEW args, NEW J, NEW j, NEW K, Later(J, j, K), NEW opt, NEW key, j \in Of(args, K, opt, key)
  PROVE  Max(Of(args, K, opt, key)) = j
  <1>1. Of(args, K, opt, key) = Of(args, J, opt, key) \cup {j}
    BY DEF Of, Later
  <1>2. /\ Of(args, J, opt, key) \in SUBSET Nat /\ j \in Nat
        /\ \A i \in Of(args, J, opt, key) : i < j
    BY DEF Of, Later
  <1>3. Max(Of(args, J, opt, key) \cup {j}) = j
    BY <1>2, MaxOfLater
  <1> QED
    BY <1>1, <1>3

LEMMA OneMoreSelection ==
  ASSUME NEW args, NEW J, NEW j, NEW K, Later(J, j, K)
  PROVE  /\ (args[j].opt = "--stopping-criterion" /\ args[j].key \in Criteria) =>
              /\ Selections(args, K) # {}
              /\ Max(Selections(args, K)) = j
              /\ \A p : ParamsOf(args, K, p) = {}
         /\ args[j].opt # "--stopping-criterion" =>
              Selections(args, K) = Selections(args, J)
  <1>1. (args[j].opt = "--stopping-criterion" /\ args[j].key \in Criteria) =>
           Selections(args, K) = Selections(args, J) \cup {j}
    BY DEF Selections, Later
  <1>2. args[j].opt # "--stopping-criterion" => Selections(args, K) = Selections(args, J)
    BY DEF Selections, Later
  <1>3. Selections(args, J) \in SUBSET Nat /\ j \in Nat /\ \A i \in Selections(args, J) : i < j
    BY DEF Selections, Later
  <1>4. Max(Selections(args, J) \cup {j}) = j
    BY <1>3, MaxOfLater
  <1>5. ASSUME args[j].opt = "--stopping-criterion", args[j].key \in Criteria, NEW p
        PROVE  ParamsOf(args, K, p) = {}
    <2> SUFFICES ASSUME NEW i \in ParamsOf(args, K, p)
                 PROVE  FALSE
      OBVIOUS
    <2>1. i \in K /\ args[i].opt = "parameter" /\ \A k \in Selections(args, K) : k < i
      BY DEF ParamsOf, Of
    <2>2. i \in J /\ j < i
      BY <1>1, <1>5, <2>1 DEF Later
    <2>3. i < j /\ i \in Nat /\ j \in Nat
      BY <2>2 DEF Later
    <2> QED
      BY <2>2, <2>3
  <1> QED
    BY <1>1, <1>2, <1>4, <1>5

LEMMA OneMoreParameter ==
  ASSUME NEW args, NEW J, NEW j, NEW K, Later(J, j, K), NEW p
  PROVE  /\ (args[j].opt = "parameter" /\ args[j].key = p) =>
              /\ ParamsOf(args, K, p) # {}
              /\ Max(ParamsOf(args, K, p)) = j
         /\ (args[j].opt # "--stopping-criterion" /\ ~ (args[j].opt = "parameter" /\ args[j].key = p)) =>
              ParamsOf(args, K, p) = ParamsOf(args, J, p)
  <1>1. args[j].opt # "--stopping-criterion" => Selections(args, K) = Selections(args, J)
    BY OneMoreSelection
  <1>2. \A k \in Selections(args, J) : k < j
    BY DEF Selections, Later
  <1>3. ASSUME args[j].opt = "parameter", args[j].key = p
        PROVE  ParamsOf(args, K, p) = ParamsOf(args, J, p) \cup {j}
    <2>1. Of(args, K, "parameter", p) = Of(args, J, "parameter", p) \cup {j}
      BY <1>3 DEF Of, Later
    <2>2. Selections(args, K) = Selections(args, J)
      BY <1>1, <1>3
    <2> QED
      BY <1>2, <2>1, <2>2 DEF ParamsOf
  <1>4. ParamsOf(args, J, p) \in SUBSET Nat /\ j \in Nat /\ \A i \in ParamsOf(args, J, p) : i < j
    BY DEF ParamsOf, Of, Later
  <1>5. Max(ParamsOf(args, J, p) \cup {j}) = j
    BY <1>4, MaxOfLater
  <1>6. ASSUME args[j].opt # "--stopping-criterion", ~ (args[j].opt = "parameter" /\ args[j].key = p)
        PROVE  ParamsOf(args, K, p) = ParamsOf(args, J, p)
    <2>1. Of(args, K, "parameter", p) = Of(args, J, "parameter", p)
      BY <1>6 DEF Of, Later
    <2> QED
      BY <1>1, <1>6, <2>1 DEF ParamsOf
  <1> QED
    BY <1>3, <1>5, <1>6

\* An argument leaves alone what it is not about.
LEMMA DevicesStay ==
  ASSUME NEW args, NEW J, NEW j, NEW K, Later(J, j, K), NEW d, NEW v, DevicesTold(args, J, d, v),
         args[j].opt # "--devices"
  PROVE  DevicesTold(args, K, d, v)
  <1>1. Of(args, K, "--devices", "") = Of(args, J, "--devices", "")
    BY DEF Of, Later
  <1> QED
    BY <1>1 DEF DevicesTold

LEMMA CriterionStays ==
  ASSUME NEW args, NEW J, NEW j, NEW K, Later(J, j, K), NEW d, NEW c, NEW v, CriterionTold(args, J, d, c, v),
         args[j].opt # "--stopping-criterion", args[j].opt # "parameter"
  PROVE  CriterionTold(args, K, d, c, v)
  <1>1. /\ Selections(args, K) = Selections(args, J)
        /\ \A p : ParamsOf(args, K, p) = ParamsOf(args, J, p)
    BY OneMoreSelection, OneMoreParameter
  <1>2. CriterionOf(args, K, d) = CriterionOf(args, J, d)
    BY <1>1 DEF CriterionOf
  <1>3. InitialOf(args, K, d) = InitialOf(args, J, d)
    BY <1>1, <1>2 DEF InitialOf
  <1> QED
    BY <1>1, <1>2, <1>3 DEF CriterionTold

LEMMA PropsStay ==
  ASSUME NEW args, NEW J, NEW j, NEW K, Later(J, j, K), NEW d, NEW v, PropsTold(args, J, d, v),
         args[j].opt # "property"
  PROVE  PropsTold(args, K, d, v)
  <1>1. \A k : Of(args, K, "property", k) = Of(args, J, "property", k)
    BY DEF Of, Later
  <1> QED
    BY <1>1 DEF PropsTold

LEMMA AxesStay ==
  ASSUME NEW args, NEW J, NEW j, NEW K, Later(J, j, K), NEW d, NEW v, AxesTold(args, J, d, v),
         args[j].opt # "--axis"
  PROVE  AxesTold(args, K, d, v)
  <1>1. \A k : Of(args, K, "--axis", k) = Of(args, J, "--axis", k)
    BY DEF Of, Later
  <1>2. \A x : (IF Of(args, K, "--axis", x) = {} THEN d.axes[x]
                ELSE {args[Max(Of(args, K, "--axis", x))].val})
               = IF Of(args, J, "--axis", x) = {} THEN d.axes[x]
                 ELSE {args[Max(Of(args, J, "--axis", x))].val}
    BY <1>1
  <1> QED
    BY <1>2 DEF AxesTold

LEMMA FlagsStay ==
  ASSUME NEW args, NEW J, NEW j, NEW K, Later(J, j, K), NEW d, NEW u, NEW v, NEW w,
         FlagsTold(args, J, d, u, v, w),
         args[j].opt # "--profile", args[j].opt # "--no-batch"
  PROVE  FlagsTold(args, K, d, u, v, w)
  <1>1. /\ Of(args, K, "--profile", "") = Of(args, J, "--profile", "")
        /\ Of(args, K, "--no-batch", "") = Of(args, J, "--no-batch", "")
    BY DEF Of, Later
  <1> QED
    BY <1>1 DEF FlagsTold

\* A value that is given now is the value.
LEMMA ValueNow ==
  ASSUME NEW args, NEW given, NEW j, given # {}, Max(given) = j, NEW key, NEW otherwise
  PROVE  ValueOf(args, given, key, otherwise) = Stored(key, args[j].val)
  BY DEF ValueOf

LEMMA CriterionSelected ==
  ASSUME NEW args, NEW J, NEW j, NEW K, Later(J, j, K), NEW d,
         args[j].opt = "--stopping-criterion", args[j].key \in Criteria
  PROVE  CriterionTold(args, K, d, args[j].key, Defaults[args[j].key])
  <1>1. /\ Selections(args, K) # {} /\ Max(Selections(args, K)) = j
        /\ \A p : ParamsOf(args, K, p) = {}
    BY OneMoreSelection
  <1>2. CriterionOf(args, K, d) = args[j].key
    BY <1>1 DEF CriterionOf
  <1>3. PICK c \in Criteria : c = args[j].key
    OBVIOUS
  <1>4. InitialOf(args, K, d) = Defaults[c]
    BY <1>1, <1>2, <1>3 DEF InitialOf
  <1>5. \A p : ValueOf(args, ParamsOf(args, K, p), p, InitialOf(args, K, d)[p]) = Defaults[c][p]
    BY <1>1, <1>4 DEF ValueOf
  <1>6. Defaults[c] = [p \in DOMAIN Defaults[c] |-> Defaults[c][p]]
    <2>1. CASE c = "stdrel"
      BY <2>1 DEF Defaults, Criteria
    <2>2. CASE c = "entropy"
      BY <2>2 DEF Defaults, Criteria
    <2>3. CASE c = "sample-count"
      BY <2>3 DEF Defaults, Criteria
    <2> QED
      BY <2>1, <2>2, <2>3 DEF Criteria
  <1>7. Defaults[c] = [p \in DOMAIN Defaults[c] |->
                          ValueOf(args, ParamsOf(args, K, p), p, InitialOf(args, K, d)[p])]
    BY <1>5, <1>6
  <1>8. CriterionTold(args, K, d, c, Defaults[c])
    BY <1>1, <1>2, <1>3, <1>7 DEF CriterionTold
  <1> QED
    BY <1>3, <1>8 
LEMMA ParameterUpdated ==
  ASSUME NEW args, NEW J, NEW j, NEW K, Later(J, j, K), NEW d,
         args[j].opt = "parameter",
         NEW c, NEW v, CriterionTold(args, J, d, c, v), NEW key, key = args[j].key, key \in DOMAIN v,
         NEW w, w = [v EXCEPT ![key] = Stored(key, args[j].val)]
  PROVE  CriterionTold(args, K, d, c, w)
  <1>1. /\ Selections(args, K) = Selections(args, J)
        /\ ParamsOf(args, K, key) # {} /\ Max(ParamsOf(args, K, key)) = j
        /\ \A p : p # key => ParamsOf(args, K, p) = ParamsOf(args, J, p)
    BY OneMoreSelection, OneMoreParameter
  <1>2. CriterionOf(args, K, d) = CriterionOf(args, J, d)
    BY <1>1 DEF CriterionOf
  <1>3. InitialOf(args, K, d) = InitialOf(args, J, d)
    BY <1>1, <1>2 DEF InitialOf
  <1>4. PICK D : D = DOMAIN Defaults[c]
    OBVIOUS
  <1>5. PICK f : f = InitialOf(args, J, d)
    OBVIOUS
  <1>6. v = [p \in D |-> ValueOf(args, ParamsOf(args, J, p), p, f[p])]
    BY <1>4, <1>5 DEF CriterionTold
  <1>7. ValueOf(args, ParamsOf(args, K, key), key, f[key]) = Stored(key, args[j].val)
    BY <1>1, ValueNow
  <1>8. \A p \in D : w[p] = ValueOf(args, ParamsOf(args, K, p), p, f[p])
    BY <1>1, <1>6, <1>7
  <1>9. w = [p \in D |-> ValueOf(args, ParamsOf(args, K, p), p, f[p])]
    BY <1>6, <1>8
  <1>10. \A p : ParamsOf(args, K, p) # {} => p \in D
    <2>1. key \in D
      BY <1>6
    <2> QED
      BY <1>1, <1>4, <2>1 DEF CriterionTold
  <1> QED
    BY <1>2, <1>3, <1>4, <1>5, <1>9, <1>10 DEF CriterionTold

LEMMA PropertyUpdated ==
  ASSUME NEW args, NEW J, NEW j, NEW K, Later(J, j, K), NEW d,
         args[j].opt = "property",
         NEW v, PropsTold(args, J, d, v), NEW key \in Props, key = args[j].key,
         NEW w, w = [v EXCEPT ![key] = Stored(key, args[j].val)]
  PROVE  PropsTold(args, K, d, w)
  <1>a. Of(args, K, "property", key) # {} /\ Max(Of(args, K, "property", key)) = j
    <2>1. j \in Of(args, K, "property", key)
      BY DEF Of, Later
    <2> QED
      BY <2>1, LastOne
  <1>b. \A k : k # key => Of(args, K, "property", k) = Of(args, J, "property", k)
    BY DEF Of, Later
  <1>1. /\ Of(args, K, "property", key) # {} /\ Max(Of(args, K, "property", key)) = j
        /\ \A k : k # key => Of(args, K, "property", k) = Of(args, J, "property", k)
    BY <1>a, <1>b
  <1>2. ValueOf(args, Of(args, K, "property", key), key, d.props[key]) = Stored(key, args[j].val)
    BY <1>1, ValueNow
  <1>3. v = [k \in Props |-> ValueOf(args, Of(args, J, "property", k), k, d.props[k])]
    BY DEF PropsTold
  <1>4. \A k \in Props : w[k] = ValueOf(args, Of(args, K, "property", k), k, d.props[k])
    BY <1>1, <1>2, <1>3
  <1>5. w = [k \in Props |-> ValueOf(args, Of(args, K, "property", k), k, d.props[k])]
    BY <1>3, <1>4
  <1> QED
    BY <1>5 DEF PropsTold

LEMMA AxisUpdated ==
  ASSUME NEW args, NEW J, NEW j, NEW K, Later(J, j, K), NEW d,
         args[j].opt = "--axis",
         NEW v, AxesTold(args, J, d, v), NEW key, key = args[j].key, key \in DOMAIN v,
         NEW w, w = [v EXCEPT ![key] = {args[j].val}]
  PROVE  AxesTold(args, K, d, w)
  <1> DEFINE Axis(L, x) == IF Of(args, L, "--axis", x) = {} THEN d.axes[x]
                             ELSE {args[Max(Of(args, L, "--axis", x))].val}
  <1>a. Of(args, K, "--axis", key) # {} /\ Max(Of(args, K, "--axis", key)) = j
    <2>1. j \in Of(args, K, "--axis", key)
      BY DEF Of, Later
    <2> QED
      BY <2>1, LastOne
  <1>b. \A x : x # key => Of(args, K, "--axis", x) = Of(args, J, "--axis", x)
    BY DEF Of, Later
  <1>1. /\ Of(args, K, "--axis", key) # {} /\ Max(Of(args, K, "--axis", key)) = j
        /\ \A x : x # key => Of(args, K, "--axis", x) = Of(args, J, "--axis", x)
    BY <1>a, <1>b
  <1>2. PICK D : D = DOMAIN d.axes
    OBVIOUS
  <1>3. v = [x \in D |-> Axis(J, x)]
    BY <1>2 DEF AxesTold
  <1>4. Axis(K, key) = {args[j].val} /\ \A x : x # key => Axis(K, x) = Axis(J, x)
    BY <1>1
  <1> HIDE DEF Axis
  <1>5. \A x \in D : w[x] = Axis(K, x)
    BY <1>3, <1>4
  <1>6. w = [x \in D |-> Axis(K, x)]
    BY <1>3, <1>5
  <1> QED
    BY <1>2, <1>6 DEF AxesTold, Axis

LEMMA DevicesUpdated ==
  ASSUME NEW args, NEW J, NEW j, NEW K, Later(J, j, K), NEW d,
         args[j].opt = "--devices", args[j].key = "",
         NEW v, DevicesTold(args, J, d, v)
  PROVE  /\ d.is_cpu_only => DevicesTold(args, K, d, v)
         /\ ~ d.is_cpu_only => DevicesTold(args, K, d, parse_devices(args[j].val))
  <1>1. /\ Of(args, K, "--devices", "") # {}
        /\ Max(Of(args, K, "--devices", "")) = j
    <2>1. j \in Of(args, K, "--devices", "")
      BY DEF Of, Later
    <2> QED
      BY <2>1, LastOne
  <1> QED
    BY <1>1 DEF DevicesTold

LEMMA FlagsUpdated ==
  ASSUME NEW args, NEW J, NEW j, NEW K, Later(J, j, K), NEW d,
         args[j].key = "",
         NEW u, NEW v, NEW w, FlagsTold(args, J, d, u, v, w)
  PROVE  /\ args[j].opt = "--profile" => FlagsTold(args, K, d, TRUE, TRUE, w)
         /\ args[j].opt = "--no-batch" => FlagsTold(args, K, d, u, v, TRUE)
  <1>1. /\ args[j].opt = "--profile" => Of(args, K, "--profile", "") # {}
        /\ args[j].opt = "--no-batch" => Of(args, K, "--no-batch", "") # {}
    BY DEF Of, Later
  <1>2. /\ args[j].opt = "--profile" =>
             Of(args, K, "--no-batch", "") = Of(args, J, "--no-batch", "")
        /\ args[j].opt = "--no-batch" =>
             Of(args, K, "--profile", "") = Of(args, J, "--profile", "")
    BY DEF Of, Later
  <1> QED
    BY <1>1, <1>2 DEF FlagsTold

-----------------------------------------------------------------------------
(* What the handlers do to the last benchmark *)

List(s) == s \in Seq(Range(s))

ParserFields ==
  {"m_benchmarks", "m_global_benchmark_args", "global", "local", "m_recent_devices", "modified",
   "m_printer", "m_have_stdout_printer", "m_exit_after_parsing", "m_used_devices", "error"}

IsParser(p) ==
  /\ DOMAIN p = ParserFields
  /\ List(p.m_benchmarks) /\ p.m_global_benchmark_args \in Seq(Arguments)
  /\ DOMAIN p.global = {"selected", "params"} /\ DOMAIN p.local = {"selected", "params"}

\* The scope s after the argument a
ScopeStep(a, s, t) ==
  /\ a.opt = "--stopping-criterion" =>
       ~ WouldDiscard(s) /\ t.selected = a.key /\ t.params = s.params
  /\ a.opt = "parameter" => t.selected = s.selected /\ t.params = s.params \cup {a.key}
  /\ (a.opt # "--stopping-criterion" /\ a.opt # "parameter") => t = s

\* Only the last of the m benchmarks is another one.
OnlyLast(p, q, m) ==
  /\ IsParser(q) /\ Len(q.m_benchmarks) = m
  /\ \A i \in 1..m : i # m => q.m_benchmarks[i] = p.m_benchmarks[i]
  /\ q.m_global_benchmark_args = p.m_global_benchmark_args /\ q.global = p.global

LEMMA FailIs ==
  ASSUME NEW p, DOMAIN p = ParserFields, NEW why
  PROVE  Fail(p, why).error = why
  BY DEF Fail, ParserFields

LEMMA ListIs ==
  ASSUME NEW s, List(s)
  PROVE  Len(s) \in Nat /\ DOMAIN s = 1..Len(s) /\ s = [i \in 1..Len(s) |-> s[i]]
  <1>1. PICK S : S = Range(s)
    OBVIOUS
  <1>2. s \in Seq(S)
    BY <1>1 DEF List
  <1> QED
    BY <1>2

LEMMA ListOf ==
  ASSUME NEW n \in Nat, NEW s, s = [i \in 1..n |-> s[i]]
  PROVE  List(s) /\ Len(s) = n
  <1>1. PICK S : S = Range(s)
    OBVIOUS
  <1>2. DOMAIN s = 1..n
    OBVIOUS
  <1>3. \A i \in 1..n : s[i] \in S
    BY <1>1, <1>2 DEF Range
  <1>4. s \in [1..n -> S]
    BY <1>3
  <1>5. s \in Seq(S) /\ Len(s) = n
    BY <1>4
  <1> QED
    BY <1>1, <1>5 DEF List

LEMMA ListAppend ==
  ASSUME NEW s, List(s), NEW b
  PROVE  /\ List(Append(s, b)) /\ Len(Append(s, b)) = Len(s) + 1
         /\ Append(s, b)[Len(s) + 1] = b /\ \A i \in 1..Len(s) : Append(s, b)[i] = s[i]
  <1>1. PICK S : S = Range(s) \cup {b}
    OBVIOUS
  <1>2. s \in Seq(Range(s)) /\ Range(s) \subseteq S
    BY <1>1 DEF List
  <1>3. s \in Seq(S) /\ b \in S
    BY <1>1, <1>2
  <1>4. PICK n, t : n = Len(s) /\ t = Append(s, b)
    OBVIOUS
  <1>5. n \in Nat /\ t \in Seq(S) /\ Len(t) = n + 1 /\ t[n + 1] = b /\ \A i \in 1..n : t[i] = s[i]
    BY <1>3, <1>4
  <1>6. t = [i \in 1..(n + 1) |-> t[i]]
    BY <1>5
  <1>7. List(t)
    <2>1. n + 1 \in Nat
      BY <1>5
    <2> QED
      BY <1>6, <2>1, ListOf
  <1> QED
    BY <1>4, <1>5, <1>7

LEMMA WithBenchIs ==
  ASSUME NEW p, IsParser(p), NEW m \in Nat \ {0}, Len(p.m_benchmarks) = m, NEW b, NEW q, q = WithBench(p, b)
  PROVE  /\ OnlyLast(p, q, m) /\ q.m_benchmarks[m] = b
         /\ q.local = p.local /\ q.error = p.error
  <1>1. PICK s : s = p.m_benchmarks
    OBVIOUS
  <1>2. List(s) /\ Len(s) = m
    BY <1>1 DEF IsParser
  <1>3. DOMAIN s = 1..m /\ s = [i \in 1..m |-> s[i]]
    BY <1>2, ListIs
  <1>4. PICK t : t = [s EXCEPT ![m] = b]
    OBVIOUS
  <1>a. t = [i \in 1..m |-> IF i = m THEN b ELSE s[i]]
    <2>1. DOMAIN s = 1..m
      BY <1>3
    <2> QED
      BY <1>4, <2>1
  <1>b. m \in 1..m
    OBVIOUS
  <1>5. t = [i \in 1..m |-> t[i]] /\ t[m] = b /\ \A i \in 1..m : i # m => t[i] = s[i]
    BY <1>a, <1>b
  <1>6. List(t) /\ Len(t) = m
    BY <1>5, ListOf
  <1>7. q = [p EXCEPT !.m_benchmarks = t]
    BY <1>1, <1>2, <1>4 DEF WithBench
  <1>8. DOMAIN p = ParserFields
    BY DEF IsParser
  <1>9. /\ DOMAIN q = ParserFields /\ q.m_benchmarks = t
        /\ q.m_global_benchmark_args = p.m_global_benchmark_args /\ q.global = p.global
        /\ q.local = p.local /\ q.error = p.error
    BY <1>7, <1>8 DEF ParserFields
  <1> QED
    BY <1>1, <1>5, <1>6, <1>9 DEF OnlyLast, IsParser

LEMMA NotGlobal ==
  ASSUME NEW p, IsParser(p), NEW m \in Nat \ {0}, Len(p.m_benchmarks) = m
  PROVE  ~ IsGlobal(p) /\ Bench(p) = p.m_benchmarks[m] /\ ScopeState(p) = p.local
  <1>1. ~ IsGlobal(p)
    BY DEF IsGlobal
  <1> QED
    BY <1>1 DEF Bench, Last, ScopeState

LEMMA WithScopeIs ==
  ASSUME NEW p, IsParser(p), NEW m \in Nat \ {0}, Len(p.m_benchmarks) = m,
         NEW s, DOMAIN s = {"selected", "params"}, NEW q, q = WithScope(p, s)
  PROVE  /\ IsParser(q) /\ q.m_benchmarks = p.m_benchmarks
         /\ q.m_global_benchmark_args = p.m_global_benchmark_args /\ q.global = p.global
         /\ q.local = s /\ q.error = p.error
  <1>1. q = [p EXCEPT !.local = s]
    BY NotGlobal DEF WithScope
  <1>2. DOMAIN p = ParserFields
    BY DEF IsParser
  <1>3. /\ DOMAIN q = ParserFields /\ q.m_benchmarks = p.m_benchmarks
        /\ q.m_global_benchmark_args = p.m_global_benchmark_args /\ q.global = p.global
        /\ q.local = s /\ q.error = p.error
    BY <1>1, <1>2 DEF ParserFields
  <1> QED
    BY <1>3 DEF IsParser

\* The last benchmark and the scope may change together.
LEMMA BothChange ==
  ASSUME NEW p, IsParser(p), NEW m \in Nat \ {0}, Len(p.m_benchmarks) = m,
         NEW b, NEW s, DOMAIN s = {"selected", "params"},
         NEW q, q = WithScope(WithBench(p, b), s)
  PROVE  /\ OnlyLast(p, q, m) /\ q.m_benchmarks[m] = b /\ q.local = s
  <1>1. PICK r : r = WithBench(p, b)
    OBVIOUS
  <1>2. OnlyLast(p, r, m) /\ r.m_benchmarks[m] = b
    BY <1>1, WithBenchIs
  <1>3. IsParser(r) /\ Len(r.m_benchmarks) = m /\ q = WithScope(r, s)
    BY <1>1, <1>2 DEF OnlyLast
  <1>4. /\ IsParser(q) /\ q.m_benchmarks = r.m_benchmarks
        /\ q.m_global_benchmark_args = r.m_global_benchmark_args /\ q.global = r.global
        /\ q.local = s
    BY <1>3, WithScopeIs
  <1> QED
    BY <1>2, <1>4 DEF OnlyLast

LEMMA SelectionConfigures ==
  ASSUME m_map = Defaults,
         NEW args, NEW J, NEW j, NEW K, Later(J, j, K), NEW d, NEW b, Configured(args, J, d, b),
         args[j].opt = "--stopping-criterion", NEW c \in Criteria, c = args[j].key
  PROVE  Configured(args, K, d, SelectCriterion(b, c))
  <1>1. PICK e : e = SelectCriterion(b, c)
    OBVIOUS
  <1>2. DOMAIN b = BenchmarkFields
    BY DEF Configured
  <1>3. e = [b EXCEPT !.stopping_criterion = c, !.criterion_params = Defaults[c]]
    BY <1>1 DEF SelectCriterion
  <1>4. /\ DOMAIN e = BenchmarkFields /\ e.name = b.name /\ e.is_cpu_only = b.is_cpu_only
        /\ e.devices = b.devices /\ e.props = b.props /\ e.axes = b.axes
        /\ e.run_once = b.run_once /\ e.disable_blocking_kernel = b.disable_blocking_kernel
        /\ e.skip_batched = b.skip_batched
        /\ e.stopping_criterion = c /\ e.criterion_params = Defaults[c]
    BY <1>2, <1>3 DEF BenchmarkFields
  <1>5. CriterionTold(args, K, d, c, Defaults[c])
    BY CriterionSelected
  <1>6. DevicesTold(args, K, d, b.devices)
    BY DevicesStay DEF Configured
  <1>7. PropsTold(args, K, d, b.props)
    BY PropsStay DEF Configured
  <1>8. AxesTold(args, K, d, b.axes)
    BY AxesStay DEF Configured
  <1>9. FlagsTold(args, K, d, b.run_once, b.disable_blocking_kernel, b.skip_batched)
    BY FlagsStay DEF Configured
  <1>10. d \in Range(Registered) /\ b.name = d.name /\ b.is_cpu_only = d.is_cpu_only
    BY DEF Configured
  <1>11. Configured(args, K, d, e)
    BY <1>4, <1>5, <1>6, <1>7, <1>8, <1>9, <1>10 DEF Configured
  <1> QED
    BY <1>1, <1>11

LEMMA ParameterConfigures ==
  ASSUME NEW args, NEW J, NEW j, NEW K, Later(J, j, K), NEW d, NEW b, Configured(args, J, d, b),
         args[j].opt = "parameter", NEW key, key = args[j].key, key \in DOMAIN b.criterion_params
  PROVE  Configured(args, K, d, [b EXCEPT !.criterion_params[key] = Stored(key, args[j].val)])
  <1>1. PICK e : e = [b EXCEPT !.criterion_params[key] = Stored(key, args[j].val)]
    OBVIOUS
  <1>2. DOMAIN b = BenchmarkFields
    BY DEF Configured
  <1>3. PICK v, w : v = b.criterion_params /\ w = [v EXCEPT ![key] = Stored(key, args[j].val)]
    OBVIOUS
  <1>4. /\ DOMAIN e = BenchmarkFields /\ e.name = b.name /\ e.is_cpu_only = b.is_cpu_only
        /\ e.devices = b.devices /\ e.props = b.props /\ e.axes = b.axes
        /\ e.run_once = b.run_once /\ e.disable_blocking_kernel = b.disable_blocking_kernel
        /\ e.skip_batched = b.skip_batched
        /\ e.stopping_criterion = b.stopping_criterion /\ e.criterion_params = w
    BY <1>1, <1>2, <1>3 DEF BenchmarkFields
  <1>5. CriterionTold(args, J, d, b.stopping_criterion, v) /\ key \in DOMAIN v
    BY <1>3 DEF Configured
  <1>a. CriterionTold(args, K, d, b.stopping_criterion, w)
    BY <1>3, <1>5, ParameterUpdated
  <1>6. DevicesTold(args, K, d, b.devices)
    BY DevicesStay DEF Configured
  <1>7. PropsTold(args, K, d, b.props)
    BY PropsStay DEF Configured
  <1>8. AxesTold(args, K, d, b.axes)
    BY AxesStay DEF Configured
  <1>9. FlagsTold(args, K, d, b.run_once, b.disable_blocking_kernel, b.skip_batched)
    BY FlagsStay DEF Configured
  <1>10. d \in Range(Registered) /\ b.name = d.name /\ b.is_cpu_only = d.is_cpu_only
    BY DEF Configured
  <1>11. Configured(args, K, d, e)
    BY <1>4, <1>a, <1>6, <1>7, <1>8, <1>9, <1>10 DEF Configured
  <1> QED
    BY <1>1, <1>11

LEMMA PropertyConfigures ==
  ASSUME NEW args, NEW J, NEW j, NEW K, Later(J, j, K), NEW d, NEW b, Configured(args, J, d, b),
         args[j].opt = "property", NEW key \in Props, key = args[j].key
  PROVE  Configured(args, K, d, [b EXCEPT !.props[key] = Stored(key, args[j].val)])
  <1>1. PICK e : e = [b EXCEPT !.props[key] = Stored(key, args[j].val)]
    OBVIOUS
  <1>2. DOMAIN b = BenchmarkFields
    BY DEF Configured
  <1>3. PICK v, w : v = b.props /\ w = [v EXCEPT ![key] = Stored(key, args[j].val)]
    OBVIOUS
  <1>4. /\ DOMAIN e = BenchmarkFields /\ e.name = b.name /\ e.is_cpu_only = b.is_cpu_only
        /\ e.devices = b.devices /\ e.props = w /\ e.axes = b.axes
        /\ e.run_once = b.run_once /\ e.disable_blocking_kernel = b.disable_blocking_kernel
        /\ e.skip_batched = b.skip_batched
        /\ e.stopping_criterion = b.stopping_criterion /\ e.criterion_params = b.criterion_params
    BY <1>1, <1>2, <1>3 DEF BenchmarkFields
  <1>5. PropsTold(args, J, d, v)
    BY <1>3 DEF Configured
  <1>a. PropsTold(args, K, d, w)
    BY <1>3, <1>5, PropertyUpdated
  <1>6. DevicesTold(args, K, d, b.devices)
    BY DevicesStay DEF Configured
  <1>7. CriterionTold(args, K, d, b.stopping_criterion, b.criterion_params)
    BY CriterionStays DEF Configured
  <1>8. AxesTold(args, K, d, b.axes)
    BY AxesStay DEF Configured
  <1>9. FlagsTold(args, K, d, b.run_once, b.disable_blocking_kernel, b.skip_batched)
    BY FlagsStay DEF Configured
  <1>10. d \in Range(Registered) /\ b.name = d.name /\ b.is_cpu_only = d.is_cpu_only
    BY DEF Configured
  <1>11. Configured(args, K, d, e)
    BY <1>4, <1>a, <1>6, <1>7, <1>8, <1>9, <1>10 DEF Configured
  <1> QED
    BY <1>1, <1>11

LEMMA AxisConfigures ==
  ASSUME NEW args, NEW J, NEW j, NEW K, Later(J, j, K), NEW d, NEW b, Configured(args, J, d, b),
         args[j].opt = "--axis", NEW key, key = args[j].key, key \in DOMAIN b.axes
  PROVE  Configured(args, K, d, [b EXCEPT !.axes[key] = {args[j].val}])
  <1>1. PICK e : e = [b EXCEPT !.axes[key] = {args[j].val}]
    OBVIOUS
  <1>2. DOMAIN b = BenchmarkFields
    BY DEF Configured
  <1>3. PICK v, w : v = b.axes /\ w = [v EXCEPT ![key] = {args[j].val}]
    OBVIOUS
  <1>4. /\ DOMAIN e = BenchmarkFields /\ e.name = b.name /\ e.is_cpu_only = b.is_cpu_only
        /\ e.devices = b.devices /\ e.props = b.props /\ e.axes = w
        /\ e.run_once = b.run_once /\ e.disable_blocking_kernel = b.disable_blocking_kernel
        /\ e.skip_batched = b.skip_batched
        /\ e.stopping_criterion = b.stopping_criterion /\ e.criterion_params = b.criterion_params
    BY <1>1, <1>2, <1>3 DEF BenchmarkFields
  <1>5. AxesTold(args, J, d, v) /\ key \in DOMAIN v
    BY <1>3 DEF Configured
  <1>a. AxesTold(args, K, d, w)
    BY <1>3, <1>5, AxisUpdated
  <1>6. DevicesTold(args, K, d, b.devices)
    BY DevicesStay DEF Configured
  <1>7. CriterionTold(args, K, d, b.stopping_criterion, b.criterion_params)
    BY CriterionStays DEF Configured
  <1>8. PropsTold(args, K, d, b.props)
    BY PropsStay DEF Configured
  <1>9. FlagsTold(args, K, d, b.run_once, b.disable_blocking_kernel, b.skip_batched)
    BY FlagsStay DEF Configured
  <1>10. d \in Range(Registered) /\ b.name = d.name /\ b.is_cpu_only = d.is_cpu_only
    BY DEF Configured
  <1>11. Configured(args, K, d, e)
    BY <1>4, <1>a, <1>6, <1>7, <1>8, <1>9, <1>10 DEF Configured
  <1> QED
    BY <1>1, <1>11

LEMMA DevicesConfigure ==
  ASSUME NEW args, NEW J, NEW j, NEW K, Later(J, j, K), NEW d, NEW b, Configured(args, J, d, b),
         args[j].opt = "--devices", args[j].key = ""
  PROVE  Configured(args, K, d, IF b.is_cpu_only THEN b
                                ELSE [b EXCEPT !.devices = parse_devices(args[j].val)])
  <1>1. PICK e : e = IF b.is_cpu_only THEN b ELSE [b EXCEPT !.devices = parse_devices(args[j].val)]
    OBVIOUS
  <1>2. DOMAIN b = BenchmarkFields
    BY DEF Configured
  <1>3. PICK v, w : v = b.devices /\ w = IF d.is_cpu_only THEN v ELSE parse_devices(args[j].val)
    OBVIOUS
  <1>10. d \in Range(Registered) /\ b.name = d.name /\ b.is_cpu_only = d.is_cpu_only
    BY DEF Configured
  <1>4. /\ DOMAIN e = BenchmarkFields /\ e.name = b.name /\ e.is_cpu_only = b.is_cpu_only
        /\ e.devices = w /\ e.props = b.props /\ e.axes = b.axes
        /\ e.run_once = b.run_once /\ e.disable_blocking_kernel = b.disable_blocking_kernel
        /\ e.skip_batched = b.skip_batched
        /\ e.stopping_criterion = b.stopping_criterion /\ e.criterion_params = b.criterion_params
    <2>1. CASE b.is_cpu_only
      BY <1>1, <1>2, <1>3, <1>10, <2>1
    <2>2. CASE ~ b.is_cpu_only
      BY <1>1, <1>2, <1>3, <1>10, <2>2 DEF BenchmarkFields
    <2> QED
      BY <2>1, <2>2
  <1>5. DevicesTold(args, J, d, v)
    BY <1>3 DEF Configured
  <1>12. /\ d.is_cpu_only => DevicesTold(args, K, d, v)
         /\ ~ d.is_cpu_only => DevicesTold(args, K, d, parse_devices(args[j].val))
    BY <1>5, DevicesUpdated
  <1>a. DevicesTold(args, K, d, w)
    BY <1>3, <1>12
  <1>6. PropsTold(args, K, d, b.props)
    BY PropsStay DEF Configured
  <1>7. CriterionTold(args, K, d, b.stopping_criterion, b.criterion_params)
    BY CriterionStays DEF Configured
  <1>8. AxesTold(args, K, d, b.axes)
    BY AxesStay DEF Configured
  <1>9. FlagsTold(args, K, d, b.run_once, b.disable_blocking_kernel, b.skip_batched)
    BY FlagsStay DEF Configured
  <1>11. Configured(args, K, d, e)
    BY <1>4, <1>a, <1>6, <1>7, <1>8, <1>9, <1>10 DEF Configured
  <1> QED
    BY <1>1, <1>11

LEMMA ProfileConfigures ==
  ASSUME NEW args, NEW J, NEW j, NEW K, Later(J, j, K), NEW d, NEW b, Configured(args, J, d, b),
         args[j].opt = "--profile", args[j].key = ""
  PROVE  Configured(args, K, d, [b EXCEPT !.disable_blocking_kernel = TRUE, !.run_once = TRUE])
  <1>1. PICK e : e = [b EXCEPT !.disable_blocking_kernel = TRUE, !.run_once = TRUE]
    OBVIOUS
  <1>2. DOMAIN b = BenchmarkFields
    BY DEF Configured
  <1>4. /\ DOMAIN e = BenchmarkFields /\ e.name = b.name /\ e.is_cpu_only = b.is_cpu_only
        /\ e.devices = b.devices /\ e.props = b.props /\ e.axes = b.axes
        /\ e.run_once = TRUE /\ e.disable_blocking_kernel = TRUE
        /\ e.skip_batched = b.skip_batched
        /\ e.stopping_criterion = b.stopping_criterion /\ e.criterion_params = b.criterion_params
    BY <1>1, <1>2 DEF BenchmarkFields
  <1>5. FlagsTold(args, J, d, b.run_once, b.disable_blocking_kernel, b.skip_batched)
    BY DEF Configured
  <1>a. FlagsTold(args, K, d, TRUE, TRUE, b.skip_batched)
    BY <1>5, FlagsUpdated
  <1>6. PropsTold(args, K, d, b.props)
    BY PropsStay DEF Configured
  <1>7. CriterionTold(args, K, d, b.stopping_criterion, b.criterion_params)
    BY CriterionStays DEF Configured
  <1>8. AxesTold(args, K, d, b.axes)
    BY AxesStay DEF Configured
  <1>9. DevicesTold(args, K, d, b.devices)
    BY DevicesStay DEF Configured
  <1>10. d \in Range(Registered) /\ b.name = d.name /\ b.is_cpu_only = d.is_cpu_only
    BY DEF Configured
  <1>11. Configured(args, K, d, e)
    BY <1>4, <1>a, <1>6, <1>7, <1>8, <1>9, <1>10 DEF Configured
  <1> QED
    BY <1>1, <1>11

LEMMA BatchedConfigures ==
  ASSUME NEW args, NEW J, NEW j, NEW K, Later(J, j, K), NEW d, NEW b, Configured(args, J, d, b),
         args[j].opt = "--no-batch", args[j].key = ""
  PROVE  Configured(args, K, d, [b EXCEPT !.skip_batched = TRUE])
  <1>1. PICK e : e = [b EXCEPT !.skip_batched = TRUE]
    OBVIOUS
  <1>2. DOMAIN b = BenchmarkFields
    BY DEF Configured
  <1>4. /\ DOMAIN e = BenchmarkFields /\ e.name = b.name /\ e.is_cpu_only = b.is_cpu_only
        /\ e.devices = b.devices /\ e.props = b.props /\ e.axes = b.axes
        /\ e.run_once = b.run_once /\ e.disable_blocking_kernel = b.disable_blocking_kernel
        /\ e.skip_batched = TRUE
        /\ e.stopping_criterion = b.stopping_criterion /\ e.criterion_params = b.criterion_params
    BY <1>1, <1>2 DEF BenchmarkFields
  <1>5. FlagsTold(args, J, d, b.run_once, b.disable_blocking_kernel, b.skip_batched)
    BY DEF Configured
  <1>a. FlagsTold(args, K, d, b.run_once, b.disable_blocking_kernel, TRUE)
    BY <1>5, FlagsUpdated
  <1>6. PropsTold(args, K, d, b.props)
    BY PropsStay DEF Configured
  <1>7. CriterionTold(args, K, d, b.stopping_criterion, b.criterion_params)
    BY CriterionStays DEF Configured
  <1>8. AxesTold(args, K, d, b.axes)
    BY AxesStay DEF Configured
  <1>9. DevicesTold(args, K, d, b.devices)
    BY DevicesStay DEF Configured
  <1>10. d \in Range(Registered) /\ b.name = d.name /\ b.is_cpu_only = d.is_cpu_only
    BY DEF Configured
  <1>11. Configured(args, K, d, e)
    BY <1>4, <1>a, <1>6, <1>7, <1>8, <1>9, <1>10 DEF Configured
  <1> QED
    BY <1>1, <1>11

\* An option that the parser accepts for the last benchmark makes of it what is
\* told, and of nothing else.
Accepted(p, m, args, J, j, d) ==
  /\ m_map = Defaults /\ IsParser(p) /\ p.error = "none"
  /\ m \in Nat \ {0} /\ Len(p.m_benchmarks) = m
  /\ args[j] \in Arguments
  /\ Configured(args, J, d, p.m_benchmarks[m])

LEMMA SelectionAccepted ==
  ASSUME NEW p, NEW m, NEW args, NEW J, NEW j, NEW K, Later(J, j, K), NEW d, Accepted(p, m, args, J, j, d),
         args[j].opt = "--stopping-criterion",
         NEW q, q = set_stopping_criterion(p, args[j]), q.error = "none"
  PROVE  /\ OnlyLast(p, q, m) /\ Configured(args, K, d, q.m_benchmarks[m])
         /\ ScopeStep(args[j], p.local, q.local)
  <1>1. PICK a : a = args[j]
    OBVIOUS
  <1>2. PICK b, s : b = p.m_benchmarks[m] /\ s = p.local
    OBVIOUS
  <1>3. IsParser(p) /\ m \in Nat \ {0} /\ Len(p.m_benchmarks) = m
    BY DEF Accepted
  <1>4. ~ IsGlobal(p) /\ Bench(p) = b /\ ScopeState(p) = s
    BY <1>2, <1>3, NotGlobal
  <1>5. \A why : q # Fail(p, why) \/ why = "none"
    BY <1>3, FailIs DEF IsParser
  <1>6. PICK t : t = [s EXCEPT !.selected = a.key]
    OBVIOUS
  <1>7. ~ WouldDiscard(s) /\ a.key \in Criteria /\ q = WithScope(WithBench(p, SelectCriterion(b, a.key)), t)
    BY <1>1, <1>4, <1>5, <1>6 DEF set_stopping_criterion
  <1>8. DOMAIN s = {"selected", "params"}
    BY <1>2, <1>3 DEF IsParser
  <1>9. DOMAIN t = {"selected", "params"} /\ t.selected = a.key /\ t.params = s.params
    BY <1>6, <1>8
  <1>10. PICK e : e = SelectCriterion(b, a.key)
    OBVIOUS
  <1>11. OnlyLast(p, q, m) /\ q.m_benchmarks[m] = e /\ q.local = t
    BY <1>3, <1>7, <1>9, <1>10, BothChange
  <1>12. Configured(args, J, d, b) /\ m_map = Defaults
    BY <1>2 DEF Accepted
  <1>13. Configured(args, K, d, SelectCriterion(b, a.key))
    BY <1>1, <1>7, <1>12, SelectionConfigures
  <1>14. ScopeStep(args[j], s, t)
    BY <1>1, <1>7, <1>9 DEF ScopeStep
  <1> QED
    BY <1>2, <1>10, <1>11, <1>13, <1>14

LEMMA ParameterAccepted ==
  ASSUME NEW p, NEW m, NEW args, NEW J, NEW j, NEW K, Later(J, j, K), NEW d, Accepted(p, m, args, J, j, d),
         args[j].opt = "parameter",
         NEW q, q = update_criterion_prop(p, args[j]), q.error = "none"
  PROVE  /\ OnlyLast(p, q, m) /\ Configured(args, K, d, q.m_benchmarks[m])
         /\ ScopeStep(args[j], p.local, q.local)
  <1>1. PICK a : a = args[j]
    OBVIOUS
  <1>2. PICK b, s : b = p.m_benchmarks[m] /\ s = p.local
    OBVIOUS
  <1>3. IsParser(p) /\ m \in Nat \ {0} /\ Len(p.m_benchmarks) = m
    BY DEF Accepted
  <1>4. ~ IsGlobal(p) /\ Bench(p) = b /\ ScopeState(p) = s
    BY <1>2, <1>3, NotGlobal
  <1>5. \A why : q # Fail(p, why) \/ why = "none"
    BY <1>3, FailIs DEF IsParser
  <1>6. PICK t : t = [s EXCEPT !.params = @ \cup {a.key}]
    OBVIOUS
  <1>7. PICK e : e = [b EXCEPT !.criterion_params[a.key] = Stored(a.key, a.val)]
    OBVIOUS
  <1>8. a.key \in DOMAIN b.criterion_params /\ q = WithScope(WithBench(p, e), t)
    BY <1>1, <1>4, <1>5, <1>6, <1>7 DEF update_criterion_prop
  <1>9. DOMAIN s = {"selected", "params"}
    BY <1>2, <1>3 DEF IsParser
  <1>10. DOMAIN t = {"selected", "params"} /\ t.selected = s.selected /\ t.params = s.params \cup {a.key}
    BY <1>6, <1>9
  <1>11. OnlyLast(p, q, m) /\ q.m_benchmarks[m] = e /\ q.local = t
    BY <1>3, <1>8, <1>10, BothChange
  <1>12. Configured(args, J, d, b)
    BY <1>2 DEF Accepted
  <1>13. Configured(args, K, d, e)
    BY <1>1, <1>7, <1>8, <1>12, ParameterConfigures
  <1>14. ScopeStep(args[j], s, t)
    BY <1>1, <1>10 DEF ScopeStep
  <1> QED
    BY <1>2, <1>11, <1>13, <1>14

LEMMA PropertyAccepted ==
  ASSUME NEW p, NEW m, NEW args, NEW J, NEW j, NEW K, Later(J, j, K), NEW d, Accepted(p, m, args, J, j, d),
         args[j].opt = "property", NEW valid,
         NEW q, q = UpdateProp(p, args[j], valid), q.error = "none"
  PROVE  /\ OnlyLast(p, q, m) /\ Configured(args, K, d, q.m_benchmarks[m])
         /\ ScopeStep(args[j], p.local, q.local)
  <1>1. PICK a : a = args[j]
    OBVIOUS
  <1>2. PICK b, s : b = p.m_benchmarks[m] /\ s = p.local
    OBVIOUS
  <1>3. IsParser(p) /\ m \in Nat \ {0} /\ Len(p.m_benchmarks) = m
    BY DEF Accepted
  <1>4. ~ IsGlobal(p) /\ Bench(p) = b
    BY <1>2, <1>3, NotGlobal
  <1>5. \A why : q # Fail(p, why) \/ why = "none"
    BY <1>3, FailIs DEF IsParser
  <1>6. PICK e : e = [b EXCEPT !.props[a.key] = Stored(a.key, a.val)]
    OBVIOUS
  <1>7. q = WithBench(p, e)
    BY <1>1, <1>4, <1>5, <1>6 DEF UpdateProp
  <1>8. OnlyLast(p, q, m) /\ q.m_benchmarks[m] = e /\ q.local = s
    BY <1>2, <1>3, <1>7, WithBenchIs
  <1>9. Configured(args, J, d, b) /\ a.key \in Props
    BY <1>1, <1>2, OptionParserAssumption DEF Accepted
  <1>10. Configured(args, K, d, e)
    BY <1>1, <1>6, <1>9, PropertyConfigures
  <1>11. ScopeStep(args[j], s, s)
    BY DEF ScopeStep
  <1> QED
    BY <1>2, <1>8, <1>10, <1>11

LEMMA AxisAccepted ==
  ASSUME NEW p, NEW m, NEW args, NEW J, NEW j, NEW K, Later(J, j, K), NEW d, Accepted(p, m, args, J, j, d),
         args[j].opt = "--axis",
         NEW q, q = update_axis(p, args[j]), q.error = "none"
  PROVE  /\ OnlyLast(p, q, m) /\ Configured(args, K, d, q.m_benchmarks[m])
         /\ ScopeStep(args[j], p.local, q.local)
  <1>1. PICK a : a = args[j]
    OBVIOUS
  <1>2. PICK b, s : b = p.m_benchmarks[m] /\ s = p.local
    OBVIOUS
  <1>3. IsParser(p) /\ m \in Nat \ {0} /\ Len(p.m_benchmarks) = m
    BY DEF Accepted
  <1>4. ~ IsGlobal(p) /\ Bench(p) = b
    BY <1>2, <1>3, NotGlobal
  <1>5. \A why : q # Fail(p, why) \/ why = "none"
    BY <1>3, FailIs DEF IsParser
  <1>6. PICK e : e = [b EXCEPT !.axes[a.key] = {a.val}]
    OBVIOUS
  <1>7. a.key \in DOMAIN b.axes /\ q = WithBench(p, e)
    BY <1>1, <1>4, <1>5, <1>6 DEF update_axis
  <1>8. OnlyLast(p, q, m) /\ q.m_benchmarks[m] = e /\ q.local = s
    BY <1>2, <1>3, <1>7, WithBenchIs
  <1>9. Configured(args, J, d, b)
    BY <1>2 DEF Accepted
  <1>10. Configured(args, K, d, e)
    BY <1>1, <1>6, <1>7, <1>9, AxisConfigures
  <1>11. ScopeStep(args[j], s, s)
    BY DEF ScopeStep
  <1> QED
    BY <1>2, <1>8, <1>10, <1>11

LEMMA DevicesAccepted ==
  ASSUME NEW p, NEW m, NEW args, NEW J, NEW j, NEW K, Later(J, j, K), NEW d, Accepted(p, m, args, J, j, d),
         args[j].opt = "--devices",
         NEW q, q = update_devices(p, args[j]), q.error = "none"
  PROVE  /\ OnlyLast(p, q, m) /\ Configured(args, K, d, q.m_benchmarks[m])
         /\ ScopeStep(args[j], p.local, q.local)
  <1>1. PICK a : a = args[j]
    OBVIOUS
  <1>2. PICK b, s : b = p.m_benchmarks[m] /\ s = p.local
    OBVIOUS
  <1>3. IsParser(p) /\ m \in Nat \ {0} /\ Len(p.m_benchmarks) = m
    BY DEF Accepted
  <1>4. ~ IsGlobal(p) /\ Bench(p) = b
    BY <1>2, <1>3, NotGlobal
  <1>5. \A why : q # Fail(p, why) \/ why = "none"
    BY <1>3, FailIs DEF IsParser
  <1>6. PICK e : e = IF b.is_cpu_only THEN b ELSE [b EXCEPT !.devices = parse_devices(a.val)]
    OBVIOUS
  <1>7. PICK r : r = IF b.is_cpu_only THEN p
                     ELSE WithBench(p, [b EXCEPT !.devices = parse_devices(a.val)])
    OBVIOUS
  <1>8. q = [r EXCEPT !.m_recent_devices = parse_devices(a.val)]
    BY <1>1, <1>4, <1>5, <1>7 DEF update_devices
  <1>9. OnlyLast(p, r, m) /\ r.m_benchmarks[m] = e /\ r.local = s
    <2>1. CASE b.is_cpu_only
      BY <1>2, <1>3, <1>6, <1>7, <2>1 DEF OnlyLast
    <2>2. CASE ~ b.is_cpu_only
      BY <1>2, <1>3, <1>6, <1>7, <2>2, WithBenchIs
    <2> QED
      BY <2>1, <2>2
  <1>10. /\ DOMAIN q = ParserFields /\ q.m_benchmarks = r.m_benchmarks
         /\ q.m_global_benchmark_args = r.m_global_benchmark_args /\ q.global = r.global
         /\ q.local = r.local
    <2>1. DOMAIN r = ParserFields
      BY <1>9 DEF OnlyLast, IsParser
    <2> QED
      BY <1>8, <2>1 DEF ParserFields
  <1>11. OnlyLast(p, q, m) /\ q.m_benchmarks[m] = e /\ q.local = s
    BY <1>9, <1>10 DEF OnlyLast, IsParser
  <1>12. Configured(args, J, d, b) /\ a.key = ""
    BY <1>1, <1>2, OptionParserAssumption DEF Accepted
  <1>13. Configured(args, K, d, e)
    BY <1>1, <1>6, <1>12, DevicesConfigure
  <1>14. ScopeStep(args[j], s, s)
    BY DEF ScopeStep
  <1> QED
    BY <1>2, <1>11, <1>13, <1>14

LEMMA FlagAccepted ==
  ASSUME NEW p, NEW m, NEW args, NEW J, NEW j, NEW K, Later(J, j, K), NEW d, Accepted(p, m, args, J, j, d),
         NEW q,
         \/ args[j].opt = "--profile" /\ q = enable_profile(p, args[j])
         \/ args[j].opt = "--no-batch" /\ q = disable_batched(p, args[j])
  PROVE  /\ OnlyLast(p, q, m) /\ Configured(args, K, d, q.m_benchmarks[m])
         /\ ScopeStep(args[j], p.local, q.local)
  <1>1. PICK a : a = args[j]
    OBVIOUS
  <1>2. PICK b, s : b = p.m_benchmarks[m] /\ s = p.local
    OBVIOUS
  <1>3. IsParser(p) /\ m \in Nat \ {0} /\ Len(p.m_benchmarks) = m
    BY DEF Accepted
  <1>4. ~ IsGlobal(p) /\ Bench(p) = b
    BY <1>2, <1>3, NotGlobal
  <1>5. Configured(args, J, d, b) /\ a.key = ""
    BY <1>1, <1>2, OptionParserAssumption DEF Accepted
  <1>6. \E e : q = WithBench(p, e) /\ Configured(args, K, d, e)
    <2>1. CASE a.opt = "--profile" /\ q = enable_profile(p, a)
      <3>1. q = WithBench(p, [b EXCEPT !.disable_blocking_kernel = TRUE, !.run_once = TRUE])
        BY <1>4, <2>1 DEF enable_profile
      <3> QED
        BY <1>1, <1>5, <2>1, <3>1, ProfileConfigures
    <2>2. CASE a.opt = "--no-batch" /\ q = disable_batched(p, a)
      <3>1. q = WithBench(p, [b EXCEPT !.skip_batched = TRUE])
        BY <1>4, <2>2 DEF disable_batched
      <3> QED
        BY <1>1, <1>5, <2>2, <3>1, BatchedConfigures
    <2> QED
      BY <1>1, <2>1, <2>2
  <1>7. PICK e : q = WithBench(p, e) /\ Configured(args, K, d, e)
    BY <1>6
  <1>8. OnlyLast(p, q, m) /\ q.m_benchmarks[m] = e /\ q.local = s
    BY <1>2, <1>3, <1>7, WithBenchIs
  <1>9. ScopeStep(args[j], s, s)
    BY DEF ScopeStep
  <1> QED
    BY <1>2, <1>7, <1>8, <1>9

LEMMA SettingAccepted ==
  ASSUME NEW p, NEW m, NEW args, NEW J, NEW j, NEW K, Later(J, j, K), NEW d, Accepted(p, m, args, J, j, d),
         NEW q, q = HandleSetting(p, args[j]), q.error = "none"
  PROVE  /\ OnlyLast(p, q, m) /\ Configured(args, K, d, q.m_benchmarks[m])
         /\ ScopeStep(args[j], p.local, q.local)
  <1>1. p.error = "none" /\ DOMAIN p = ParserFields
    BY DEF Accepted, IsParser
  <1>2. q # Fail(p, "unrecognized")
    <2>1. Fail(p, "unrecognized").error = "unrecognized"
      BY <1>1, FailIs
    <2> QED
      BY <2>1
  <1>3. PICK o : o = args[j].opt
    OBVIOUS
  <1>4. \/ o = "--stopping-criterion" /\ q = set_stopping_criterion(p, args[j])
        \/ o = "parameter" /\ q = update_criterion_prop(p, args[j])
        \/ o = "property" /\ q = update_int64_prop(p, args[j])
        \/ o = "property" /\ q = update_float64_prop(p, args[j])
        \/ o = "--profile" /\ q = enable_profile(p, args[j])
        \/ o = "--no-batch" /\ q = disable_batched(p, args[j])
        \/ o = "--devices" /\ q = update_devices(p, args[j])
        \/ o = "--axis" /\ q = update_axis(p, args[j])
    BY <1>1, <1>2, <1>3 DEF HandleSetting
  <1>5. CASE o = "--stopping-criterion" /\ q = set_stopping_criterion(p, args[j])
    BY <1>3, <1>5, SelectionAccepted
  <1>6. CASE o = "parameter" /\ q = update_criterion_prop(p, args[j])
    BY <1>3, <1>6, ParameterAccepted
  <1>7. CASE o = "property" /\ (q = update_int64_prop(p, args[j]) \/ q = update_float64_prop(p, args[j]))
    <2>1. PICK valid : q = UpdateProp(p, args[j], valid)
      BY <1>7 DEF update_int64_prop, update_float64_prop
    <2> QED
      BY <1>3, <1>7, <2>1, PropertyAccepted
  <1>8. CASE \/ o = "--profile" /\ q = enable_profile(p, args[j])
             \/ o = "--no-batch" /\ q = disable_batched(p, args[j])
    BY <1>3, <1>8, FlagAccepted
  <1>9. CASE o = "--devices" /\ q = update_devices(p, args[j])
    BY <1>3, <1>9, DevicesAccepted
  <1>10. CASE o = "--axis" /\ q = update_axis(p, args[j])
    BY <1>3, <1>10, AxisAccepted
  <1> QED
    BY <1>4, <1>5, <1>6, <1>7, <1>8, <1>9, <1>10

-----------------------------------------------------------------------------
(* Going through a list of arguments *)

LEMMA StepByStep ==
  ASSUME NEW n \in Nat, NEW S, 0 \in S, \A k \in 0..n : k # n /\ k \in S => k + 1 \in S
  PROVE  \A k \in 0..n : k \in S
  <1>1. PICK P : P = {k \in 0..n : k \notin S}
    OBVIOUS
  <1>2. SUFFICES ASSUME P # {}
                 PROVE  FALSE
    BY <1>1
  <1>3. P \in SUBSET (0..n) /\ P \in SUBSET Nat
    BY <1>1
  <1>a. IsFiniteSet(0..n)
    BY FS_Interval
  <1>4. IsFiniteSet(P)
    BY <1>3, <1>a, FS_Subset
  <1>5. PICK l \in P : \A j \in P : l <= j
    BY <1>2, <1>3, <1>4, LeastOf
  <1>6. l \in Nat /\ l # 0 /\ l <= n
    BY <1>1, <1>5
  <1>7. l - 1 \in 0..n /\ l - 1 # n /\ (l - 1) + 1 = l /\ ~ (l <= l - 1)
    BY <1>6
  <1>8. l - 1 \in S
    BY <1>1, <1>5, <1>7
  <1>9. l \in S
    BY <1>7, <1>8
  <1> QED
    BY <1>1, <1>9

\* The loop over the arguments is run from the first to the last.
Handled(p, g, n, after) ==
  after = [k \in 0..n |-> IF k = 0 THEN p ELSE HandleSetting(after[k - 1], g[k])]

LEMMA HandledAtAll ==
  ASSUME NEW p, NEW g, NEW n \in Nat
  PROVE  \E after : Handled(p, g, n, after)
  <1>1. PICK S : S = {k \in 0..n : \E after : Handled(p, g, k, after)}
    OBVIOUS
  <1>2. 0 \in S
    <2>1. PICK after : after = [i \in 0..0 |-> p]
      OBVIOUS
    <2>2. after = [i \in 0..0 |-> IF i = 0 THEN p ELSE HandleSetting(after[i - 1], g[i])]
      <3>1. \A i \in 0..0 : i = 0
        OBVIOUS
      <3> QED
        BY <2>1, <3>1
    <2> QED
      BY <1>1, <2>2 DEF Handled
  <1>3. ASSUME NEW k \in 0..n, k # n, k \in S
        PROVE  k + 1 \in S
    <2>1. k \in Nat /\ k + 1 \in 0..n
      BY <1>3
    <2>2. PICK before : Handled(p, g, k, before)
      BY <1>1, <1>3
    <2>3. PICK after : after = [i \in 0..(k + 1) |-> IF i = 0 THEN p ELSE HandleSetting(before[i - 1], g[i])]
      OBVIOUS
    <2>4. ASSUME NEW i \in 0..k
          PROVE  after[i] = before[i]
      <3>1. i \in 0..(k + 1)
        BY <2>1
      <3> QED
        BY <2>2, <2>3, <3>1 DEF Handled
    <2>5. \A i \in 0..(k + 1) : i # 0 => i - 1 \in 0..k
      BY <2>1
    <2>6. \A i \in 0..(k + 1) : after[i] = IF i = 0 THEN p ELSE HandleSetting(after[i - 1], g[i])
      BY <2>3, <2>4, <2>5
    <2>7. after = [i \in 0..(k + 1) |-> IF i = 0 THEN p ELSE HandleSetting(after[i - 1], g[i])]
      BY <2>3, <2>6
    <2> QED
      BY <1>1, <2>1, <2>7 DEF Handled
  <1>4. \A k \in 0..n : k \in S
    BY <1>2, <1>3, StepByStep
  <1>5. n \in S
    BY <1>4
  <1> QED
    BY <1>1, <1>5

LEMMA HandleAllIs ==
  ASSUME NEW p, NEW g, NEW n \in Nat, n = Len(g)
  PROVE  \E after : Handled(p, g, n, after) /\ HandleAll(p, g) = after[n]
  <1>1. PICK after : after = CHOOSE f : Handled(p, g, n, f)
    OBVIOUS
  <1>2. Handled(p, g, n, after)
    BY <1>1, HandledAtAll
  <1>3. HandleAll(p, g) = after[n]
    BY <1>1 DEF HandleAll, Handled
  <1> QED
    BY <1>2, <1>3

\* An error stays.
LEMMA ErrorStays ==
  ASSUME NEW p, NEW a, p.error # "none"
  PROVE  HandleSetting(p, a) = p
  BY DEF HandleSetting

LEMMA NoErrorBefore ==
  ASSUME NEW p, NEW g, NEW n \in Nat, NEW after, Handled(p, g, n, after), after[n].error = "none"
  PROVE  \A k \in 0..n : after[k].error = "none"
  <1>1. PICK P : P = {k \in 0..n : after[k].error # "none"}
    OBVIOUS
  <1>2. SUFFICES ASSUME P # {}
                 PROVE  FALSE
    BY <1>1
  <1>3. P \in SUBSET (0..n) /\ P \in SUBSET Int
    BY <1>1
  <1>a. IsFiniteSet(0..n)
    BY FS_Interval
  <1>4. IsFiniteSet(P)
    BY <1>3, <1>a, FS_Subset
  <1>5. PICK k \in P : \A j \in P : j <= k
    BY <1>2, <1>3, <1>4, Greatest
  <1>6. k \in 0..n /\ k # n /\ after[k].error # "none"
    BY <1>1, <1>5
  <1>7. k + 1 \in 0..n /\ k + 1 # 0 /\ (k + 1) - 1 = k /\ ~ (k + 1 <= k)
    BY <1>6
  <1>8. after[k + 1] = HandleSetting(after[k], g[k + 1])
    BY <1>7 DEF Handled
  <1>9. after[k + 1] = after[k]
    BY <1>6, <1>8, ErrorStays
  <1>10. k + 1 \in P
    BY <1>1, <1>6, <1>7, <1>9
  <1> QED
    BY <1>5, <1>7, <1>10

\* The arguments J in their order are the list g.
Listed(args, J, g, places) ==
  /\ g \in Seq(Arguments) /\ J \in SUBSET Nat
  /\ places \in [1..Len(g) -> J]
  /\ \A j \in J : \E k \in 1..Len(g) : places[k] = j
  /\ \A k, l \in 1..Len(g) : k < l => places[k] < places[l]
  /\ \A k \in 1..Len(g) : g[k] = args[places[k]]

UpTo(places, k) == {places[i] : i \in 1..k}

LEMMA UpToNext ==
  ASSUME NEW args, NEW J, NEW g, NEW places, Listed(args, J, g, places),
         NEW k \in 0..Len(g), k # Len(g)
  PROVE  Later(UpTo(places, k), places[k + 1], UpTo(places, k + 1))
  <1>1. PICK n : n = Len(g)
    OBVIOUS
  <1>a. n \in Nat
    BY <1>1 DEF Listed
  <1>b. k \in 0..n /\ k # n
    BY <1>1
  <1>c. places \in [1..n -> J] /\ J \in SUBSET Nat
    BY <1>1 DEF Listed
  <1>2. n \in Nat /\ k \in 0..n /\ k # n /\ \A i \in 1..n : places[i] \in Nat
    BY <1>a, <1>b, <1>c
  <1>3. k + 1 \in 1..n /\ \A i \in 1..k : i \in 1..n /\ i < k + 1
    BY <1>2
  <1>4. \A i \in 1..k : places[i] < places[k + 1]
    BY <1>1, <1>3 DEF Listed
  <1>5. UpTo(places, k) \in SUBSET Nat /\ places[k + 1] \in Nat
    BY <1>2, <1>3 DEF UpTo
  <1>6. \A i : i \in 1..(k + 1) <=> (i \in 1..k \/ i = k + 1)
    BY <1>2
  <1>7. UpTo(places, k + 1) = UpTo(places, k) \cup {places[k + 1]}
    BY <1>6 DEF UpTo
  <1> QED
    BY <1>4, <1>5, <1>7 DEF Later, UpTo

LEMMA Replayed ==
  ASSUME m_map = Defaults, NEW args, NEW J, NEW g, NEW places, Listed(args, J, g, places),
         NEW p, NEW m \in Nat \ {0}, IsParser(p), Len(p.m_benchmarks) = m,
         NEW d, Configured(args, {}, d, p.m_benchmarks[m]),
         NEW q, q = HandleAll(p, g), q.error = "none"
  PROVE  OnlyLast(p, q, m) /\ Configured(args, J, d, q.m_benchmarks[m])
  <1>1. PICK n \in Nat : n = Len(g)
    BY DEF Listed
  <1>2. PICK after : Handled(p, g, n, after) /\ q = after[n]
    BY <1>1, HandleAllIs
  <1>3. \A k \in 0..n : after[k].error = "none"
    BY <1>2, NoErrorBefore
  <1>4. PICK S : S = {k \in 0..n : /\ OnlyLast(p, after[k], m)
                                   /\ Configured(args, UpTo(places, k), d, after[k].m_benchmarks[m])}
    OBVIOUS
  <1>5. 0 \in S
    <2>1. after[0] = p
      BY <1>2 DEF Handled
    <2>2. OnlyLast(p, p, m)
      BY DEF OnlyLast
    <2>3. UpTo(places, 0) = {}
      BY DEF UpTo
    <2> QED
      BY <1>4, <2>1, <2>2, <2>3
  <1>6. ASSUME NEW k \in 0..n, k # n, k \in S
        PROVE  k + 1 \in S
    <2>1. k + 1 \in 0..n /\ k + 1 \in 1..n /\ k + 1 # 0 /\ (k + 1) - 1 = k
      BY <1>6
    <2>2. after[k + 1] = HandleSetting(after[k], g[k + 1])
      BY <1>2, <2>1 DEF Handled
    <2>3. PICK r, s : r = after[k] /\ s = after[k + 1]
      OBVIOUS
    <2>4. PICK U, j, K : U = UpTo(places, k) /\ j = places[k + 1] /\ K = UpTo(places, k + 1)
      OBVIOUS
    <2>5. Later(U, j, K)
      BY <1>1, <1>6, <2>4, UpToNext
    <2>6. g[k + 1] = args[j] /\ args[j] \in Arguments
      BY <1>1, <2>1, <2>4 DEF Listed
    <2>7. OnlyLast(p, r, m) /\ Configured(args, U, d, r.m_benchmarks[m])
      BY <1>4, <1>6, <2>3, <2>4
    <2>8. r.error = "none" /\ s.error = "none"
      BY <1>3, <2>1, <2>3
    <2>9. Accepted(r, m, args, U, j, d)
      BY <2>6, <2>7, <2>8 DEF Accepted, OnlyLast
    <2>10. s = HandleSetting(r, args[j])
      BY <2>2, <2>3, <2>6
    <2>11. OnlyLast(r, s, m) /\ Configured(args, K, d, s.m_benchmarks[m])
      BY <2>5, <2>8, <2>9, <2>10, SettingAccepted
    <2>12. OnlyLast(p, s, m)
      BY <2>7, <2>11 DEF OnlyLast
    <2> QED
      BY <1>4, <2>1, <2>3, <2>4, <2>11, <2>12
  <1>7. n \in S
    <2>1. \A k \in 0..n : k # n /\ k \in S => k + 1 \in S
      BY <1>6
    <2>2. \A k \in 0..n : k \in S
      BY <1>5, <2>1, StepByStep
    <2>3. n \in 0..n
      OBVIOUS
    <2> QED
      BY <2>2, <2>3
  <1>8. UpTo(places, n) = J
    <2>1. places \in [1..n -> J] /\ \A j \in J : \E k \in 1..n : places[k] = j
      BY <1>1 DEF Listed
    <2> QED
      BY <2>1 DEF UpTo
  <1> QED
    BY <1>2, <1>4, <1>7, <1>8

-----------------------------------------------------------------------------
(* The sections of a command line *)

Benchmarks(args, j) == {k \in 1..j : args[k].opt = "--benchmark"}

Section(args, j) == Cardinality(Benchmarks(args, j))

\* The settings in these sections
Told(args, S) == {j \in 1..Len(args) : args[j].opt \in Settings /\ Section(args, j) \in S}

LEMMA BenchmarksAreFinite ==
  ASSUME NEW args, NEW j \in Nat
  PROVE  IsFiniteSet(Benchmarks(args, j)) /\ Section(args, j) \in Nat
  <1>1. IsFiniteSet(1..j)
    BY FS_Interval
  <1>2. Benchmarks(args, j) \subseteq 1..j
    BY DEF Benchmarks
  <1>3. IsFiniteSet(Benchmarks(args, j))
    BY <1>1, <1>2, FS_Subset
  <1> QED
    BY <1>3, FS_CardinalityType DEF Section

LEMMA SectionsFollow ==
  ASSUME NEW args, NEW i \in Nat, NEW j \in Nat, i <= j
  PROVE  Section(args, i) <= Section(args, j)
  <1>1. Benchmarks(args, i) \subseteq Benchmarks(args, j)
    BY DEF Benchmarks
  <1>2. IsFiniteSet(Benchmarks(args, j))
    BY BenchmarksAreFinite
  <1> QED
    BY <1>1, <1>2, FS_Subset DEF Section

\* One more argument on a command line of n
OneMore(args, n, a, more) ==
  args \in Seq(Arguments) /\ n = Len(args) /\ a \in Arguments /\ more = Append(args, a)

LEMMA SectionOfMore ==
  ASSUME NEW args, NEW n, NEW a, NEW more, OneMore(args, n, a, more)
  PROVE  /\ n \in Nat /\ more \in Seq(Arguments) /\ Len(more) = n + 1 /\ more[n + 1] = a
         /\ \A j \in 1..n : more[j] = args[j] /\ Section(more, j) = Section(args, j)
         /\ a.opt = "--benchmark" => Section(more, n + 1) = Section(args, n) + 1
         /\ a.opt # "--benchmark" => Section(more, n + 1) = Section(args, n)
  <1>1. n \in Nat /\ more \in Seq(Arguments) /\ Len(more) = n + 1 /\ more[n + 1] = a
    BY DEF OneMore
  <1>2. \A j \in 1..n : more[j] = args[j]
    BY DEF OneMore
  <1>3. ASSUME NEW j \in 0..n
        PROVE  Benchmarks(more, j) = Benchmarks(args, j)
    <2>1. \A k \in 1..j : more[k] = args[k]
      BY <1>1, <1>2
    <2> QED
      BY <2>1 DEF Benchmarks
  <1>4. \A j \in 1..n : j \in 0..n
    OBVIOUS
  <1>5. \A j \in 1..n : Section(more, j) = Section(args, j)
    BY <1>3, <1>4 DEF Section
  <1>6. n \in 0..n
    BY <1>1
  <1>7. Benchmarks(more, n) = Benchmarks(args, n)
    BY <1>3, <1>6
  <1>8. \A k : k \in 1..(n + 1) <=> (k \in 1..n \/ k = n + 1)
    BY <1>1
  <1>9. ASSUME a.opt = "--benchmark"
        PROVE  Section(more, n + 1) = Section(args, n) + 1
    <2>1. Benchmarks(more, n + 1) = Benchmarks(more, n) \cup {n + 1}
      BY <1>1, <1>8, <1>9 DEF Benchmarks
    <2>2. n + 1 \notin Benchmarks(args, n)
      BY <1>1 DEF Benchmarks
    <2>3. IsFiniteSet(Benchmarks(args, n))
      BY <1>1, BenchmarksAreFinite
    <2> QED
      BY <1>7, <2>1, <2>2, <2>3, FS_AddElement DEF Section
  <1>10. ASSUME a.opt # "--benchmark"
         PROVE  Section(more, n + 1) = Section(args, n)
    <2>1. Benchmarks(more, n + 1) = Benchmarks(more, n)
      BY <1>1, <1>8, <1>10 DEF Benchmarks
    <2> QED
      BY <1>7, <2>1 DEF Section
  <1> QED
    BY <1>1, <1>2, <1>5, <1>9, <1>10

LEMMA ToldMore ==
  ASSUME NEW args, NEW n, NEW a, NEW more, OneMore(args, n, a, more), NEW S
  PROVE  /\ Told(args, S) \in SUBSET (1..n) /\ Told(args, S) \in SUBSET Nat
         /\ a.opt \notin Settings => Told(more, S) = Told(args, S)
         /\ Section(args, n) \notin S => Told(more, S) = Told(args, S) \/ a.opt = "--benchmark"
         /\ (a.opt \in Settings /\ Section(args, n) \in S) =>
              /\ Later(Told(args, S), n + 1, Told(more, S))
              /\ a.opt # "--benchmark"
  <1>1. /\ n \in Nat /\ Len(more) = n + 1 /\ more[n + 1] = a
        /\ \A j \in 1..n : more[j] = args[j] /\ Section(more, j) = Section(args, j)
        /\ a.opt # "--benchmark" => Section(more, n + 1) = Section(args, n)
    BY SectionOfMore
  <1>2. Told(args, S) \in SUBSET (1..n) /\ Told(args, S) \in SUBSET Nat
    BY <1>1 DEF Told, OneMore
  <1>3. \A k : k \in 1..(n + 1) <=> (k \in 1..n \/ k = n + 1)
    BY <1>1
  <1>4. a.opt \in Settings => a.opt # "--benchmark"
    BY DEF Settings
  <1>5. \A k : k \in Told(more, S) <=>
                 k \in Told(args, S) \/ (k = n + 1 /\ a.opt \in Settings /\ Section(more, n + 1) \in S)
    BY <1>1, <1>3 DEF Told, OneMore
  <1>6. ASSUME a.opt \notin Settings
        PROVE  Told(more, S) = Told(args, S)
    BY <1>5, <1>6
  <1>7. ASSUME Section(args, n) \notin S, a.opt # "--benchmark"
        PROVE  Told(more, S) = Told(args, S)
    BY <1>1, <1>5, <1>7
  <1>8. ASSUME a.opt \in Settings, Section(args, n) \in S
        PROVE  Later(Told(args, S), n + 1, Told(more, S))
    <2>1. Told(more, S) = Told(args, S) \cup {n + 1}
      BY <1>1, <1>4, <1>5, <1>8
    <2>2. n + 1 \in Nat /\ \A i \in 1..n : i < n + 1
      BY <1>1
    <2> QED
      BY <1>2, <2>1, <2>2 DEF Later
  <1> QED
    BY <1>2, <1>4, <1>6, <1>7, <1>8

LEMMA ToldNowhere ==
  ASSUME NEW args \in Seq(Arguments), NEW n, n = Len(args), NEW i, i \notin 0..Section(args, n)
  PROVE  Told(args, {i}) = {}
  <1> SUFFICES ASSUME NEW j \in Told(args, {i})
               PROVE  FALSE
    OBVIOUS
  <1>1. n \in Nat /\ j \in 1..n /\ Section(args, j) = i
    BY DEF Told
  <1>2. j \in Nat /\ j <= n
    BY <1>1
  <1>3. Section(args, j) <= Section(args, n) /\ Section(args, j) \in Nat /\ Section(args, n) \in Nat
    BY <1>1, <1>2, SectionsFollow, BenchmarksAreFinite
  <1> QED
    BY <1>1, <1>3

LEMMA ToldTwice ==
  ASSUME NEW args, NEW i, NEW k
  PROVE  Told(args, {i, k}) = Told(args, {i}) \cup Told(args, {k})
  BY DEF Told

-----------------------------------------------------------------------------
(* What is told does not change with what is said later. *)

SameAt(args, more, J) ==
  /\ IsFiniteSet(J) /\ J \in SUBSET Nat
  /\ \A j \in J : more[j] = args[j]

LEMMA SameOf ==
  ASSUME NEW args, NEW more, NEW J, SameAt(args, more, J)
  PROVE  /\ \A opt, key : Of(more, J, opt, key) = Of(args, J, opt, key)
         /\ Selections(more, J) = Selections(args, J)
         /\ \A p : ParamsOf(more, J, p) = ParamsOf(args, J, p)
  <1>1. \A opt, key : Of(more, J, opt, key) = Of(args, J, opt, key)
    BY DEF SameAt, Of
  <1>2. Selections(more, J) = Selections(args, J)
    BY DEF SameAt, Selections
  <1> QED
    BY <1>1, <1>2 DEF ParamsOf

LEMMA SameMax ==
  ASSUME NEW args, NEW more, NEW J, SameAt(args, more, J), NEW T, T \subseteq J, T # {}
  PROVE  more[Max(T)] = args[Max(T)]
  <1>1. T \in SUBSET Int
    BY DEF SameAt
  <1>2. IsFiniteSet(T)
    BY FS_Subset DEF SameAt
  <1>3. Max(T) \in T
    BY <1>1, <1>2, MaxIsGreatest
  <1> QED
    BY <1>3 DEF SameAt

LEMMA SameValue ==
  ASSUME NEW args, NEW more, NEW J, SameAt(args, more, J), NEW T, T \subseteq J,
         NEW key, NEW otherwise
  PROVE  ValueOf(more, T, key, otherwise) = ValueOf(args, T, key, otherwise)
  BY SameMax DEF ValueOf

LEMMA SameCriterion ==
  ASSUME NEW args, NEW more, NEW J, SameAt(args, more, J), NEW d
  PROVE  /\ CriterionOf(more, J, d) = CriterionOf(args, J, d)
         /\ InitialOf(more, J, d) = InitialOf(args, J, d)
  <1>1. Selections(more, J) = Selections(args, J) /\ Selections(args, J) \subseteq J
    BY SameOf DEF Selections
  <1>2. Selections(args, J) # {} => more[Max(Selections(args, J))] = args[Max(Selections(args, J))]
    BY <1>1, SameMax
  <1>3. CriterionOf(more, J, d) = CriterionOf(args, J, d)
    BY <1>1, <1>2 DEF CriterionOf
  <1> QED
    BY <1>1, <1>3 DEF InitialOf

LEMMA SameConfigured ==
  ASSUME NEW args, NEW more, NEW J, SameAt(args, more, J), NEW d, NEW b, Configured(args, J, d, b)
  PROVE  Configured(more, J, d, b)
  <1>1. \A opt, key : /\ Of(more, J, opt, key) = Of(args, J, opt, key)
                      /\ Of(args, J, opt, key) \subseteq J
    BY SameOf DEF Of
  <1>2. \A p : ParamsOf(more, J, p) = ParamsOf(args, J, p) /\ ParamsOf(args, J, p) \subseteq J
    BY SameOf DEF ParamsOf, Of
  <1>3. \A opt, key : Of(args, J, opt, key) # {} =>
           more[Max(Of(args, J, opt, key))] = args[Max(Of(args, J, opt, key))]
    BY <1>1, SameMax
  <1>4. DevicesTold(more, J, d, b.devices)
    BY <1>1, <1>3 DEF Configured, DevicesTold
  <1>5. CriterionTold(more, J, d, b.stopping_criterion, b.criterion_params)
    <2>1. CriterionTold(args, J, d, b.stopping_criterion, b.criterion_params)
      BY DEF Configured
    <2>2. PICK f : f = InitialOf(args, J, d)
      OBVIOUS
    <2>3. f = InitialOf(more, J, d) /\ CriterionOf(more, J, d) = CriterionOf(args, J, d)
      BY <2>2, SameCriterion
    <2>4. ASSUME NEW p
          PROVE  ValueOf(more, ParamsOf(args, J, p), p, f[p]) = ValueOf(args, ParamsOf(args, J, p), p, f[p])
      BY <1>2, SameValue
    <2> QED
      BY <1>2, <2>1, <2>2, <2>3, <2>4 DEF CriterionTold
  <1>6. PropsTold(more, J, d, b.props)
    <2>1. ASSUME NEW k
          PROVE  ValueOf(more, Of(more, J, "property", k), k, d.props[k])
                   = ValueOf(args, Of(args, J, "property", k), k, d.props[k])
      BY <1>1, SameValue
    <2> QED
      BY <2>1 DEF Configured, PropsTold
  <1>7. AxesTold(more, J, d, b.axes)
    <2>1. \A x : (IF Of(more, J, "--axis", x) = {} THEN d.axes[x]
                  ELSE {more[Max(Of(more, J, "--axis", x))].val})
                 = IF Of(args, J, "--axis", x) = {} THEN d.axes[x]
                   ELSE {args[Max(Of(args, J, "--axis", x))].val}
      BY <1>1, <1>3
    <2> QED
      BY <2>1 DEF Configured, AxesTold
  <1>8. FlagsTold(more, J, d, b.run_once, b.disable_blocking_kernel, b.skip_batched)
    BY <1>1 DEF Configured, FlagsTold
  <1> QED
    BY <1>4, <1>5, <1>6, <1>7, <1>8 DEF Configured

-----------------------------------------------------------------------------
(* Scopes *)

\* What a scope remembers of the arguments J
Scope(args, J, s) ==
  /\ s.selected = "none" => Selections(args, J) = {}
  /\ \A j \in J : args[j].opt = "parameter" => args[j].key \in s.params

\* A criterion is selected before its parameters are given.
Ordered(args, J) ==
  \A k \in Selections(args, J), j \in J : args[j].opt = "parameter" => k < j

LEMMA ScopeNext ==
  ASSUME NEW args, NEW J, NEW j, NEW K, Later(J, j, K), NEW s, NEW t,
         Scope(args, J, s), Ordered(args, J), ScopeStep(args[j], s, t)
  PROVE  Scope(args, K, t) /\ Ordered(args, K)
  <1>1. \A i : i \in K <=> i \in J \/ i = j
    BY DEF Later
  <1>2. CASE args[j].opt = "--stopping-criterion"
    <2>1. s.selected = "none" /\ s.params = {} /\ t.selected = args[j].key /\ t.params = {}
      BY <1>2 DEF ScopeStep, WouldDiscard
    <2>2. Selections(args, J) = {} /\ \A i \in J : args[i].opt # "parameter"
      BY <2>1 DEF Scope
    <2>3. \A i \in K : args[i].opt # "parameter"
      BY <1>1, <1>2, <2>2
    <2>4. ASSUME t.selected = "none"
          PROVE  Selections(args, K) = {}
      <3>1. args[j].key \notin Criteria
        BY <2>1, <2>4 DEF Criteria
      <3> QED
        BY <1>1, <2>2, <3>1 DEF Selections
    <2> QED
      BY <2>3, <2>4 DEF Scope, Ordered
  <1>3. CASE args[j].opt # "--stopping-criterion"
    <2>1. Selections(args, K) = Selections(args, J)
      BY <1>1, <1>3 DEF Selections
    <2>2. t.selected = s.selected /\ s.params \subseteq t.params
      BY <1>3 DEF ScopeStep
    <2>3. args[j].opt = "parameter" => args[j].key \in t.params
      BY <1>3 DEF ScopeStep
    <2>4. \A i \in K : args[i].opt = "parameter" => args[i].key \in t.params
      BY <1>1, <2>2, <2>3 DEF Scope
    <2>5. \A k \in Selections(args, J) : k < j
      BY DEF Selections, Later
    <2>6. Ordered(args, K)
      BY <1>1, <2>1, <2>5 DEF Ordered
    <2> QED
      BY <2>1, <2>2, <2>4, <2>6 DEF Scope
  <1> QED
    BY <1>2, <1>3

LEMMA SameScope ==
  ASSUME NEW args, NEW more, NEW J, SameAt(args, more, J)
  PROVE  /\ \A s : Scope(args, J, s) => Scope(more, J, s)
         /\ Ordered(args, J) => Ordered(more, J)
  <1>1. Selections(more, J) = Selections(args, J)
    BY SameOf
  <1>2. \A j \in J : more[j] = args[j]
    BY DEF SameAt
  <1>3. \A s : Scope(args, J, s) => Scope(more, J, s)
    BY <1>1, <1>2 DEF Scope
  <1>4. Ordered(args, J) => Ordered(more, J)
    BY <1>1, <1>2 DEF Ordered
  <1> QED
    BY <1>3, <1>4

LEMMA NothingInScope ==
  ASSUME NEW args, NEW s
  PROVE  Scope(args, {}, s) /\ Ordered(args, {})
  BY DEF Scope, Ordered, Selections

-----------------------------------------------------------------------------
(* The list of the global arguments *)

LEMMA SameListed ==
  ASSUME NEW args, NEW more, NEW J, SameAt(args, more, J), NEW g, NEW places, Listed(args, J, g, places)
  PROVE  Listed(more, J, g, places)
  <1>1. \A k \in 1..Len(g) : g[k] = args[places[k]] /\ places[k] \in J
    BY DEF Listed
  <1>2. \A k \in 1..Len(g) : g[k] = more[places[k]]
    BY <1>1 DEF SameAt
  <1> QED
    BY <1>2 DEF Listed

LEMMA ListedNext ==
  ASSUME NEW args, NEW J, NEW j, NEW K, Later(J, j, K), NEW g, NEW places, Listed(args, J, g, places),
         args[j] \in Arguments
  PROVE  \E longer : Listed(args, K, Append(g, args[j]), longer)
  <1>1. PICK a \in Arguments : a = args[j]
    OBVIOUS
  <1>2. PICK n : n = Len(g)
    OBVIOUS
  <1>3. g \in Seq(Arguments) /\ n \in Nat
    BY <1>2 DEF Listed
  <1>4. PICK h : h = Append(g, a)
    OBVIOUS
  <1>5. h \in Seq(Arguments) /\ Len(h) = n + 1 /\ h[n + 1] = a /\ \A k \in 1..n : h[k] = g[k]
    BY <1>2, <1>3, <1>4
  <1>6. PICK longer : longer = [k \in 1..(n + 1) |-> IF k = n + 1 THEN j ELSE places[k]]
    OBVIOUS
  <1>7. \A k : k \in 1..(n + 1) <=> (k \in 1..n \/ k = n + 1)
    BY <1>3
  <1>8. n + 1 \notin 1..n
    BY <1>3
  <1>9. longer[n + 1] = j /\ \A k \in 1..n : longer[k] = places[k]
    BY <1>6, <1>7, <1>8
  <1>10. /\ J \in SUBSET Nat /\ K \in SUBSET Nat /\ J \subseteq K /\ j \in K
         /\ \A i \in K : i \in J \/ i = j
         /\ \A i \in J : i < j
    BY DEF Later
  <1>11. places \in [1..n -> J] /\ \A i \in J : \E k \in 1..n : places[k] = i
    BY <1>2 DEF Listed
  <1>12. longer \in [1..(n + 1) -> K]
    <2>1. \A k \in 1..(n + 1) : longer[k] \in K
      BY <1>7, <1>9, <1>10, <1>11
    <2> QED
      BY <1>6, <2>1
  <1>13. ASSUME NEW i \in K
         PROVE  \E k \in 1..(n + 1) : longer[k] = i
    BY <1>7, <1>9, <1>10, <1>11
  <1>14. ASSUME NEW k \in 1..(n + 1), NEW l \in 1..(n + 1), k < l
         PROVE  longer[k] < longer[l]
    <2>1. k \in 1..n
      BY <1>3, <1>14
    <2>2. CASE l \in 1..n
      <3>1. places[k] < places[l]
        BY <1>2, <1>14, <2>1, <2>2 DEF Listed
      <3> QED
        BY <1>9, <2>1, <2>2, <3>1
    <2>3. CASE l = n + 1
      BY <1>9, <1>10, <1>11, <2>1, <2>3
    <2> QED
      BY <1>7, <2>2, <2>3
  <1>15. ASSUME NEW k \in 1..(n + 1)
         PROVE  h[k] = args[longer[k]]
    <2>1. \A i \in 1..n : g[i] = args[places[i]]
      BY <1>2 DEF Listed
    <2> QED
      BY <1>1, <1>5, <1>7, <1>9, <2>1
  <1>16. Listed(args, K, h, longer)
    BY <1>5, <1>10, <1>12, <1>13, <1>14, <1>15 DEF Listed
  <1> QED
    BY <1>1, <1>4, <1>16

LEMMA NothingListed ==
  ASSUME NEW args
  PROVE  \E places : Listed(args, {}, <<>>, places)
  <1>1. PICK places : places = [k \in {} |-> 0]
    OBVIOUS
  <1>2. 1..Len(<<>>) = {}
    OBVIOUS
  <1>3. places \in [1..Len(<<>>) -> {}]
    BY <1>1, <1>2
  <1>4. Listed(args, {}, <<>>, places)
    BY <1>2, <1>3 DEF Listed
  <1> QED
    BY <1>4

-----------------------------------------------------------------------------
(* A global setting is kept, and no more than that. *)

LEMMA KeepIs ==
  ASSUME NEW p, IsParser(p), NEW a \in Arguments, NEW q, q = Keep(p, a)
  PROVE  /\ IsParser(q) /\ q.m_benchmarks = p.m_benchmarks
         /\ q.m_global_benchmark_args = Append(p.m_global_benchmark_args, a)
         /\ q.global = p.global /\ q.local = p.local
  <1>1. DOMAIN p = ParserFields
    BY DEF IsParser
  <1>2. /\ DOMAIN q = ParserFields /\ q.m_benchmarks = p.m_benchmarks
        /\ q.m_global_benchmark_args = Append(p.m_global_benchmark_args, a)
        /\ q.global = p.global /\ q.local = p.local
    BY <1>1 DEF Keep, ParserFields
  <1>3. Append(p.m_global_benchmark_args, a) \in Seq(Arguments)
    BY DEF IsParser
  <1> QED
    BY <1>2, <1>3 DEF IsParser

Kept(p, a, q) ==
  /\ IsParser(q) /\ q.m_benchmarks = <<>>
  /\ q.m_global_benchmark_args = Append(p.m_global_benchmark_args, a)
  /\ ScopeStep(a, p.global, q.global)

LEMMA KeptInScope ==
  ASSUME NEW p, IsParser(p), p.m_benchmarks = <<>>, NEW a \in Arguments,
         NEW s, DOMAIN s = {"selected", "params"}, ScopeStep(a, p.global, s),
         NEW q, q = WithScope(Keep(p, a), s)
  PROVE  Kept(p, a, q)
  <1>1. PICK r : r = Keep(p, a)
    OBVIOUS
  <1>2. /\ IsParser(r) /\ r.m_benchmarks = <<>>
        /\ r.m_global_benchmark_args = Append(p.m_global_benchmark_args, a)
    BY <1>1, KeepIs
  <1>3. q = [r EXCEPT !.global = s]
    BY <1>1, <1>2 DEF WithScope, IsGlobal
  <1>4. DOMAIN r = ParserFields
    BY <1>2 DEF IsParser
  <1>5. /\ DOMAIN q = ParserFields /\ q.m_benchmarks = r.m_benchmarks
        /\ q.m_global_benchmark_args = r.m_global_benchmark_args
        /\ q.global = s /\ q.local = r.local
    BY <1>3, <1>4 DEF ParserFields
  <1>6. IsParser(q)
    BY <1>2, <1>5 DEF IsParser
  <1> QED
    BY <1>2, <1>5, <1>6 DEF Kept

LEMMA KeptOnly ==
  ASSUME NEW p, IsParser(p), p.m_benchmarks = <<>>, NEW a \in Arguments,
         a.opt # "--stopping-criterion", a.opt # "parameter",
         NEW q, q = Keep(p, a)
  PROVE  Kept(p, a, q)
  <1>1. ScopeStep(a, p.global, p.global)
    BY DEF ScopeStep
  <1> QED
    BY <1>1, KeepIs DEF Kept

LEMMA GlobalAccepted ==
  ASSUME NEW p, IsParser(p), p.error = "none", p.m_benchmarks = <<>>, NEW a \in Arguments,
         NEW q, q = HandleSetting(p, a), q.error = "none"
  PROVE  Kept(p, a, q)
  <1>1. DOMAIN p = ParserFields /\ IsGlobal(p)
    BY DEF IsParser, IsGlobal
  <1>2. \A why : why # "none" => q # Fail(p, why)
    BY <1>1, FailIs
  <1>3. PICK s : s = p.global
    OBVIOUS
  <1>4. DOMAIN s = {"selected", "params"} /\ ScopeState(p) = s
    BY <1>1, <1>3 DEF IsParser, ScopeState
  <1>5. \/ a.opt = "--stopping-criterion" /\ q = set_stopping_criterion(p, a)
        \/ a.opt = "parameter" /\ q = update_criterion_prop(p, a)
        \/ a.opt = "property" /\ q = update_int64_prop(p, a)
        \/ a.opt = "property" /\ q = update_float64_prop(p, a)
        \/ a.opt = "--profile" /\ q = enable_profile(p, a)
        \/ a.opt = "--no-batch" /\ q = disable_batched(p, a)
        \/ a.opt = "--devices" /\ q = update_devices(p, a)
        \/ a.opt = "--axis" /\ q = update_axis(p, a)
    BY <1>2 DEF HandleSetting
  <1>6. CASE a.opt = "--stopping-criterion" /\ q = set_stopping_criterion(p, a)
    <2>1. PICK t : t = [s EXCEPT !.selected = a.key]
      OBVIOUS
    <2>2. ~ WouldDiscard(s) /\ q = WithScope(Keep(p, a), t)
      BY <1>1, <1>2, <1>4, <1>6, <2>1 DEF set_stopping_criterion
    <2>3. DOMAIN t = {"selected", "params"} /\ t.selected = a.key /\ t.params = s.params
      BY <1>4, <2>1
    <2>4. ScopeStep(a, p.global, t)
      BY <1>3, <1>6, <2>2, <2>3 DEF ScopeStep
    <2> QED
      BY <2>2, <2>3, <2>4, KeptInScope
  <1>7. CASE a.opt = "parameter" /\ q = update_criterion_prop(p, a)
    <2>1. PICK t : t = [s EXCEPT !.params = @ \cup {a.key}]
      OBVIOUS
    <2>2. q = WithScope(Keep(p, a), t)
      BY <1>1, <1>2, <1>4, <1>7, <2>1 DEF update_criterion_prop
    <2>3. DOMAIN t = {"selected", "params"} /\ t.selected = s.selected /\ t.params = s.params \cup {a.key}
      BY <1>4, <2>1
    <2>4. ScopeStep(a, p.global, t)
      BY <1>3, <1>7, <2>3 DEF ScopeStep
    <2> QED
      BY <2>2, <2>3, <2>4, KeptInScope
  <1>8. CASE a.opt = "property" /\ (q = update_int64_prop(p, a) \/ q = update_float64_prop(p, a))
    <2>1. q = Keep(p, a)
      BY <1>1, <1>8 DEF update_int64_prop, update_float64_prop, UpdateProp
    <2> QED
      BY <1>8, <2>1, KeptOnly
  <1>9. CASE a.opt = "--profile" /\ q = enable_profile(p, a)
    <2>1. q = Keep(p, a)
      BY <1>1, <1>9 DEF enable_profile
    <2> QED
      BY <1>9, <2>1, KeptOnly
  <1>10. CASE a.opt = "--no-batch" /\ q = disable_batched(p, a)
    <2>1. q = Keep(p, a)
      BY <1>1, <1>10 DEF disable_batched
    <2> QED
      BY <1>10, <2>1, KeptOnly
  <1>11. CASE a.opt = "--axis" /\ q = update_axis(p, a)
    <2>1. q = Keep(p, a)
      BY <1>1, <1>11 DEF update_axis
    <2> QED
      BY <1>11, <2>1, KeptOnly
  <1>12. CASE a.opt = "--devices" /\ q = update_devices(p, a)
    <2>1. PICK r : r = Keep(p, a)
      OBVIOUS
    <2>2. q = [r EXCEPT !.m_recent_devices = parse_devices(a.val)]
      BY <1>1, <1>2, <1>12, <2>1 DEF update_devices
    <2>3. Kept(p, a, r)
      BY <1>12, <2>1, KeptOnly
    <2>4. IsParser(r) /\ DOMAIN r = ParserFields
      BY <2>3 DEF Kept, IsParser
    <2>5. /\ DOMAIN q = ParserFields /\ q.m_benchmarks = r.m_benchmarks
          /\ q.m_global_benchmark_args = r.m_global_benchmark_args
          /\ q.global = r.global /\ q.local = r.local
      BY <2>2, <2>4 DEF ParserFields
    <2> QED
      BY <2>3, <2>4, <2>5 DEF Kept, IsParser
  <1> QED
    BY <1>5, <1>6, <1>7, <1>8, <1>9, <1>10, <1>11, <1>12

-----------------------------------------------------------------------------
(* A new benchmark *)

LEMMA DeclaredIs ==
  ASSUME NEW name, name \in Names
  PROVE  Declared(name) \in Range(Registered) /\ Declared(name).name = name
  <1>1. PICK n : n = Len(Registered)
    OBVIOUS
  <1>2. n \in Nat /\ DOMAIN Registered = 1..n
    <2>1. List(Registered)
      BY OptionParserAssumption DEF List
    <2> QED
      BY <1>1, <2>1, ListIs
  <1>3. PICK I : I = {i \in 1..n : Registered[i].name = name}
    OBVIOUS
  <1>4. I \in SUBSET (1..n) /\ I \in SUBSET Nat /\ I # {}
    BY <1>2, <1>3 DEF Names
  <1>5. IsFiniteSet(1..n)
    BY <1>2, FS_Interval
  <1>6. IsFiniteSet(I)
    BY <1>4, <1>5, FS_Subset
  <1>7. \E l \in I : \A y \in I : l <= y
    BY <1>4, <1>6, LeastOf
  <1>8. Min(I) \in I
    BY <1>7 DEF Min
  <1>9. Declared(name) = Registered[Min(I)]
    BY <1>1, <1>3, <1>4 DEF Declared, SelectInSeq
  <1> QED
    BY <1>2, <1>3, <1>4, <1>8, <1>9 DEF Range

LEMMA CloneConfigured ==
  ASSUME NEW args, NEW d \in Range(Registered)
  PROVE  Configured(args, {}, d, clone(d))
  <1>1. PICK b : b = clone(d)
    OBVIOUS
  <1>2. /\ DOMAIN d = BenchmarkFields
        /\ {d.run_once, d.disable_blocking_kernel} \subseteq BOOLEAN
        /\ d.axes \in [DOMAIN d.axes -> SUBSET Int]
        /\ d.props \in [Props -> Int]
        /\ d.stopping_criterion \in Criteria
        /\ d.criterion_params \in [DOMAIN Defaults[d.stopping_criterion] -> Int]
    BY OptionParserAssumption
  <1>3. /\ DOMAIN b = BenchmarkFields /\ b.name = d.name /\ b.is_cpu_only = d.is_cpu_only
        /\ b.devices = d.devices /\ b.props = d.props /\ b.axes = d.axes
        /\ b.run_once = d.run_once /\ b.disable_blocking_kernel = d.disable_blocking_kernel
        /\ b.stopping_criterion = d.stopping_criterion /\ b.criterion_params = d.criterion_params
    BY <1>1, <1>2 DEF clone, BenchmarkFields
  <1>4. /\ \A opt, key : Of(args, {}, opt, key) = {}
        /\ Selections(args, {}) = {}
        /\ \A p : ParamsOf(args, {}, p) = {}
    BY DEF Of, Selections, ParamsOf
  <1>5. \A key, otherwise : ValueOf(args, {}, key, otherwise) = otherwise
    BY DEF ValueOf
  <1>6. DevicesTold(args, {}, d, d.devices)
    BY <1>4 DEF DevicesTold
  <1>7. CriterionTold(args, {}, d, d.stopping_criterion, d.criterion_params)
    <2>1. CriterionOf(args, {}, d) = d.stopping_criterion /\ InitialOf(args, {}, d) = d.criterion_params
      BY <1>4 DEF CriterionOf, InitialOf
    <2>2. d.criterion_params = [p \in DOMAIN Defaults[d.stopping_criterion] |-> d.criterion_params[p]]
      BY <1>2
    <2> QED
      BY <1>2, <1>4, <1>5, <2>1, <2>2 DEF CriterionTold
  <1>8. PropsTold(args, {}, d, d.props)
    <2>1. d.props = [k \in Props |-> d.props[k]]
      BY <1>2
    <2> QED
      BY <1>4, <1>5, <2>1 DEF PropsTold
  <1>9. AxesTold(args, {}, d, d.axes)
    <2>1. d.axes = [x \in DOMAIN d.axes |-> d.axes[x]]
      BY <1>2
    <2> QED
      BY <1>4, <2>1 DEF AxesTold
  <1>10. FlagsTold(args, {}, d, d.run_once, d.disable_blocking_kernel, b.skip_batched)
    BY <1>2, <1>4 DEF FlagsTold
  <1>11. Configured(args, {}, d, b)
    BY <1>3, <1>6, <1>7, <1>8, <1>9, <1>10 DEF Configured
  <1> QED
    BY <1>1, <1>11

LEMMA ForgetIs ==
  ASSUME NEW p, IsParser(p), NEW q, q = ForgetScope(p)
  PROVE  /\ IsParser(q) /\ q.m_benchmarks = p.m_benchmarks
         /\ q.m_global_benchmark_args = p.m_global_benchmark_args
         /\ q.global = p.global /\ q.local = NewScope /\ q.error = p.error
  <1>1. DOMAIN p = ParserFields
    BY DEF IsParser
  <1>2. /\ DOMAIN q = ParserFields /\ q.m_benchmarks = p.m_benchmarks
        /\ q.m_global_benchmark_args = p.m_global_benchmark_args
        /\ q.global = p.global /\ q.local = NewScope /\ q.error = p.error
    BY <1>1 DEF ForgetScope, ParserFields
  <1>3. DOMAIN NewScope = {"selected", "params"}
    BY DEF NewScope
  <1> QED
    BY <1>2, <1>3 DEF IsParser

\* Whatever the handlers do, a parser remains.
LEMMA SettingFields ==
  ASSUME NEW p, DOMAIN p = ParserFields, NEW a
  PROVE  DOMAIN HandleSetting(p, a) = ParserFields
  <1>1. PICK q : q = HandleSetting(p, a)
    OBVIOUS
  <1>2. /\ \A why : DOMAIN Fail(p, why) = ParserFields
        /\ DOMAIN Keep(p, a) = ParserFields
        /\ \A b : DOMAIN WithBench(p, b) = ParserFields
    BY DEF Fail, Keep, WithBench
  <1>3. \A s, r : DOMAIN r = ParserFields => DOMAIN WithScope(r, s) = ParserFields
    BY DEF WithScope
  <1>4. \A s : /\ DOMAIN WithScope(Keep(p, a), s) = ParserFields
               /\ \A b : DOMAIN WithScope(WithBench(p, b), s) = ParserFields
    BY <1>2, <1>3
  <1>5. DOMAIN set_stopping_criterion(p, a) = ParserFields
    BY <1>2, <1>4 DEF set_stopping_criterion
  <1>6. DOMAIN update_criterion_prop(p, a) = ParserFields
    BY <1>2, <1>4 DEF update_criterion_prop
  <1>7. \A valid : DOMAIN UpdateProp(p, a, valid) = ParserFields
    BY <1>2 DEF UpdateProp
  <1>8. /\ DOMAIN update_int64_prop(p, a) = ParserFields
        /\ DOMAIN update_float64_prop(p, a) = ParserFields
    BY <1>7 DEF update_int64_prop, update_float64_prop
  <1>9. /\ DOMAIN enable_profile(p, a) = ParserFields
        /\ DOMAIN disable_batched(p, a) = ParserFields
        /\ DOMAIN update_axis(p, a) = ParserFields
    BY <1>2 DEF enable_profile, disable_batched, update_axis
  <1>10. DOMAIN update_devices(p, a) = ParserFields
    <2>1. \A r, v : DOMAIN [r EXCEPT !.m_recent_devices = v] = DOMAIN r
      OBVIOUS
    <2> QED
      BY <1>2, <2>1 DEF update_devices
  <1>11. \/ q = p \/ q = Fail(p, "unrecognized")
         \/ q = set_stopping_criterion(p, a) \/ q = update_criterion_prop(p, a)
         \/ q = update_int64_prop(p, a) \/ q = update_float64_prop(p, a)
         \/ q = enable_profile(p, a) \/ q = disable_batched(p, a)
         \/ q = update_devices(p, a) \/ q = update_axis(p, a)
    <2>1. CASE p.error # "none"
      BY <1>1, <2>1 DEF HandleSetting
    <2>2. CASE p.error = "none"
      <3>1. PICK r : r = Fail(p, "unrecognized")
        OBVIOUS
      <3>2. CASE q # r
        BY <1>1, <2>2, <3>1, <3>2 DEF HandleSetting
      <3> QED
        BY <3>1, <3>2
    <2> QED
      BY <2>1, <2>2
  <1> QED
    BY <1>1, <1>2, <1>5, <1>6, <1>8, <1>9, <1>10, <1>11

LEMMA HandledFields ==
  ASSUME NEW p, DOMAIN p = ParserFields, NEW g \in Seq(Arguments)
  PROVE  DOMAIN HandleAll(p, g) = ParserFields
  <1>1. PICK n \in Nat : n = Len(g)
    OBVIOUS
  <1>2. PICK after : Handled(p, g, n, after) /\ HandleAll(p, g) = after[n]
    BY <1>1, HandleAllIs
  <1>3. PICK S : S = {k \in 0..n : DOMAIN after[k] = ParserFields}
    OBVIOUS
  <1>4. 0 \in S
    BY <1>2, <1>3 DEF Handled
  <1>5. ASSUME NEW k \in 0..n, k # n, k \in S
        PROVE  k + 1 \in S
    <2>1. k + 1 \in 0..n /\ k + 1 # 0 /\ (k + 1) - 1 = k
      BY <1>5
    <2>2. after[k + 1] = HandleSetting(after[k], g[k + 1])
      BY <1>2, <2>1 DEF Handled
    <2> QED
      BY <1>3, <1>5, <2>1, <2>2, SettingFields
  <1>6. \A k \in 0..n : k \in S
    BY <1>4, <1>5, StepByStep
  <1>7. n \in S
    BY <1>6
  <1> QED
    BY <1>2, <1>3, <1>7

\* A parser with one more benchmark, and that as J makes it of d
Added(args, J, p, d, q) ==
  /\ IsParser(q) /\ Len(q.m_benchmarks) = Len(p.m_benchmarks) + 1
  /\ \A i \in 1..Len(p.m_benchmarks) : q.m_benchmarks[i] = p.m_benchmarks[i]
  /\ Configured(args, J, d, q.m_benchmarks[Len(p.m_benchmarks) + 1])
  /\ q.m_global_benchmark_args = p.m_global_benchmark_args
  /\ q.global = p.global /\ q.local = NewScope

LEMMA CloneAdded ==
  ASSUME m_map = Defaults, NEW args, NEW J, NEW p, IsParser(p),
         NEW places, Listed(args, J, p.m_global_benchmark_args, places),
         NEW d \in Range(Registered), NEW q, q = WithClone(p, d), q.error = "none"
  PROVE  Added(args, J, p, d, q)
  <1>1. PICK s : s = p.m_benchmarks
    OBVIOUS
  <1>2. PICK n : n = Len(s)
    OBVIOUS
  <1>3. List(s)
    BY <1>1 DEF IsParser
  <1>4. n \in Nat /\ s = [i \in 1..n |-> s[i]]
    BY <1>2, <1>3, ListIs
  <1>5. PICK b : b = clone(d)
    OBVIOUS
  <1>6. PICK t : t = Append(s, b)
    OBVIOUS
  <1>8. List(t) /\ Len(t) = n + 1 /\ t[n + 1] = b /\ \A i \in 1..n : t[i] = s[i]
    BY <1>2, <1>3, <1>6, ListAppend
  <1>10. PICK r : r = [p EXCEPT !.m_benchmarks = t]
    OBVIOUS
  <1>11. /\ DOMAIN r = ParserFields /\ r.m_benchmarks = t
         /\ r.m_global_benchmark_args = p.m_global_benchmark_args
         /\ r.global = p.global /\ r.local = p.local
    BY <1>10 DEF IsParser, ParserFields
  <1>12. IsParser(r)
    BY <1>8, <1>11 DEF IsParser
  <1>13. q = replay_global_args(r)
    BY <1>1, <1>5, <1>6, <1>10 DEF WithClone
  <1>14. PICK u, g : u = ForgetScope(r) /\ g = p.m_global_benchmark_args
    OBVIOUS
  <1>15. /\ IsParser(u) /\ u.m_benchmarks = t /\ u.m_global_benchmark_args = g
         /\ u.global = p.global
    BY <1>11, <1>12, <1>14, ForgetIs
  <1>16. PICK v : v = HandleAll(u, g)
    OBVIOUS
  <1>17. q = ForgetScope(v)
    BY <1>11, <1>13, <1>14, <1>16 DEF replay_global_args
  <1>18. v.error = "none"
    <2>1. q = [v EXCEPT !.local = NewScope]
      BY <1>17 DEF ForgetScope
    <2>3. DOMAIN v = ParserFields
      BY <1>14, <1>15, <1>16, HandledFields DEF IsParser
    <2> QED
      BY <2>1, <2>3 DEF ParserFields
  <1>19. n + 1 \in Nat \ {0} /\ Len(u.m_benchmarks) = n + 1
    BY <1>4, <1>8, <1>15
  <1>20. Configured(args, {}, d, u.m_benchmarks[n + 1])
    BY <1>5, <1>8, <1>15, CloneConfigured
  <1>21. OnlyLast(u, v, n + 1) /\ Configured(args, J, d, v.m_benchmarks[n + 1])
    BY <1>14, <1>15, <1>16, <1>18, <1>19, <1>20, Replayed
  <1>22. /\ IsParser(q) /\ q.m_benchmarks = v.m_benchmarks
         /\ q.m_global_benchmark_args = v.m_global_benchmark_args
         /\ q.global = v.global /\ q.local = NewScope
    BY <1>17, <1>21, ForgetIs DEF OnlyLast
  <1>23. \A i \in 1..n : i \in 1..(n + 1) /\ i # n + 1
    BY <1>4
  <1>24. \A i \in 1..n : q.m_benchmarks[i] = s[i]
    BY <1>8, <1>15, <1>21, <1>22, <1>23 DEF OnlyLast
  <1>25. Len(q.m_benchmarks) = n + 1
    BY <1>21, <1>22 DEF OnlyLast
  <1> QED
    BY <1>1, <1>2, <1>14, <1>15, <1>21, <1>22, <1>24, <1>25 DEF Added, OnlyLast

-----------------------------------------------------------------------------
(* The parser after the arguments so far *)

ConfiguredAt(args, i, b) == \E d : Configured(args, Told(args, {0, i}), d, b)

\* What is known of a parser p that read args without an error
ParsedSoFar(args, p) ==
  /\ IsParser(p) /\ args \in Seq(Arguments)
  /\ Len(p.m_benchmarks) = Section(args, Len(args))
  /\ \E places : Listed(args, Told(args, {0}), p.m_global_benchmark_args, places)
  /\ Scope(args, Told(args, {0}), p.global)
  /\ Len(p.m_benchmarks) # 0 => Scope(args, Told(args, {Len(p.m_benchmarks)}), p.local)
  /\ \A i : Ordered(args, Told(args, {i}))
  /\ \A i \in 1..Len(p.m_benchmarks) : ConfiguredAt(args, i, p.m_benchmarks[i])

LEMMA StillTheSame ==
  ASSUME NEW args, NEW n, NEW a, NEW more, OneMore(args, n, a, more), NEW S
  PROVE  SameAt(args, more, Told(args, S))
  <1>1. n \in Nat /\ \A j \in 1..n : more[j] = args[j]
    BY SectionOfMore
  <1>2. Told(args, S) \in SUBSET (1..n) /\ Told(args, S) \in SUBSET Nat
    BY ToldMore
  <1>3. IsFiniteSet(1..n)
    BY <1>1, FS_Interval
  <1>4. IsFiniteSet(Told(args, S))
    BY <1>2, <1>3, FS_Subset
  <1> QED
    BY <1>1, <1>2, <1>4 DEF SameAt

\* Sections that are over stay as they are.
LEMMA OverIsOver ==
  ASSUME NEW args, NEW n, NEW a, NEW more, OneMore(args, n, a, more),
         NEW S, Told(more, S) = Told(args, S)
  PROVE  /\ \A s : Scope(args, Told(args, S), s) => Scope(more, Told(more, S), s)
         /\ Ordered(args, Told(args, S)) => Ordered(more, Told(more, S))
         /\ \A d, b : Configured(args, Told(args, S), d, b) => Configured(more, Told(more, S), d, b)
         /\ \A g, places : Listed(args, Told(args, S), g, places) => Listed(more, Told(more, S), g, places)
  <1>1. PICK J : J = Told(args, S)
    OBVIOUS
  <1>2. SameAt(args, more, J)
    BY <1>1, StillTheSame
  <1> QED
    BY <1>1, <1>2, SameScope, SameConfigured, SameListed

\* Arguments that are no settings
LEMMA OtherKept ==
  ASSUME NEW args, NEW n, NEW a, NEW more, OneMore(args, n, a, more),
         NEW p, ParsedSoFar(args, p), a.opt \notin Settings, a.opt # "--benchmark",
         NEW q, IsParser(q), q.m_benchmarks = p.m_benchmarks,
         q.m_global_benchmark_args = p.m_global_benchmark_args,
         q.global = p.global, q.local = p.local
  PROVE  ParsedSoFar(more, q)
  <1>1. /\ more \in Seq(Arguments) /\ Len(more) = n + 1
        /\ Section(more, n + 1) = Section(args, n) /\ n = Len(args)
    <2>1. Section(more, n + 1) = Section(args, n)
      BY SectionOfMore
    <2>2. more \in Seq(Arguments) /\ Len(more) = n + 1
      BY SectionOfMore
    <2> QED
      BY <2>1, <2>2 DEF OneMore
  <1>2. \A S : Told(more, S) = Told(args, S)
    BY ToldMore
  <1>3. PICK m : m = Len(p.m_benchmarks)
    OBVIOUS
  <1>4. m = Section(args, n) /\ Len(q.m_benchmarks) = m
    BY <1>1, <1>3 DEF ParsedSoFar
  <1>5. PICK places : Listed(args, Told(args, {0}), p.m_global_benchmark_args, places)
    BY DEF ParsedSoFar
  <1>6. Listed(more, Told(more, {0}), q.m_global_benchmark_args, places)
    BY <1>2, <1>5, OverIsOver
  <1>7. Scope(more, Told(more, {0}), q.global)
    BY <1>2, OverIsOver DEF ParsedSoFar
  <1>8. m # 0 => Scope(more, Told(more, {m}), q.local)
    BY <1>2, <1>3, OverIsOver DEF ParsedSoFar
  <1>9. \A i : Ordered(more, Told(more, {i}))
    BY <1>2, OverIsOver DEF ParsedSoFar
  <1>10. ASSUME NEW i \in 1..m
         PROVE  ConfiguredAt(more, i, q.m_benchmarks[i])
    <2>1. PICK d : Configured(args, Told(args, {0, i}), d, p.m_benchmarks[i])
      BY <1>3 DEF ParsedSoFar, ConfiguredAt
    <2>2. Configured(more, Told(more, {0, i}), d, p.m_benchmarks[i])
      BY <1>2, <2>1, OverIsOver
    <2> QED
      BY <2>2 DEF ConfiguredAt
  <1> QED
    BY <1>1, <1>4, <1>6, <1>7, <1>8, <1>9, <1>10 DEF ParsedSoFar

LEMMA GlobalKept ==
  ASSUME NEW args, NEW n, NEW a, NEW more, OneMore(args, n, a, more),
         NEW p, ParsedSoFar(args, p), p.error = "none", Len(p.m_benchmarks) = 0, a.opt \in Settings,
         NEW q, q = HandleSetting(p, a), q.error = "none"
  PROVE  ParsedSoFar(more, q)
  <1>1. /\ more \in Seq(Arguments) /\ Len(more) = n + 1 /\ more[n + 1] = a /\ a \in Arguments
        /\ n = Len(args)
    BY SectionOfMore DEF OneMore
  <1>2. Section(args, n) = 0
    BY <1>1 DEF ParsedSoFar
  <1>3. a.opt # "--benchmark" /\ Section(more, n + 1) = 0
    <2>1. a.opt # "--benchmark"
      BY DEF Settings
    <2> QED
      BY <1>2, <2>1, SectionOfMore
  <1>4. \A i : i # 0 => Told(more, {i}) = Told(args, {i})
    BY <1>2, <1>3, ToldMore
  <1>5. PICK J, j, K : J = Told(args, {0}) /\ j = n + 1 /\ K = Told(more, {0})
    OBVIOUS
  <1>6. Later(J, j, K)
    BY <1>2, <1>5, ToldMore
  <1>7. SameAt(args, more, J)
    BY <1>5, StillTheSame
  <1>8. p.m_benchmarks = <<>>
    <2>1. List(p.m_benchmarks)
      BY DEF ParsedSoFar, IsParser
    <2>2. PICK s, X : s = p.m_benchmarks /\ X = Range(s)
      OBVIOUS
    <2>3. s \in Seq(X) /\ Len(s) = 0
      BY <2>1, <2>2 DEF List
    <2>4. s = <<>>
      BY <2>3
    <2> QED
      BY <2>2, <2>4
  <1>9. Kept(p, a, q)
    BY <1>1, <1>8, GlobalAccepted DEF ParsedSoFar
  <1>10. PICK g, places : g = p.m_global_benchmark_args /\ Listed(args, J, g, places)
    BY <1>5 DEF ParsedSoFar
  <1>11. Listed(more, J, g, places)
    BY <1>7, <1>10, SameListed
  <1>12. \E longer : Listed(more, K, q.m_global_benchmark_args, longer)
    <2>1. more[j] = a /\ more[j] \in Arguments
      BY <1>1, <1>5
    <2>2. \E longer : Listed(more, K, Append(g, more[j]), longer)
      BY <1>6, <1>11, <2>1, ListedNext
    <2> QED
      BY <1>9, <1>10, <2>1, <2>2 DEF Kept
  <1>13. Scope(more, K, q.global) /\ Ordered(more, K)
    <2>1. Scope(args, J, p.global) /\ Ordered(args, J)
      BY <1>5 DEF ParsedSoFar
    <2>2. Scope(more, J, p.global) /\ Ordered(more, J)
      BY <1>7, <2>1, SameScope
    <2>3. ScopeStep(more[j], p.global, q.global)
      BY <1>1, <1>5, <1>9 DEF Kept
    <2> QED
      BY <1>6, <2>2, <2>3, ScopeNext
  <1>14. \A i : Ordered(more, Told(more, {i}))
    <2>1. ASSUME NEW i, i # 0
          PROVE  Ordered(more, Told(more, {i}))
      BY <1>4, <2>1, OverIsOver DEF ParsedSoFar
    <2> QED
      BY <1>5, <1>13, <2>1
  <1>15. q.m_benchmarks = <<>> /\ Len(q.m_benchmarks) = 0 /\ IsParser(q)
    BY <1>9 DEF Kept
  <1>16. \A i \in 1..Len(q.m_benchmarks) : FALSE
    BY <1>15
  <1> QED
    BY <1>1, <1>3, <1>5, <1>12, <1>13, <1>14, <1>15, <1>16 DEF ParsedSoFar

LEMMA LocalKept ==
  ASSUME m_map = Defaults, NEW args, NEW n, NEW a, NEW more, OneMore(args, n, a, more),
         NEW p, ParsedSoFar(args, p), p.error = "none", Len(p.m_benchmarks) # 0, a.opt \in Settings,
         NEW q, q = HandleSetting(p, a), q.error = "none"
  PROVE  ParsedSoFar(more, q)
  <1>1. /\ more \in Seq(Arguments) /\ Len(more) = n + 1 /\ more[n + 1] = a /\ a \in Arguments
        /\ n = Len(args) /\ n \in Nat
    BY SectionOfMore DEF OneMore
  <1>2. PICK m : m = Len(p.m_benchmarks)
    OBVIOUS
  <1>3. m = Section(args, n) /\ m \in Nat \ {0}
    <2>1. Section(args, n) \in Nat
      BY <1>1, BenchmarksAreFinite
    <2> QED
      BY <1>1, <1>2, <2>1 DEF ParsedSoFar
  <1>4. a.opt # "--benchmark" /\ Section(more, n + 1) = m
    <2>1. a.opt # "--benchmark"
      BY DEF Settings
    <2> QED
      BY <1>3, <2>1, SectionOfMore
  <1>5. \A S : m \notin S => Told(more, S) = Told(args, S)
    BY <1>3, <1>4, ToldMore
  <1>6. PICK j : j = n + 1
    OBVIOUS
  <1>7. \A S : m \in S => Later(Told(args, S), j, Told(more, S))
    BY <1>3, <1>6, ToldMore
  <1>8. PICK J, K : J = Told(args, {0, m}) /\ K = Told(more, {0, m})
    OBVIOUS
  <1>9. Later(J, j, K) /\ SameAt(args, more, J)
    BY <1>7, <1>8, StillTheSame
  <1>10. PICK d : Configured(args, J, d, p.m_benchmarks[m])
    <2>1. m \in 1..m
      BY <1>3
    <2> QED
      BY <1>2, <1>8, <2>1 DEF ParsedSoFar, ConfiguredAt
  <1>11. Configured(more, J, d, p.m_benchmarks[m])
    BY <1>9, <1>10, SameConfigured
  <1>12. more[j] = a
    BY <1>1, <1>6
  <1>13. Accepted(p, m, more, J, j, d)
    BY <1>1, <1>2, <1>3, <1>11, <1>12 DEF Accepted, ParsedSoFar
  <1>14. q = HandleSetting(p, more[j])
    BY <1>12
  <1>15. /\ OnlyLast(p, q, m) /\ Configured(more, K, d, q.m_benchmarks[m])
         /\ ScopeStep(more[j], p.local, q.local)
    BY <1>9, <1>13, <1>14, SettingAccepted
  <1>16. /\ IsParser(q) /\ Len(q.m_benchmarks) = m
         /\ \A i \in 1..m : i # m => q.m_benchmarks[i] = p.m_benchmarks[i]
         /\ q.m_global_benchmark_args = p.m_global_benchmark_args /\ q.global = p.global
    BY <1>15 DEF OnlyLast
  <1>17. Told(more, {0}) = Told(args, {0})
    BY <1>3, <1>5
  <1>18. \E places : Listed(more, Told(more, {0}), q.m_global_benchmark_args, places)
    <2>1. PICK places : Listed(args, Told(args, {0}), p.m_global_benchmark_args, places)
      BY DEF ParsedSoFar
    <2>2. Listed(more, Told(more, {0}), q.m_global_benchmark_args, places)
      BY <1>16, <1>17, <2>1, OverIsOver
    <2> QED
      BY <2>2
  <1>19. Scope(more, Told(more, {0}), q.global)
    BY <1>16, <1>17, OverIsOver DEF ParsedSoFar
  <1>20. Scope(more, Told(more, {m}), q.local) /\ Ordered(more, Told(more, {m}))
    <2>1. PICK L : L = Told(args, {m})
      OBVIOUS
    <2>2. Scope(args, L, p.local) /\ Ordered(args, L)
      BY <1>2, <1>3, <2>1 DEF ParsedSoFar
    <2>3. SameAt(args, more, L) /\ Later(L, j, Told(more, {m}))
      BY <1>7, <2>1, StillTheSame
    <2>4. Scope(more, L, p.local) /\ Ordered(more, L)
      BY <2>2, <2>3, SameScope
    <2> QED
      BY <1>15, <2>3, <2>4, ScopeNext
  <1>21. \A i : Ordered(more, Told(more, {i}))
    <2>1. ASSUME NEW i, i # m
          PROVE  Ordered(more, Told(more, {i}))
      BY <1>5, <2>1, OverIsOver DEF ParsedSoFar
    <2> QED
      BY <1>20, <2>1
  <1>22. ASSUME NEW i \in 1..m
         PROVE  ConfiguredAt(more, i, q.m_benchmarks[i])
    <2>1. CASE i = m
      BY <1>8, <1>15, <2>1 DEF ConfiguredAt
    <2>2. CASE i # m
      <3>1. PICK e : Configured(args, Told(args, {0, i}), e, p.m_benchmarks[i])
        BY <1>2 DEF ParsedSoFar, ConfiguredAt
      <3>2. Told(more, {0, i}) = Told(args, {0, i})
        BY <1>3, <1>5, <2>2
      <3>3. Configured(more, Told(more, {0, i}), e, p.m_benchmarks[i])
        BY <3>1, <3>2, OverIsOver
      <3> QED
        BY <1>16, <2>2, <3>3 DEF ConfiguredAt
    <2> QED
      BY <2>1, <2>2
  <1> QED
    BY <1>1, <1>4, <1>16, <1>18, <1>19, <1>20, <1>21, <1>22 DEF ParsedSoFar

LEMMA BenchmarkKept ==
  ASSUME m_map = Defaults, NEW args, NEW n, NEW a, NEW more, OneMore(args, n, a, more),
         NEW p, ParsedSoFar(args, p), p.error = "none", a.opt = "--benchmark",
         NEW q, q = add_benchmark(p, a), q.error = "none"
  PROVE  ParsedSoFar(more, q)
  <1>1. /\ more \in Seq(Arguments) /\ Len(more) = n + 1 /\ n = Len(args) /\ n \in Nat
        /\ args \in Seq(Arguments)
    BY SectionOfMore DEF OneMore
  <1>2. PICK m : m = Len(p.m_benchmarks)
    OBVIOUS
  <1>3. m = Section(args, n) /\ m \in Nat
    <2>1. Section(args, n) \in Nat
      BY <1>1, BenchmarksAreFinite
    <2> QED
      BY <1>1, <1>2, <2>1 DEF ParsedSoFar
  <1>4. Section(more, n + 1) = m + 1
    BY <1>3, SectionOfMore
  <1>5. a.opt \notin Settings
    BY DEF Settings
  <1>6. \A S : Told(more, S) = Told(args, S)
    BY <1>5, ToldMore
  <1>7. DOMAIN p = ParserFields
    BY DEF ParsedSoFar, IsParser
  <1>8. q # Fail(p, "no such benchmark")
    <2>1. Fail(p, "no such benchmark").error = "no such benchmark"
      BY <1>7, FailIs
    <2> QED
      BY <2>1
  <1>9. a.key \in Names /\ q = WithClone(p, Declared(a.key))
    BY <1>8 DEF add_benchmark
  <1>10. PICK d \in Range(Registered) : d = Declared(a.key)
    BY <1>9, DeclaredIs
  <1>11. PICK J : J = Told(more, {0})
    OBVIOUS
  <1>12. PICK places : Listed(more, J, p.m_global_benchmark_args, places)
    <2>1. PICK old : Listed(args, Told(args, {0}), p.m_global_benchmark_args, old)
      BY DEF ParsedSoFar
    <2>2. Listed(more, Told(more, {0}), p.m_global_benchmark_args, old)
      BY <1>6, <2>1, OverIsOver
    <2> QED
      BY <1>11, <2>2
  <1>13. Added(more, J, p, d, q)
    BY <1>9, <1>10, <1>12, CloneAdded DEF ParsedSoFar
  <1>14. /\ IsParser(q) /\ Len(q.m_benchmarks) = m + 1
         /\ \A i \in 1..m : q.m_benchmarks[i] = p.m_benchmarks[i]
         /\ Configured(more, J, d, q.m_benchmarks[m + 1])
         /\ q.m_global_benchmark_args = p.m_global_benchmark_args
         /\ q.global = p.global /\ q.local = NewScope
    BY <1>2, <1>13 DEF Added
  <1>15. Told(more, {m + 1}) = {}
    <2>1. m + 1 \notin 0..Section(args, n)
      BY <1>3
    <2>2. Told(args, {m + 1}) = {}
      BY <1>1, <2>1, ToldNowhere
    <2> QED
      BY <1>6, <2>2
  <1>16. Scope(more, Told(more, {0}), q.global)
    BY <1>6, <1>14, OverIsOver DEF ParsedSoFar
  <1>17. Scope(more, Told(more, {m + 1}), q.local)
    BY <1>15, NothingInScope
  <1>18. \A i : Ordered(more, Told(more, {i}))
    BY <1>6, OverIsOver DEF ParsedSoFar
  <1>19. ASSUME NEW i \in 1..(m + 1)
         PROVE  ConfiguredAt(more, i, q.m_benchmarks[i])
    <2>1. CASE i = m + 1
      <3>a. Told(more, {0, m + 1}) = Told(more, {0}) \cup Told(more, {m + 1})
        BY ToldTwice
      <3>1. Told(more, {0, m + 1}) = J
        BY <1>11, <1>15, <3>a
      <3> QED
        BY <1>14, <2>1, <3>1 DEF ConfiguredAt
    <2>2. CASE i # m + 1
      <3>1. i \in 1..m
        BY <1>3, <2>2
      <3>2. PICK e : Configured(args, Told(args, {0, i}), e, p.m_benchmarks[i])
        BY <1>2, <3>1 DEF ParsedSoFar, ConfiguredAt
      <3>3. Configured(more, Told(more, {0, i}), e, p.m_benchmarks[i])
        BY <1>6, <3>2, OverIsOver
      <3> QED
        BY <1>14, <3>1, <3>3 DEF ConfiguredAt
    <2> QED
      BY <2>1, <2>2
  <1> QED
    BY <1>1, <1>4, <1>11, <1>12, <1>14, <1>16, <1>17, <1>18, <1>19 DEF ParsedSoFar

-----------------------------------------------------------------------------
(* All benchmarks *)

AllTo(p, n, after) ==
  after = [k \in 0..n |-> IF k = 0 THEN p ELSE WithNext(after[k - 1], Registered[k])]

LEMMA AddedAtAll ==
  ASSUME NEW p, NEW n \in Nat
  PROVE  \E after : AllTo(p, n, after)
  <1>1. PICK S : S = {k \in 0..n : \E after : AllTo(p, k, after)}
    OBVIOUS
  <1>2. 0 \in S
    <2>1. PICK after : after = [i \in 0..0 |-> p]
      OBVIOUS
    <2>2. after = [i \in 0..0 |-> IF i = 0 THEN p ELSE WithNext(after[i - 1], Registered[i])]
      <3>1. \A i \in 0..0 : i = 0
        OBVIOUS
      <3> QED
        BY <2>1, <3>1
    <2> QED
      BY <1>1, <2>2 DEF AllTo
  <1>3. ASSUME NEW k \in 0..n, k # n, k \in S
        PROVE  k + 1 \in S
    <2>1. k \in Nat /\ k + 1 \in 0..n
      BY <1>3
    <2>2. PICK before : AllTo(p, k, before)
      BY <1>1, <1>3
    <2>3. PICK after : after = [i \in 0..(k + 1) |-> IF i = 0 THEN p ELSE WithNext(before[i - 1], Registered[i])]
      OBVIOUS
    <2>4. ASSUME NEW i \in 0..k
          PROVE  after[i] = before[i]
      <3>1. i \in 0..(k + 1)
        BY <2>1
      <3> QED
        BY <2>2, <2>3, <3>1 DEF AllTo
    <2>5. \A i \in 0..(k + 1) : i # 0 => i - 1 \in 0..k
      BY <2>1
    <2>6. \A i \in 0..(k + 1) : after[i] = IF i = 0 THEN p ELSE WithNext(after[i - 1], Registered[i])
      BY <2>3, <2>4, <2>5
    <2>7. after = [i \in 0..(k + 1) |-> IF i = 0 THEN p ELSE WithNext(after[i - 1], Registered[i])]
      BY <2>3, <2>6
    <2> QED
      BY <1>1, <2>1, <2>7 DEF AllTo
  <1>4. \A k \in 0..n : k \in S
    BY <1>2, <1>3, StepByStep
  <1>5. n \in S
    BY <1>4
  <1> QED
    BY <1>1, <1>5

LEMMA AddAllIs ==
  ASSUME NEW p, NEW n \in Nat, n = Len(Registered)
  PROVE  \E after : AllTo(p, n, after) /\ add_all(p) = after[n]
  <1>1. PICK after : after = CHOOSE f : AllTo(p, n, f)
    OBVIOUS
  <1>2. AllTo(p, n, after)
    BY <1>1, AddedAtAll
  <1>3. add_all(p) = after[n]
    BY <1>1 DEF add_all, AllTo
  <1> QED
    BY <1>2, <1>3

\* The first k benchmarks, as the global arguments have them
FirstAdded(args, J, p, k, q) ==
  /\ IsParser(q) /\ Len(q.m_benchmarks) = k
  /\ \A i \in 1..k : Configured(args, J, Registered[i], q.m_benchmarks[i])
  /\ q.m_global_benchmark_args = p.m_global_benchmark_args

LEMMA AllAdded ==
  ASSUME m_map = Defaults, NEW args, NEW J, NEW p, IsParser(p), Len(p.m_benchmarks) = 0,
         NEW places, Listed(args, J, p.m_global_benchmark_args, places),
         NEW q, q = add_all(p), q.error = "none"
  PROVE  FirstAdded(args, J, p, Len(Registered), q)
  <1>1. PICK n : n = Len(Registered)
    OBVIOUS
  <1>2. n \in Nat /\ DOMAIN Registered = 1..n
    <2>1. List(Registered)
      BY OptionParserAssumption DEF List
    <2> QED
      BY <1>1, <2>1, ListIs
  <1>3. PICK after : AllTo(p, n, after) /\ q = after[n]
    BY <1>1, <1>2, AddAllIs
  <1>4. PICK S : S = {k \in 0..n : after[k].error = "none" => FirstAdded(args, J, p, k, after[k])}
    OBVIOUS
  <1>5. 0 \in S
    <2>1. after[0] = p
      BY <1>2, <1>3 DEF AllTo
    <2>2. FirstAdded(args, J, p, 0, p)
      BY DEF FirstAdded
    <2> QED
      BY <1>2, <1>4, <2>1, <2>2
  <1>6. ASSUME NEW k \in 0..n, k # n, k \in S
        PROVE  k + 1 \in S
    <2>1. k \in Nat /\ k + 1 \in 0..n /\ k + 1 \in 1..n /\ k + 1 # 0 /\ (k + 1) - 1 = k
      BY <1>2, <1>6
    <2>2. after[k + 1] = WithNext(after[k], Registered[k + 1])
      BY <1>3, <2>1 DEF AllTo
    <2>3. PICK r, s : r = after[k] /\ s = after[k + 1]
      OBVIOUS
    <2>4. PICK d : d = Registered[k + 1]
      OBVIOUS
    <2>5. d \in Range(Registered)
      BY <1>2, <2>1, <2>4 DEF Range
    <2> SUFFICES ASSUME s.error = "none"
                 PROVE  FirstAdded(args, J, p, k + 1, s)
      BY <1>4, <2>1, <2>3
    <2>6. r.error = "none" /\ s = WithClone(r, d)
      BY <2>2, <2>3, <2>4 DEF WithNext
    <2>7. FirstAdded(args, J, p, k, r)
      BY <1>4, <1>6, <2>3, <2>6
    <2>8. Added(args, J, r, d, s)
      BY <2>5, <2>6, <2>7, CloneAdded DEF FirstAdded
    <2>9. /\ IsParser(s) /\ Len(s.m_benchmarks) = k + 1
          /\ \A i \in 1..k : s.m_benchmarks[i] = r.m_benchmarks[i]
          /\ Configured(args, J, d, s.m_benchmarks[k + 1])
          /\ s.m_global_benchmark_args = p.m_global_benchmark_args
      BY <2>7, <2>8 DEF Added, FirstAdded
    <2>10. \A i : i \in 1..(k + 1) <=> (i \in 1..k \/ i = k + 1)
      BY <2>1
    <2>11. \A i \in 1..(k + 1) : Configured(args, J, Registered[i], s.m_benchmarks[i])
      BY <2>4, <2>7, <2>9, <2>10 DEF FirstAdded
    <2> QED
      BY <2>9, <2>11 DEF FirstAdded
  <1>7. \A k \in 0..n : k \in S
    BY <1>2, <1>5, <1>6, StepByStep
  <1>8. n \in S
    BY <1>2, <1>7
  <1> QED
    BY <1>1, <1>3, <1>4, <1>8

-----------------------------------------------------------------------------
(* The session *)

\* The benchmarks of an accepted command line
Chosen(args, benches) ==
  /\ args \in Seq(Arguments) /\ List(benches)
  /\ \A i : Ordered(args, Told(args, {i}))
  /\ \A i \in 1..Len(benches) : ConfiguredAt(args, i, benches[i])

\* Parameters of the criterion c, and no others
ParamsFor(c, params) == params = [p \in DOMAIN Defaults[c] |-> params[p]]

Shared == DOMAIN m_map = Criteria /\ \A c \in Criteria : ParamsFor(c, m_map[c])

\* A state that may be measured
Prepared(s) ==
  /\ {"stopping_criterion", "criterion_params"} \subseteq DOMAIN s
  /\ s.stopping_criterion \in Criteria /\ ParamsFor(s.stopping_criterion, s.criterion_params)

Judged(m) ==
  m.used = m.wanted /\ (m.accepted <=> do_initialize(m.criterion, m.wanted))

SessionIInv ==
  /\ Shared
  /\ status = "parsing" => m_map = Defaults /\ parser.error = "none" /\ ParsedSoFar(m_args, parser)
  /\ status \in {"parsed", "generator", "finished"} => Chosen(m_args, parser.m_benchmarks)
  /\ status = "generator" => Prepared(state)
  /\ bench \in Nat \ {0}
  /\ List(measured) /\ \A i \in 1..Len(measured) : Judged(measured[i])

LEMMA DefaultParams ==
  ASSUME NEW c \in Criteria
  PROVE  ParamsFor(c, Defaults[c])
  <1>1. CASE c = "stdrel"
    BY <1>1 DEF Defaults, Criteria, ParamsFor
  <1>2. CASE c = "entropy"
    BY <1>2 DEF Defaults, Criteria, ParamsFor
  <1>3. CASE c = "sample-count"
    BY <1>3 DEF Defaults, Criteria, ParamsFor
  <1> QED
    BY <1>1, <1>2, <1>3 DEF Criteria

LEMMA SessionInitially == SessionInit => SessionIInv
  <1> SUFFICES ASSUME SessionInit
               PROVE  SessionIInv
    OBVIOUS
  <1>1. /\ m_map = Defaults /\ status = "parsing" /\ m_args = <<>> /\ parser = NewParser
        /\ bench = 1 /\ measured = <<>>
    BY DEF SessionInit, ParserInit
  <1>2. Shared
    <2>1. DOMAIN Defaults = Criteria
      BY DEF Defaults
    <2> QED
      BY <1>1, <2>1, DefaultParams DEF Shared
  <1>3. List(<<>>)
    <2>1. PICK S : S = Range(<<>>)
      OBVIOUS
    <2>2. <<>> \in Seq(S)
      OBVIOUS
    <2> QED
      BY <2>1, <2>2 DEF List
  <1>4. /\ DOMAIN NewParser = ParserFields /\ NewParser.m_benchmarks = <<>>
        /\ NewParser.m_global_benchmark_args = <<>> /\ NewParser.global = NewScope
        /\ NewParser.local = NewScope /\ NewParser.error = "none"
    BY DEF NewParser, ParserFields
  <1>5. DOMAIN NewScope = {"selected", "params"}
    BY DEF NewScope
  <1>6. IsParser(NewParser)
    BY <1>3, <1>4, <1>5 DEF IsParser
  <1>7. Len(<<>>) = 0 /\ \A S : Told(<<>>, S) = {}
    BY DEF Told
  <1>8. Section(<<>>, 0) = 0
    <2>1. Benchmarks(<<>>, 0) = {}
      BY DEF Benchmarks
    <2> QED
      BY <2>1, FS_EmptySet DEF Section
  <1>9. ParsedSoFar(<<>>, NewParser)
    <2>1. \E places : Listed(<<>>, {}, <<>>, places)
      BY NothingListed
    <2>2. \A s : Scope(<<>>, {}, s) /\ Ordered(<<>>, {})
      BY NothingInScope
    <2>3. \A i \in 1..0 : FALSE
      OBVIOUS
    <2>4. <<>> \in Seq(Arguments)
      OBVIOUS
    <2> QED
      BY <1>4, <1>6, <1>7, <1>8, <2>1, <2>2, <2>3, <2>4 DEF ParsedSoFar
  <1>10. \A i \in 1..Len(<<>>) : FALSE
    OBVIOUS
  <1> QED
    BY <1>1, <1>2, <1>3, <1>4, <1>9, <1>10 DEF SessionIInv

\* The parser after an argument that does not fail
LEMMA ParsingGoesOn ==
  ASSUME SessionIInv, UNCHANGED running, NEW a \in Arguments, NEW q, Handle(a, q),
         q.error = "none" => ParsedSoFar(m_args', q)
  PROVE  SessionIInv'
  <1>1. /\ status = "parsing" /\ m_map' = m_map /\ parser' = q
        /\ status' = PcAfter(q, "parsing")
    BY DEF Handle, Take
  <1>2. bench' = bench /\ state' = state /\ measured' = measured
    BY DEF running
  <1>3. m_map = Defaults
    BY <1>1 DEF SessionIInv
  <1>4. Shared'
    BY <1>1 DEF SessionIInv, Shared
  <1>5. status' = IF q.error = "none" THEN "parsing" ELSE "rejected"
    BY <1>1 DEF PcAfter
  <1>6. q.error = "none" => ParsedSoFar(m_args, parser)'
    BY <1>1 DEF ParsedSoFar
  <1>7. status' \notin {"parsed", "generator", "finished"}
    BY <1>5
  <1>8. status' = "parsing" => m_map' = Defaults /\ parser'.error = "none" /\ ParsedSoFar(m_args, parser)'
    BY <1>1, <1>3, <1>5, <1>6
  <1>9. /\ bench' \in Nat \ {0}
        /\ List(measured') /\ \A i \in 1..Len(measured') : Judged(measured'[i])
    BY <1>2 DEF SessionIInv
  <1> QED
    BY <1>4, <1>7, <1>8, <1>9 DEF SessionIInv, Shared

LEMMA TakenIs ==
  ASSUME SessionIInv, NEW a \in Arguments, NEW q, Handle(a, q)
  PROVE  /\ m_map = Defaults /\ parser.error = "none" /\ ParsedSoFar(m_args, parser)
         /\ OneMore(m_args, Len(m_args), a, m_args')
  <1>1. status = "parsing" /\ m_args' = Append(m_args, a)
    BY DEF Handle, Take
  <1>2. m_map = Defaults /\ parser.error = "none" /\ ParsedSoFar(m_args, parser)
    BY <1>1 DEF SessionIInv
  <1> QED
    BY <1>1, <1>2 DEF OneMore, ParsedSoFar

LEMMA SettingStep == SessionIInv /\ ParseSetting /\ UNCHANGED running => SessionIInv'
  <1> SUFFICES ASSUME SessionIInv, UNCHANGED running, NEW a \in Arguments, a.opt \in Settings,
                      Handle(a, HandleSetting(parser, a))
               PROVE  SessionIInv'
    BY DEF ParseSetting
  <1>1. PICK q : q = HandleSetting(parser, a)
    OBVIOUS
  <1>2. Handle(a, q)
    BY <1>1
  <1>3. /\ m_map = Defaults /\ parser.error = "none" /\ ParsedSoFar(m_args, parser)
        /\ OneMore(m_args, Len(m_args), a, m_args')
    BY <1>2, TakenIs
  <1>4. q.error = "none" => ParsedSoFar(m_args', q)
    <2>1. CASE Len(parser.m_benchmarks) = 0
      BY <1>1, <1>3, <2>1, GlobalKept
    <2>2. CASE Len(parser.m_benchmarks) # 0
      BY <1>1, <1>3, <2>2, LocalKept
    <2> QED
      BY <2>1, <2>2
  <1> QED
    BY <1>2, <1>4, ParsingGoesOn

LEMMA BenchmarkStep == SessionIInv /\ ParseBenchmark /\ UNCHANGED running => SessionIInv'
  <1> SUFFICES ASSUME SessionIInv, UNCHANGED running, NEW a \in Arguments, a.opt = "--benchmark",
                      Handle(a, add_benchmark(parser, a))
               PROVE  SessionIInv'
    BY DEF ParseBenchmark
  <1>1. PICK q : q = add_benchmark(parser, a)
    OBVIOUS
  <1>2. Handle(a, q)
    BY <1>1
  <1>3. /\ m_map = Defaults /\ parser.error = "none" /\ ParsedSoFar(m_args, parser)
        /\ OneMore(m_args, Len(m_args), a, m_args')
    BY <1>2, TakenIs
  <1>4. q.error = "none" => ParsedSoFar(m_args', q)
    BY <1>1, <1>3, BenchmarkKept
  <1> QED
    BY <1>2, <1>4, ParsingGoesOn

\* What the benchmarks and their scopes are made of stays.
SameBenchmarks(p, q) ==
  /\ DOMAIN q = DOMAIN p /\ q.m_benchmarks = p.m_benchmarks
  /\ q.m_global_benchmark_args = p.m_global_benchmark_args
  /\ q.global = p.global /\ q.local = p.local

LEMMA OtherStep ==
  ASSUME SessionIInv, UNCHANGED running, NEW a \in Arguments, a.opt \notin Settings, a.opt # "--benchmark",
         NEW q, Handle(a, q), q.error = "none" => SameBenchmarks(parser, q)
  PROVE  SessionIInv'
  <1>1. /\ ParsedSoFar(m_args, parser) /\ OneMore(m_args, Len(m_args), a, m_args')
    BY TakenIs
  <1>2. ASSUME q.error = "none"
        PROVE  ParsedSoFar(m_args', q)
    <2>1. SameBenchmarks(parser, q) /\ IsParser(parser)
      BY <1>1, <1>2 DEF ParsedSoFar
    <2>2. IsParser(q)
      BY <2>1 DEF SameBenchmarks, IsParser
    <2> QED
      BY <1>1, <2>1, <2>2, OtherKept DEF SameBenchmarks
  <1> QED
    BY <1>2, ParsingGoesOn

LEMMA PrinterIs ==
  ASSUME NEW p, DOMAIN p = ParserFields, p.error = "none", NEW a, NEW q, q = add_printer(p, a)
  PROVE  q.error = "none" => SameBenchmarks(p, q)
  <1>1. Fail(p, "stream").error = "stream"
    BY FailIs
  <1>2. PICK v, w : q = IF a.opt = "--jsonbin" /\ a.key \in Streams THEN Fail(p, "stream")
                        ELSE [p EXCEPT !.m_printer = v, !.m_have_stdout_printer = w]
    BY DEF add_printer
  <1>3. PICK r : r = [p EXCEPT !.m_printer = v, !.m_have_stdout_printer = w]
    OBVIOUS
  <1>4. SameBenchmarks(p, r)
    BY <1>3 DEF SameBenchmarks, ParserFields
  <1> QED
    BY <1>1, <1>2, <1>3, <1>4

LEMMA ModificationIs ==
  ASSUME NEW p, DOMAIN p = ParserFields, p.error = "none", NEW a, NEW q, q = modify_devices(p, a)
  PROVE  q.error = "none" => SameBenchmarks(p, q)
  <1>1. PICK u : u = [p EXCEPT !.m_exit_after_parsing = TRUE]
    OBVIOUS
  <1>2. DOMAIN u = ParserFields
    BY <1>1
  <1>3. Fail(u, "value").error = "value"
    BY <1>2, FailIs
  <1>4. PICK v : q = IF a.val = Unparsable THEN Fail(u, "value")
                     ELSE [p EXCEPT !.m_exit_after_parsing = TRUE, !.modified = v]
    BY <1>1 DEF modify_devices
  <1>5. PICK r : r = [p EXCEPT !.m_exit_after_parsing = TRUE, !.modified = v]
    OBVIOUS
  <1>6. SameBenchmarks(p, r)
    BY <1>5 DEF SameBenchmarks, ParserFields
  <1> QED
    BY <1>3, <1>4, <1>5, <1>6

LEMMA OtherSteps ==
  SessionIInv /\ (ParseModification \/ ParsePrinter \/ ParseQuiet \/ ParseUnrecognized)
              /\ UNCHANGED running => SessionIInv'
  <1> SUFFICES ASSUME SessionIInv, UNCHANGED running,
                      ParseModification \/ ParsePrinter \/ ParseQuiet \/ ParseUnrecognized
               PROVE  SessionIInv'
    OBVIOUS
  <1>1. status = "parsing"
    BY DEF ParseModification, ParsePrinter, ParseQuiet, ParseUnrecognized, Handle, Take
  <1>2. DOMAIN parser = ParserFields /\ parser.error = "none"
    BY <1>1 DEF SessionIInv, ParsedSoFar, IsParser
  <1>3. CASE ParseModification
    <2>1. PICK a \in Arguments : a.opt \in Modifications /\ Handle(a, modify_devices(parser, a))
      BY <1>3 DEF ParseModification
    <2>2. PICK q : q = modify_devices(parser, a)
      OBVIOUS
    <2>3. q.error = "none" => SameBenchmarks(parser, q)
      BY <1>2, <2>2, ModificationIs
    <2>4. a.opt \notin Settings /\ a.opt # "--benchmark"
      BY <2>1 DEF Modifications, Settings
    <2> QED
      BY <2>1, <2>2, <2>3, <2>4, OtherStep
  <1>4. CASE ParsePrinter
    <2>1. PICK a \in Arguments : a.opt \in Printers /\ Handle(a, add_printer(parser, a))
      BY <1>4 DEF ParsePrinter
    <2>2. PICK q : q = add_printer(parser, a)
      OBVIOUS
    <2>3. q.error = "none" => SameBenchmarks(parser, q)
      BY <1>2, <2>2, PrinterIs
    <2>4. a.opt \notin Settings /\ a.opt # "--benchmark"
      BY <2>1 DEF Printers, Settings
    <2> QED
      BY <2>1, <2>2, <2>3, <2>4, OtherStep
  <1>5. CASE ParseQuiet
    <2>1. PICK a \in Arguments :
             a.opt = "--quiet" /\ Handle(a, [parser EXCEPT !.m_have_stdout_printer = TRUE])
      BY <1>5 DEF ParseQuiet
    <2>2. PICK q : q = [parser EXCEPT !.m_have_stdout_printer = TRUE]
      OBVIOUS
    <2>3. SameBenchmarks(parser, q)
      BY <1>2, <2>2 DEF SameBenchmarks, ParserFields
    <2>4. a.opt \notin Settings /\ a.opt # "--benchmark"
      BY <2>1 DEF Settings
    <2> QED
      BY <2>1, <2>2, <2>3, <2>4, OtherStep
  <1>6. CASE ParseUnrecognized
    <2>1. PICK a \in Arguments :
             a.opt = "unrecognized" /\ Handle(a, Fail(parser, "unrecognized"))
      BY <1>6 DEF ParseUnrecognized
    <2>2. PICK q : q = Fail(parser, "unrecognized")
      OBVIOUS
    <2>3. q.error # "none"
      BY <1>2, <2>2, FailIs
    <2>4. a.opt \notin Settings /\ a.opt # "--benchmark"
      BY <2>1 DEF Settings
    <2> QED
      BY <2>1, <2>2, <2>3, <2>4, OtherStep
  <1> QED
    BY <1>3, <1>4, <1>5, <1>6

LEMMA FinishStep == SessionIInv /\ FinishParsing /\ UNCHANGED running => SessionIInv'
  <1> SUFFICES ASSUME SessionIInv, FinishParsing, UNCHANGED running
               PROVE  SessionIInv'
    OBVIOUS
  <1>1. PICK p : p = IF parser.m_benchmarks = <<>> THEN add_all(parser) ELSE parser
    OBVIOUS
  <1>2. PICK q : q = IF p.m_have_stdout_printer THEN p
                     ELSE add_printer(p, [opt |-> "--markdown", key |-> "stdout"])
    OBVIOUS
  <1>3. /\ status = "parsing" /\ status' = PcAfter(p, "parsed")
        /\ parser' = IF p.error # "none" THEN p ELSE [q EXCEPT !.m_used_devices = UsedDevices(q)]
        /\ m_args' = m_args /\ m_map' = m_map
    BY <1>1, <1>2 DEF FinishParsing
  <1>4. m_map = Defaults /\ parser.error = "none" /\ ParsedSoFar(m_args, parser)
    BY <1>3 DEF SessionIInv
  <1>5. status' = IF p.error = "none" THEN "parsed" ELSE "rejected"
    BY <1>3 DEF PcAfter
  <1>6. PICK args, n : args = m_args /\ n = Len(args)
    OBVIOUS
  <1>7. args \in Seq(Arguments) /\ n \in Nat /\ \A i : Ordered(args, Told(args, {i}))
    <2>1. args \in Seq(Arguments) /\ \A i : Ordered(args, Told(args, {i}))
      BY <1>4, <1>6 DEF ParsedSoFar
    <2>2. n \in Nat
      BY <1>6, <2>1
    <2> QED
      BY <2>1, <2>2
  <1>8. ASSUME p.error = "none"
        PROVE  IsParser(p) /\ Chosen(args, p.m_benchmarks)
    <2>1. CASE parser.m_benchmarks # <<>>
      <3>1. p = parser
        BY <1>1, <2>1
      <3>2. IsParser(p) /\ \A i \in 1..Len(p.m_benchmarks) : ConfiguredAt(args, i, p.m_benchmarks[i])
        BY <1>4, <1>6, <3>1 DEF ParsedSoFar
      <3> QED
        BY <1>7, <3>2 DEF Chosen, IsParser
    <2>2. CASE parser.m_benchmarks = <<>>
      <3>1. p = add_all(parser) /\ Len(parser.m_benchmarks) = 0
        BY <1>1, <2>2
      <3>2. PICK J : J = Told(args, {0})
        OBVIOUS
      <3>3. PICK places : Listed(args, J, parser.m_global_benchmark_args, places)
        BY <1>4, <1>6, <3>2 DEF ParsedSoFar
      <3>4. IsParser(parser)
        BY <1>4 DEF ParsedSoFar
      <3>5. FirstAdded(args, J, parser, Len(Registered), p)
        BY <1>4, <1>8, <3>1, <3>3, <3>4, AllAdded
      <3>6. Section(args, n) = 0
        BY <1>4, <1>6, <3>1 DEF ParsedSoFar
      <3>7. PICK m : m = Len(p.m_benchmarks)
        OBVIOUS
      <3>8. IsParser(p) /\ \A i \in 1..m : Configured(args, J, Registered[i], p.m_benchmarks[i])
        BY <3>5, <3>7 DEF FirstAdded
      <3>9. ASSUME NEW i \in 1..m
            PROVE  ConfiguredAt(args, i, p.m_benchmarks[i])
        <4>1. i \notin 0..Section(args, n)
          BY <3>6
        <4>2. Told(args, {i}) = {}
          BY <1>6, <1>7, <4>1, ToldNowhere
        <4>3. Told(args, {0, i}) = Told(args, {0}) \cup Told(args, {i})
          BY ToldTwice
        <4>4. Told(args, {0, i}) = J
          BY <3>2, <4>2, <4>3
        <4> QED
          BY <3>8, <4>4 DEF ConfiguredAt
      <3> QED
        BY <1>7, <3>7, <3>8, <3>9 DEF Chosen, IsParser
    <2> QED
      BY <2>1, <2>2
  <1>9. ASSUME p.error = "none"
        PROVE  Chosen(m_args', parser'.m_benchmarks)
    <2>1. IsParser(p) /\ Chosen(args, p.m_benchmarks)
      BY <1>8, <1>9
    <2>2. DOMAIN p = ParserFields
      BY <2>1 DEF IsParser
    <2>3. DOMAIN q = ParserFields /\ q.m_benchmarks = p.m_benchmarks
      <3>1. PICK a : a = [opt |-> "--markdown", key |-> "stdout"]
        OBVIOUS
      <3>2. PICK r : r = add_printer(p, a)
        OBVIOUS
      <3>3. a.opt = "--markdown"
        BY <3>1
      <3>4. PICK v, w : r = [p EXCEPT !.m_printer = v, !.m_have_stdout_printer = w]
        BY <3>2, <3>3 DEF add_printer
      <3>5. DOMAIN r = ParserFields /\ r.m_benchmarks = p.m_benchmarks
        BY <2>2, <3>4 DEF ParserFields
      <3> QED
        BY <1>2, <2>2, <3>1, <3>2, <3>5
    <2>4. PICK u : u = UsedDevices(q)
      OBVIOUS
    <2>5. parser' = [q EXCEPT !.m_used_devices = u]
      BY <1>3, <1>9, <2>4
    <2>6. parser'.m_benchmarks = p.m_benchmarks
      BY <2>3, <2>5 DEF ParserFields
    <2> QED
      BY <1>3, <1>6, <2>1, <2>6
  <1>10. bench' = bench /\ state' = state /\ measured' = measured
    BY DEF running
  <1>11. Shared'
    BY <1>3 DEF SessionIInv, Shared
  <1>12. /\ bench' \in Nat \ {0}
         /\ List(measured') /\ \A i \in 1..Len(measured') : Judged(measured'[i])
    BY <1>10 DEF SessionIInv
  <1>13. status' \notin {"parsing", "generator"} /\ (status' = "parsed" => p.error = "none")
    BY <1>5
  <1>14. status' \in {"parsed", "generator", "finished"} => Chosen(m_args', parser'.m_benchmarks)
    BY <1>5, <1>9
  <1> QED
    BY <1>11, <1>12, <1>13, <1>14 DEF SessionIInv, Shared

LEMMA ExitSteps ==
  SessionIInv /\ (ParseQuery \/ ExitAfterModification) /\ UNCHANGED running => SessionIInv'
  <1> SUFFICES ASSUME SessionIInv, ParseQuery \/ ExitAfterModification, UNCHANGED running
               PROVE  SessionIInv'
    OBVIOUS
  <1>1. status' = "exited" /\ m_map' = m_map
    BY DEF ParseQuery, ExitAfterModification
  <1>2. bench' = bench /\ measured' = measured
    BY DEF running
  <1> QED
    BY <1>1, <1>2 DEF SessionIInv, Shared

LEMMA BeginStep == SessionIInv /\ BeginState => SessionIInv'
  <1> SUFFICES ASSUME SessionIInv, BeginState
               PROVE  SessionIInv'
    OBVIOUS
  <1>1. PICK b : b = parser.m_benchmarks[bench]
    OBVIOUS
  <1>2. /\ status = "parsed" /\ status' = "generator" /\ bench <= Len(parser.m_benchmarks)
        /\ state' = NewState(b)
        /\ m_map' = m_map /\ m_args' = m_args /\ parser' = parser /\ bench' = bench
        /\ measured' = measured
    BY <1>1 DEF BeginState
  <1>3. Chosen(m_args, parser.m_benchmarks) /\ bench \in Nat \ {0}
    BY <1>2 DEF SessionIInv
  <1>4. Len(parser.m_benchmarks) \in Nat
    BY <1>3, ListIs DEF Chosen
  <1>5. bench \in 1..Len(parser.m_benchmarks)
    BY <1>2, <1>3, <1>4
  <1>6. PICK J, d : Configured(m_args, J, d, b)
    BY <1>1, <1>3, <1>5 DEF Chosen, ConfiguredAt
  <1>7. CriterionTold(m_args, J, d, b.stopping_criterion, b.criterion_params)
    BY <1>6 DEF Configured
  <1>8. b.stopping_criterion \in Criteria /\ ParamsFor(b.stopping_criterion, b.criterion_params)
    BY <1>7 DEF CriterionTold, ParamsFor
  <1>9. /\ state'.stopping_criterion = b.stopping_criterion
        /\ state'.criterion_params = b.criterion_params
    BY <1>2 DEF NewState
  <1>10. {"stopping_criterion", "criterion_params"} \subseteq DOMAIN state'
    BY <1>2 DEF NewState
  <1>11. Prepared(state')
    BY <1>8, <1>9, <1>10 DEF Prepared
  <1> QED
    BY <1>2, <1>3, <1>11 DEF SessionIInv, Shared

LEMMA EndStep == SessionIInv /\ EndSession => SessionIInv'
  <1> SUFFICES ASSUME SessionIInv, EndSession
               PROVE  SessionIInv'
    OBVIOUS
  <1>1. /\ status = "parsed" /\ status' = "finished" /\ m_map' = m_map /\ m_args' = m_args
        /\ parser' = parser /\ bench' = bench /\ measured' = measured
    BY DEF EndSession, running
  <1> QED
    BY <1>1 DEF SessionIInv, Shared

LEMMA SelectStep == SessionIInv /\ SetStoppingCriterion => SessionIInv'
  <1> SUFFICES ASSUME SessionIInv, SetStoppingCriterion
               PROVE  SessionIInv'
    OBVIOUS
  <1>1. PICK c \in MaySelect :
           state' = [state EXCEPT !.stopping_criterion = c, !.criterion_params = m_map[c], !.selected = TRUE]
    BY DEF SetStoppingCriterion
  <1>2. /\ status = "generator" /\ status' = status /\ m_map' = m_map /\ m_args' = m_args
        /\ parser' = parser /\ bench' = bench /\ measured' = measured
    BY DEF SetStoppingCriterion, parsing
  <1>3. c \in Criteria /\ ParamsFor(c, m_map[c])
    BY SelectionAssumption DEF SessionIInv, Shared
  <1>4. {"stopping_criterion", "criterion_params"} \subseteq DOMAIN state
    BY <1>2 DEF SessionIInv, Prepared
  <1>5. state'.stopping_criterion = c /\ state'.criterion_params = m_map[c]
    BY <1>1, <1>4
  <1>6. Prepared(state')
    <2>1. DOMAIN state' = DOMAIN state
      BY <1>1
    <2> QED
      BY <1>3, <1>4, <1>5, <2>1 DEF Prepared
  <1> QED
    BY <1>2, <1>6 DEF SessionIInv, Shared

LEMMA MeasureStep == SessionIInv /\ Measure => SessionIInv'
  <1> SUFFICES ASSUME SessionIInv, Measure
               PROVE  SessionIInv'
    OBVIOUS
  <1>1. PICK c, params : c = state.stopping_criterion /\ params = state.criterion_params
    OBVIOUS
  <1>2. status = "generator"
    BY DEF Measure
  <1>3. c \in Criteria /\ ParamsFor(c, params) /\ ParamsFor(c, m_map[c]) /\ DOMAIN m_map = Criteria
    BY <1>1, <1>2 DEF SessionIInv, Shared, Prepared
  <1>4. PICK D, mine : D = DOMAIN Defaults[c] /\ mine = m_map[c]
    OBVIOUS
  <1>5. params = [p \in D |-> params[p]] /\ mine = [p \in D |-> mine[p]]
    BY <1>3, <1>4 DEF ParamsFor
  <1>6. Initialized = params
    <2>1. Initialized = [p \in D |-> IF p \in D THEN params[p] ELSE mine[p]]
      BY <1>1, <1>4, <1>5 DEF Initialized, set_from
    <2> QED
      BY <1>5, <2>1
  <1>7. /\ m_map' = [m_map EXCEPT ![c] = params]
        /\ bench' = bench + 1 /\ status' = "parsed" /\ m_args' = m_args /\ parser' = parser
    BY <1>1, <1>6 DEF Measure
  <1>8. Shared'
    BY <1>3, <1>7 DEF SessionIInv, Shared
  <1>9. PICK m : /\ measured' = Append(measured, m)
                 /\ m.criterion = c /\ m.wanted = params /\ m.used = params
                 /\ m.accepted = do_initialize(c, params)
    BY <1>1, <1>6 DEF Measure
  <1>10. Judged(m)
    BY <1>9 DEF Judged
  <1>11. PICK n : n = Len(measured)
    OBVIOUS
  <1>12. n \in Nat /\ List(measured) /\ \A i \in 1..n : Judged(measured[i])
    BY <1>11, ListIs DEF SessionIInv
  <1>13. /\ List(measured') /\ Len(measured') = n + 1 /\ measured'[n + 1] = m
         /\ \A i \in 1..n : measured'[i] = measured[i]
    BY <1>9, <1>11, <1>12, ListAppend
  <1>14. \A i : i \in 1..(n + 1) <=> (i \in 1..n \/ i = n + 1)
    BY <1>12
  <1>15. \A i \in 1..Len(measured') : Judged(measured'[i])
    BY <1>10, <1>12, <1>13, <1>14
  <1>16. Chosen(m_args', parser'.m_benchmarks)
    BY <1>2, <1>7 DEF SessionIInv
  <1>17. bench' \in Nat \ {0}
    BY <1>7 DEF SessionIInv
  <1> QED
    BY <1>7, <1>8, <1>13, <1>15, <1>16, <1>17 DEF SessionIInv, Shared

LEMMA SessionStep == SessionIInv /\ [SessionNext]_session_vars => SessionIInv'
  <1> SUFFICES ASSUME SessionIInv, [SessionNext]_session_vars
               PROVE  SessionIInv'
    OBVIOUS
  <1>1. CASE Parse /\ UNCHANGED running
    BY <1>1, SettingStep, BenchmarkStep, OtherSteps, FinishStep, ExitSteps DEF Parse
  <1>2. CASE BeginState
    BY <1>2, BeginStep
  <1>3. CASE SetStoppingCriterion
    BY <1>3, SelectStep
  <1>4. CASE Measure
    BY <1>4, MeasureStep
  <1>5. CASE EndSession
    BY <1>5, EndStep
  <1>6. CASE UNCHANGED session_vars
    <2>1. /\ m_map' = m_map /\ status' = status /\ m_args' = m_args /\ parser' = parser
          /\ bench' = bench /\ state' = state /\ measured' = measured
      BY <1>6 DEF session_vars, parsing, running
    <2> QED
      BY <2>1 DEF SessionIInv, Shared
  <1> QED
    BY <1>1, <1>2, <1>3, <1>4, <1>5, <1>6 DEF SessionNext, Ended

LEMMA SessionInvariance == SessionSpec => []SessionIInv
  BY SessionInitially, SessionStep, PTL DEF SessionSpec

-----------------------------------------------------------------------------
(* What the invariant says of a command line *)

LEMMA GivenIs ==
  ASSUME NEW S, NEW opt \in Settings, NEW key, m_args \in Seq(Arguments)
  PROVE  GivenIn(S, opt, key) = Of(m_args, Told(m_args, S), opt, key)
  <1>1. DOMAIN m_args = 1..Len(m_args)
    OBVIOUS
  <1>2. \A j : SectionOf(j) = Section(m_args, j)
    BY DEF SectionOf, Section, Benchmarks
  <1> QED
    BY <1>1, <1>2 DEF GivenIn, Of, Told

LEMMA SelectionsAre ==
  ASSUME NEW S, m_args \in Seq(Arguments)
  PROVE  SelectionsIn(S) = Selections(m_args, Told(m_args, S))
  <1>1. PICK J : J = Told(m_args, S)
    OBVIOUS
  <1>2. "--stopping-criterion" \in Settings
    BY DEF Settings
  <1>3. \A c : GivenIn(S, "--stopping-criterion", c) = Of(m_args, J, "--stopping-criterion", c)
    BY <1>1, <1>2, GivenIs
  <1>4. SelectionsIn(S) = UNION {Of(m_args, J, "--stopping-criterion", c) : c \in Criteria}
    BY <1>3 DEF SelectionsIn
  <1>5. UNION {Of(m_args, J, "--stopping-criterion", c) : c \in Criteria} = Selections(m_args, J)
    BY DEF Of, Selections
  <1> QED
    BY <1>1, <1>4, <1>5

\* Global settings come before those of a benchmark.
LEMMA GlobalFirst ==
  ASSUME NEW args \in Seq(Arguments), NEW i \in Nat \ {0},
         NEW k \in Told(args, {0}), NEW j \in Told(args, {i})
  PROVE  k \in Nat /\ j \in Nat /\ k < j
  <1>1. k \in 1..Len(args) /\ Section(args, k) = 0 /\ j \in 1..Len(args) /\ Section(args, j) = i
    BY DEF Told
  <1>2. k \in Nat /\ j \in Nat
    BY <1>1
  <1>3. ASSUME j <= k
        PROVE  FALSE
    <2>1. Section(args, j) <= Section(args, k)
      BY <1>2, <1>3, SectionsFollow
    <2> QED
      BY <1>1, <2>1
  <1> QED
    BY <1>2, <1>3

\* The parameters that count are those of both sections, or where the benchmark
\* selects a criterion of its own, those of its section.
LEMMA ParametersInForce ==
  ASSUME NEW args \in Seq(Arguments), \A i : Ordered(args, Told(args, {i})), NEW i \in Nat \ {0}, NEW p,
         NEW given,
         given = Of(args, Told(args, IF Selections(args, Told(args, {i})) = {} THEN {0, i} ELSE {i}),
                    "parameter", p)
  PROVE  ParamsOf(args, Told(args, {0, i}), p) = given
  <1>1. PICK A, B, J : A = Told(args, {0}) /\ B = Told(args, {i}) /\ J = Told(args, {0, i})
    OBVIOUS
  <1>2. J = A \cup B
    BY <1>1, ToldTwice
  <1>3. \A k \in A, j \in B : k \in Nat /\ j \in Nat /\ k < j
    BY <1>1, GlobalFirst
  <1>4. Ordered(args, A) /\ Ordered(args, B)
    BY <1>1
  <1>5. \A k : k \in Selections(args, J) <=> k \in Selections(args, A) \/ k \in Selections(args, B)
    BY <1>2 DEF Selections
  <1>6. Selections(args, A) \subseteq A /\ Selections(args, B) \subseteq B
    BY DEF Selections
  <1>7. CASE Selections(args, B) = {}
    <2>1. given = Of(args, J, "parameter", p)
      BY <1>1, <1>7
    <2>2. ASSUME NEW j \in Of(args, J, "parameter", p), NEW k \in Selections(args, J)
          PROVE  k < j
      <3>1. j \in J /\ args[j].opt = "parameter" /\ k \in Selections(args, A) /\ k \in A
        BY <1>5, <1>6, <1>7, <2>2 DEF Of
      <3>2. CASE j \in A
        BY <1>4, <3>1, <3>2 DEF Ordered
      <3>3. CASE j \in B
        BY <1>3, <3>1, <3>3
      <3> QED
        BY <1>2, <3>1, <3>2, <3>3
    <2>3. ParamsOf(args, J, p) = Of(args, J, "parameter", p)
      BY <2>2 DEF ParamsOf
    <2> QED
      BY <1>1, <2>1, <2>3
  <1>8. CASE Selections(args, B) # {}
    <2>1. given = Of(args, B, "parameter", p)
      BY <1>1, <1>8
    <2>2. PICK s : s \in Selections(args, B)
      BY <1>8
    <2>3. ASSUME NEW j \in ParamsOf(args, J, p)
          PROVE  j \in Of(args, B, "parameter", p)
      <3>1. j \in J /\ args[j].opt = "parameter" /\ args[j].key = p /\ s < j
        BY <1>5, <2>2, <2>3 DEF ParamsOf, Of
      <3>2. ASSUME j \in A
            PROVE  FALSE
        <4>1. j \in Nat /\ s \in Nat /\ j < s
          BY <1>3, <1>6, <2>2, <3>2
        <4> QED
          BY <3>1, <4>1
      <3> QED
        BY <1>2, <3>1, <3>2 DEF Of
    <2>4. ASSUME NEW j \in Of(args, B, "parameter", p)
          PROVE  j \in ParamsOf(args, J, p)
      <3>1. j \in B /\ args[j].opt = "parameter" /\ j \in Of(args, J, "parameter", p)
        BY <1>2 DEF Of
      <3>2. ASSUME NEW k \in Selections(args, J)
            PROVE  k < j
        <4>1. CASE k \in Selections(args, A)
          BY <1>3, <1>6, <3>1, <4>1
        <4>2. CASE k \in Selections(args, B)
          BY <1>4, <3>1, <4>2 DEF Ordered
        <4> QED
          BY <1>5, <4>1, <4>2
      <3> QED
        BY <3>1, <3>2 DEF ParamsOf
    <2>5. ParamsOf(args, J, p) = Of(args, B, "parameter", p)
      BY <2>3, <2>4
    <2> QED
      BY <1>1, <2>1, <2>5
  <1> QED
    BY <1>7, <1>8

\* get_benchmark finds the first of that name, benchmark_manager::add takes any.
DistinctNames ==
  \A b, c \in DOMAIN Registered : Registered[b].name = Registered[c].name => b = c

LEMMA OnlyOneOfTheName ==
  ASSUME DistinctNames, NEW d \in Range(Registered)
  PROVE  Declared(d.name) = d
  <1>1. PICK name : name = d.name
    OBVIOUS
  <1>2. name \in Names
    BY <1>1 DEF Names, Range
  <1>3. PICK e \in Range(Registered) : e = Declared(name) /\ e.name = name
    BY <1>2, DeclaredIs
  <1>4. PICK b, c \in DOMAIN Registered : d = Registered[b] /\ e = Registered[c]
    BY DEF Range
  <1>5. b = c
    BY <1>1, <1>3, <1>4 DEF DistinctNames
  <1> QED
    BY <1>1, <1>3, <1>4, <1>5

LEMMA SettingsHold ==
  ASSUME m_args \in Seq(Arguments), NEW i, NEW b, NEW d, d = Declared(b.name),
         NEW J, J = Told(m_args, {0, i}), Configured(m_args, J, d, b)
  PROVE  DevicesAsWritten(i, b) /\ SettingsAsWritten(i, b)
  <1>1. \A opt \in Settings : \A key : Given(i, opt, key) = Of(m_args, J, opt, key)
    BY GivenIs DEF Given
  <1>2. {"--devices", "property", "--axis", "--profile", "--no-batch"} \subseteq Settings
    BY DEF Settings
  <1>3. \A key : /\ Given(i, "--devices", key) = Of(m_args, J, "--devices", key)
                 /\ Given(i, "property", key) = Of(m_args, J, "property", key)
                 /\ Given(i, "--axis", key) = Of(m_args, J, "--axis", key)
                 /\ Given(i, "--profile", key) = Of(m_args, J, "--profile", key)
                 /\ Given(i, "--no-batch", key) = Of(m_args, J, "--no-batch", key)
    BY <1>1, <1>2
  <1>4. \A given, key, otherwise : Written(given, key, otherwise) = ValueOf(m_args, given, key, otherwise)
    BY DEF Written, ValueOf, LastGiven
  <1>5. DevicesAsWritten(i, b)
    BY <1>3 DEF DevicesAsWritten, Configured, DevicesTold, LastGiven
  <1>6. b.props = [k \in Props |-> Written(Given(i, "property", k), k, d.props[k])]
    BY <1>3, <1>4 DEF Configured, PropsTold
  <1>7. b.axes = [x \in DOMAIN d.axes |->
                    LET given == Given(i, "--axis", x)
                    IN IF given = {} THEN d.axes[x] ELSE {LastGiven(given)}]
    <2>1. \A x : (IF Given(i, "--axis", x) = {} THEN d.axes[x] ELSE {LastGiven(Given(i, "--axis", x))})
                 = IF Of(m_args, J, "--axis", x) = {} THEN d.axes[x]
                   ELSE {m_args[Max(Of(m_args, J, "--axis", x))].val}
      BY <1>3 DEF LastGiven
    <2> QED
      BY <2>1 DEF Configured, AxesTold
  <1>8. /\ b.run_once = (d.run_once \/ Given(i, "--profile", "") # {})
        /\ b.disable_blocking_kernel = (d.disable_blocking_kernel \/ Given(i, "--profile", "") # {})
        /\ Given(i, "--no-batch", "") # {} => b.skip_batched
    BY <1>3 DEF Configured, FlagsTold
  <1> QED
    BY <1>5, <1>6, <1>7, <1>8 DEF SettingsAsWritten

LEMMA CriterionHolds ==
  ASSUME m_args \in Seq(Arguments), NEW i, NEW b, NEW d, d = Declared(b.name),
         NEW J, J = Told(m_args, {0, i}), Configured(m_args, J, d, b)
  PROVE  CriterionAsWritten(i, b)
  <1>1. PICK selections : selections = SelectionsIn({0, i})
    OBVIOUS
  <1>2. selections = Selections(m_args, J)
    BY <1>1, SelectionsAre
  <1>3. "parameter" \in Settings
    BY DEF Settings
  <1>4. \A p : Given(i, "parameter", p) = Of(m_args, J, "parameter", p)
    BY <1>3, GivenIs DEF Given
  <1>5. \A p : {j \in Given(i, "parameter", p) : \A k \in selections : k < j} = ParamsOf(m_args, J, p)
    BY <1>2, <1>4 DEF ParamsOf
  <1>6. PICK chosen : chosen = IF selections = {} THEN d.stopping_criterion ELSE m_args[Max(selections)].key
    OBVIOUS
  <1>7. PICK initial : initial = IF selections = {} THEN d.criterion_params ELSE Defaults[chosen]
    OBVIOUS
  <1>8. chosen = CriterionOf(m_args, J, d)
    BY <1>2, <1>6 DEF CriterionOf
  <1>9. initial = InitialOf(m_args, J, d)
    BY <1>2, <1>7, <1>8 DEF InitialOf
  <1>10. CriterionTold(m_args, J, d, b.stopping_criterion, b.criterion_params)
    BY DEF Configured
  <1>11. b.stopping_criterion = chosen
    BY <1>8, <1>10 DEF CriterionTold
  <1>12. \A p : Written({j \in Given(i, "parameter", p) : \A k \in selections : k < j}, p, initial[p])
                  = ValueOf(m_args, ParamsOf(m_args, J, p), p, initial[p])
    BY <1>5 DEF Written, ValueOf, LastGiven
  <1>13. b.criterion_params = [p \in DOMAIN Defaults[chosen] |->
                                 ValueOf(m_args, ParamsOf(m_args, J, p), p, initial[p])]
    BY <1>9, <1>10, <1>11 DEF CriterionTold
  <1>14. b.criterion_params =
           [p \in DOMAIN Defaults[chosen] |->
              Written({j \in Given(i, "parameter", p) : \A k \in selections : k < j}, p, initial[p])]
    BY <1>12, <1>13
  <1> QED
    BY <1>1, <1>6, <1>7, <1>11, <1>14 DEF CriterionAsWritten

LEMMA NothingIsDiscarded ==
  ASSUME m_args \in Seq(Arguments), \A k : Ordered(m_args, Told(m_args, {k})),
         NEW i \in Nat \ {0}, NEW b, NEW d,
         NEW J, J = Told(m_args, {0, i}), Configured(m_args, J, d, b)
  PROVE  NothingDiscarded(i, b)
  <1>1. ASSUME NEW p, NEW sections, sections = (IF SelectionsIn({i}) = {} THEN {0, i} ELSE {i}),
               NEW given, given = GivenIn(sections, "parameter", p), given # {}
        PROVE  p \in DOMAIN b.criterion_params /\ b.criterion_params[p] = Stored(p, LastGiven(given))
    <2>1. SelectionsIn({i}) = Selections(m_args, Told(m_args, {i}))
      BY SelectionsAre
    <2>2. "parameter" \in Settings
      BY DEF Settings
    <2>3. given = Of(m_args, Told(m_args, sections), "parameter", p)
      BY <1>1, <2>2, GivenIs
    <2>4. ParamsOf(m_args, J, p) = given
      BY <1>1, <2>1, <2>3, ParametersInForce
    <2>5. PICK c, params : c = b.stopping_criterion /\ params = b.criterion_params
      OBVIOUS
    <2>6. CriterionTold(m_args, J, d, c, params)
      BY <2>5 DEF Configured
    <2>7. p \in DOMAIN Defaults[c]
      BY <1>1, <2>4, <2>6 DEF CriterionTold
    <2>8. p \in DOMAIN params /\ params[p] = ValueOf(m_args, given, p, InitialOf(m_args, J, d)[p])
      BY <2>4, <2>6, <2>7 DEF CriterionTold
    <2> QED
      BY <1>1, <2>5, <2>8 DEF ValueOf, LastGiven
  <1> QED
    BY <1>1 DEF NothingDiscarded

LEMMA ChosenAsWritten ==
  ASSUME DistinctNames, SessionIInv
  PROVE  EveryBenchmarkAsWritten
  <1> SUFFICES ASSUME status = "parsed", NEW i \in DOMAIN parser.m_benchmarks
               PROVE  LET b == parser.m_benchmarks[i]
                      IN /\ DevicesAsWritten(i, b) /\ CriterionAsWritten(i, b)
                         /\ SettingsAsWritten(i, b) /\ NothingDiscarded(i, b)
    BY DEF EveryBenchmarkAsWritten
  <1>1. Chosen(m_args, parser.m_benchmarks)
    BY DEF SessionIInv
  <1>2. PICK n : n = Len(parser.m_benchmarks)
    OBVIOUS
  <1>3. n \in Nat /\ i \in 1..n
    BY <1>1, <1>2, ListIs DEF Chosen
  <1>4. PICK b, J : b = parser.m_benchmarks[i] /\ J = Told(m_args, {0, i})
    OBVIOUS
  <1>5. PICK d : Configured(m_args, J, d, b)
    BY <1>1, <1>2, <1>3, <1>4 DEF Chosen, ConfiguredAt
  <1>6. d = Declared(b.name)
    <2>1. d \in Range(Registered) /\ b.name = d.name
      BY <1>5 DEF Configured
    <2> QED
      BY <2>1, OnlyOneOfTheName
  <1>7. m_args \in Seq(Arguments) /\ \A k : Ordered(m_args, Told(m_args, {k}))
    BY <1>1 DEF Chosen
  <1>8. DevicesAsWritten(i, b) /\ SettingsAsWritten(i, b)
    BY <1>4, <1>5, <1>6, <1>7, SettingsHold
  <1>9. CriterionAsWritten(i, b)
    BY <1>4, <1>5, <1>6, <1>7, CriterionHolds
  <1>10. NothingDiscarded(i, b)
    <2>1. i \in Nat \ {0}
      BY <1>3
    <2> QED
      BY <1>4, <1>5, <1>7, <2>1, NothingIsDiscarded
  <1> QED
    BY <1>4, <1>8, <1>9, <1>10

-----------------------------------------------------------------------------
(* Theorems *)

\* Whatever the arguments and their order: if the command line is accepted,
\* each benchmark has the devices, axes, properties, flags and criterion that are
\* written for it, globally or after it, the last of each counting, and no
\* parameter written for its criterion is lost.  Benchmarks have different names.
THEOREM SettingsAreAlwaysAsWritten ==
  ASSUME DistinctNames
  PROVE  SessionSpec => []EveryBenchmarkAsWritten
  <1>1. SessionIInv => EveryBenchmarkAsWritten
    BY ChosenAsWritten
  <1> QED
    BY <1>1, SessionInvariance, PTL

\* Although all measurements with a criterion share its parameters, each is
\* judged by those of its own state, and refused for no others.
THEOREM AlwaysJudgedByItsOwn == SessionSpec => []JudgedByItsOwnParameters
  <1>1. SessionIInv => JudgedByItsOwnParameters
    <2> SUFFICES ASSUME SessionIInv, NEW i \in DOMAIN measured
                 PROVE  /\ measured[i].used = measured[i].wanted
                        /\ measured[i].accepted <=>
                             do_initialize(measured[i].criterion, measured[i].wanted)
      BY DEF JudgedByItsOwnParameters
    <2>1. i \in 1..Len(measured)
      BY ListIs DEF SessionIInv
    <2> QED
      BY <2>1 DEF SessionIInv, Judged
  <1> QED
    BY <1>1, SessionInvariance, PTL

-----------------------------------------------------------------------------
(***************************************************************************)
(* SamplingLoop.  The inductive invariant says that the vectors, the       *)
(* criterion and the measurement count the same trials (SamplesAgree),     *)
(* what stdrel has of an estimate after how many samples (NoiseTracked),   *)
(* that the loop still runs without a verdict (Undecided), and why one     *)
(* that timed out did not finish (TimedOutUnmet).                          *)
(***************************************************************************)
Noise == {"none", "invalid", "under", "over"}

Estimates == [samples : Nat, time : Nat, noise : Noise, invalid : Nat,
              tracked : Nat]

TypeOK ==
  /\ config \in Configs
  /\ pc \in {"record", "is_finished", "summaries", "done"}
  /\ m_total_samples \in Nat
  /\ m_total_time \in Nat
  /\ lengths \in [Vectors -> Nat]
  /\ m_throttle_discard_count \in 0..3
  /\ m_dynamic_throttle_recovery_delay \in Nat
  /\ walltime \in Int
  /\ m_max_time_exceeded \in BOOLEAN
  /\ criterion \in Estimates

\* The estimate stdrel holds, and the samples it took
NoiseTracked ==
  /\ config.criterion = "stdrel"
     /\ criterion.samples >= min_samples_for_noise_estimate
     => criterion.noise # "none"
  /\ criterion.noise \in {"under", "over"} =>
       criterion.tracked > 0 /\ criterion.invalid = 0
  /\ criterion.tracked > 0 \/ criterion.invalid > 0 => criterion.samples > 0

\* Only is_finished gives up, and a trial that runs once is never discarded.
Undecided ==
  /\ pc \in {"record", "is_finished"} => ~m_max_time_exceeded
  /\ pc = "is_finished" /\ config.run_once => m_total_samples > 0

\* What a timeout left unmet when the loop ended
TimedOutUnmet ==
  pc = "summaries" /\ m_max_time_exceeded /\ config.criterion = "stdrel"
    => ~EnoughSamples \/ ~StdrelMust

IInv ==
  /\ TypeOK
  /\ SamplesAgree
  /\ NoiseTracked
  /\ Undecided
  /\ TimedOutUnmet
  /\ StdrelTimeoutIsReported
-----------------------------------------------------------------------------
LEMMA EstimateTyped ==
  ASSUME NEW r \in Estimates
  PROVE  /\ r.samples \in Nat /\ r.time \in Nat /\ r.noise \in Noise
         /\ r.invalid \in Nat /\ r.tracked \in Nat
         /\ r.invalid + 1 \in Nat /\ r.tracked + 1 \in Nat \ {0}
  BY DEF Estimates

USE SamplingAssumption DEF vars, statistics, throttling, written

LEMMA ConfigTyped ==
  ASSUME config \in Configs
  PROVE  /\ config.kind \in {"cold", "cpu_only"}
         /\ config.run_once \in BOOLEAN /\ config.limited \in BOOLEAN
         /\ config.min_samples \in Int /\ config.timeout \in Int
         /\ config.criterion \in CriterionNames
         /\ config.goal \in Nat /\ config.delay \in Nat
         /\ config.criterion = "sample-count" => config.goal > 0
  BY DEF ConfigType

LEMMA ElapseTyped ==
  ASSUME TypeOK, NEW ticks \in Nat, Elapse(ticks)
  PROVE  walltime' \in Int
  BY ConfigTyped DEF TypeOK, Elapse, AtMost

\* How the criterion takes a trial in
LEMMA AddMeasurementTracks ==
  ASSUME TypeOK, NoiseTracked, NEW time \in Durations, AddMeasurement(time),
         UNCHANGED config
  PROVE  /\ criterion' \in Estimates
         /\ criterion'.samples = criterion.samples + 1
         /\ criterion'.time = criterion.time + time
         /\ NoiseTracked'
  <1> PICK c : c = [criterion EXCEPT !.samples = @ + 1, !.time = @ + time]
    OBVIOUS
  <1>1. criterion \in Estimates /\ time \in Nat
    BY DEF TypeOK
  <1>2. c = [samples |-> criterion.samples + 1, time |-> criterion.time + time,
             noise |-> criterion.noise, invalid |-> criterion.invalid,
             tracked |-> criterion.tracked]
    BY <1>1 DEF Estimates
  <1>3. /\ c \in Estimates
        /\ c.samples = criterion.samples + 1 /\ c.time = criterion.time + time
        /\ c.noise = criterion.noise /\ c.invalid = criterion.invalid
        /\ c.tracked = criterion.tracked
    BY <1>1, <1>2, EstimateTyped DEF Estimates
  <1>4. criterion.samples \in Nat /\ min_samples_for_noise_estimate \in Nat
    BY <1>1, EstimateTyped
  <1>5. CASE config.criterion # "stdrel"
             \/ c.samples < min_samples_for_noise_estimate
    <2>1. criterion' = c
      BY <1>5 DEF AddMeasurement
    <2>2. QED  BY <1>3, <1>4, <1>5, <2>1 DEF NoiseTracked
  <1>6. CASE ~(config.criterion # "stdrel"
               \/ c.samples < min_samples_for_noise_estimate)
    <2>1. \/ criterion' = [c EXCEPT !.noise = "invalid", !.invalid = @ + 1]
          \/ \E noise \in {"under", "over"} :
               criterion' = [c EXCEPT !.noise = noise, !.invalid = 0,
                                      !.tracked = @ + 1]
      BY <1>6 DEF AddMeasurement
    <2>2. CASE criterion' = [c EXCEPT !.noise = "invalid", !.invalid = @ + 1]
      <3>1. criterion' = [samples |-> c.samples, time |-> c.time,
                          noise |-> "invalid", invalid |-> c.invalid + 1,
                          tracked |-> c.tracked]
        BY <1>3, <2>2 DEF Estimates
      <3>2. criterion' \in Estimates
        BY <1>3, <3>1, EstimateTyped DEF Estimates, Noise
      <3>3. QED  BY <1>3, <1>4, <3>1, <3>2 DEF NoiseTracked
    <2>3. CASE \E noise \in {"under", "over"} :
                 criterion' = [c EXCEPT !.noise = noise, !.invalid = 0,
                                        !.tracked = @ + 1]
      <3> PICK noise \in {"under", "over"} :
            criterion' = [c EXCEPT !.noise = noise, !.invalid = 0,
                                   !.tracked = @ + 1]
        BY <2>3
      <3>1. criterion' = [samples |-> c.samples, time |-> c.time,
                          noise |-> noise, invalid |-> 0,
                          tracked |-> c.tracked + 1]
        BY <1>3 DEF Estimates
      <3>2. criterion' \in Estimates
        BY <1>3, <3>1, EstimateTyped DEF Estimates, Noise
      <3>3. c.tracked + 1 > 0 /\ c.samples > 0
        BY <1>1, <1>3, EstimateTyped
      <3>4. QED  BY <1>3, <1>4, <3>1, <3>2, <3>3 DEF NoiseTracked
    <2>4. QED  BY <2>1, <2>2, <2>3
  <1>7. QED  BY <1>3, <1>5, <1>6
-----------------------------------------------------------------------------
LEMMA InitEstablishes == Init => IInv
  <1> SUFFICES ASSUME Init PROVE IInv
    OBVIOUS
  <1>1. TypeOK
    <2>1. config.delay \in Nat
      BY ConfigTyped DEF Init
    <2>2. Fresh \in Estimates
      BY DEF Fresh, Estimates, Noise
    <2>3. criterion \in Estimates /\ m_dynamic_throttle_recovery_delay \in Nat
      BY <2>1, <2>2 DEF Init
    <2>4. lengths \in [Vectors -> Nat] /\ m_throttle_discard_count \in 0..3
      BY DEF Init
    <2>5. m_total_samples \in Nat /\ m_total_time \in Nat /\ walltime \in Int
      BY DEF Init
    <2>6. m_max_time_exceeded \in BOOLEAN
      BY DEF Init
    <2>7. QED  BY <2>3, <2>4, <2>5, <2>6, Zenon DEF Init, TypeOK
  <1>2. SamplesAgree
    BY DEF Init, SamplesAgree, Fresh, Recorded, Vectors
  <1>3. NoiseTracked /\ Undecided /\ TimedOutUnmet /\ StdrelTimeoutIsReported
    BY DEF Init, NoiseTracked, Undecided, TimedOutUnmet, Fresh,
           StdrelTimeoutIsReported
  <1>4. QED  BY <1>1, <1>2, <1>3 DEF IInv

LEMMA StepPreserves == IInv /\ [Next]_vars => IInv'
  <1> SUFFICES ASSUME IInv, [Next]_vars PROVE IInv'
    OBVIOUS
  <1> USE DEF IInv
  <1>1. CASE Discard
    <2>1. TypeOK'
      <3>1. m_dynamic_throttle_recovery_delay' \in Nat
        BY <1>1 DEF Discard, TypeOK, AtMost, Longer
      <3>2. walltime' \in Int
        BY <1>1, <3>1, ElapseTyped DEF Discard
      <3>3. QED  BY <1>1, <3>1, <3>2 DEF Discard, TypeOK, NothingKept, AtMost
    <2>2. SamplesAgree'
      BY <1>1 DEF Discard, NothingKept, SamplesAgree, Recorded,
                  m_check_throttling
    <2>3. QED
      BY <1>1, <2>1, <2>2 DEF Discard, NothingKept, NoiseTracked, Undecided,
         TimedOutUnmet, StdrelTimeoutIsReported, m_check_throttling
  <1>2. CASE Record
    <2> PICK time \in Durations :
          /\ Elapse(1 + time)
          /\ m_total_time' = m_total_time + time
          /\ AddMeasurement(time)
      BY <1>2 DEF Record
    <2>1. /\ criterion' \in Estimates
          /\ criterion'.samples = criterion.samples + 1
          /\ criterion'.time = criterion.time + time
          /\ NoiseTracked'
      BY <1>2, AddMeasurementTracks DEF Record
    <2>2. TypeOK'
      <3>1. walltime' \in Int
        BY ElapseTyped
      <3>2. QED  BY <1>2, <2>1, <3>1 DEF Record, TypeOK
    <2>3. SamplesAgree'
      <3>1. Recorded' = Recorded /\ Recorded \subseteq Vectors
        BY <1>2 DEF Record, Recorded, m_check_throttling, Vectors
      <3>2. QED  BY <1>2, <2>1, <3>1 DEF Record, SamplesAgree, TypeOK
    <2>4. QED
      BY <1>2, <2>1, <2>2, <2>3 DEF Record, Undecided, TimedOutUnmet, TypeOK,
         StdrelTimeoutIsReported
  <1>3. CASE IsFinished
    <2>1. TypeOK'
      BY <1>3 DEF IsFinished, TypeOK, TimedOut
    <2>2. SamplesAgree' /\ NoiseTracked' /\ Undecided'
      BY <1>3 DEF IsFinished, SamplesAgree, Recorded, m_check_throttling,
                  NoiseTracked, Undecided
    <2>3. TimedOutUnmet'
      <3>1. SUFFICES ASSUME pc' = "summaries", m_max_time_exceeded',
                            config.criterion = "stdrel", EnoughSamples,
                            StdrelMust
                     PROVE  FALSE
        BY <1>3 DEF TimedOutUnmet, IsFinished, EnoughSamples, StdrelMust,
                    GivesUp, NoiseIsKnown
      <3>2. Verdict = {StdrelMust, StdrelMay} /\ StdrelMay
        BY <3>1 DEF Verdict, StdrelMay
      <3>3. ~m_max_time_exceeded
        BY <1>3 DEF IsFinished, Undecided
      <3>4. QED  BY <1>3, <3>1, <3>2, <3>3 DEF IsFinished
    <2>4. QED
      BY <1>3, <2>1, <2>2, <2>3 DEF IsFinished, StdrelTimeoutIsReported
  <1>4. CASE GenerateSummaries
    <2>1. TypeOK' /\ SamplesAgree' /\ NoiseTracked' /\ Undecided'
          /\ TimedOutUnmet'
      BY <1>4 DEF GenerateSummaries, TypeOK, SamplesAgree, Recorded,
         m_check_throttling, NoiseTracked, Undecided, TimedOutUnmet
    <2>2. StdrelTimeoutIsReported'
      <3>1. SUFFICES ASSUME m_max_time_exceeded,
                            config.criterion = "stdrel",
                            m_total_time # config.goal
                     PROVE  TimeoutWarnings # {}
        BY <1>4 DEF GenerateSummaries, StdrelTimeoutIsReported
      <3>2. CASE ~EnoughSamples
        BY <3>2, ConfigTyped DEF TimeoutWarnings, EnoughSamples, TypeOK
      <3>3. CASE m_total_samples < min_samples_for_noise_estimate
        BY <3>1, <3>3 DEF TimeoutWarnings, NoiseWarning
      <3>4. CASE EnoughSamples
                 /\ ~(m_total_samples < min_samples_for_noise_estimate)
        <4>1. ~StdrelMust
          BY <1>4, <3>1, <3>4 DEF GenerateSummaries, TimedOutUnmet
        <4>2. criterion.noise \in {"invalid", "under", "over"}
          BY <3>1, <3>4 DEF NoiseTracked, SamplesAgree, TypeOK, Estimates, Noise
        <4>3. CASE criterion.noise \in {"invalid", "over"}
          BY <3>1, <3>4, <4>3 DEF TimeoutWarnings, NoiseWarning
        <4>4. CASE criterion.noise = "under"
          <5>1. criterion.tracked > 0 /\ criterion.invalid = 0
            BY <4>4 DEF NoiseTracked
          <5>2. ~(criterion.time > config.goal)
            BY <4>1, <4>4, <5>1 DEF StdrelMust, NoiseIsKnown
          <5>3. m_total_time < config.goal
            BY <3>1, <5>2, ConfigTyped DEF SamplesAgree, TypeOK, Estimates
          <5>4. QED  BY <3>1, <5>3 DEF TimeoutWarnings
        <4>5. QED  BY <4>2, <4>3, <4>4
      <3>5. QED  BY <3>2, <3>3, <3>4
    <2>3. QED  BY <2>1, <2>2
  <1>5. CASE UNCHANGED vars
    BY <1>5 DEF TypeOK, SamplesAgree, Recorded, m_check_throttling,
       NoiseTracked, Undecided, TimedOutUnmet, EnoughSamples, StdrelMust,
       GivesUp, NoiseIsKnown, StdrelTimeoutIsReported
  <1>6. QED  BY <1>1, <1>2, <1>3, <1>4, <1>5 DEF Next, Step, Done

\* The inductive invariant holds of every measurement.
THEOREM SamplingInvariant == Spec => []IInv
  BY InitEstablishes, StepPreserves, PTL DEF Spec

\* However trials are discarded, with any settings and lengths of trials, the
\* vectors, the measurement and its criterion count the same ones: the means
\* and the pairs of vectors generate_summaries and the printers form are of
\* the same trials.
THEOREM SamplesAlwaysAgree == Spec => []SamplesAgree
  <1>1. IInv => SamplesAgree
    BY DEF IInv
  <1>2. QED  BY <1>1, SamplingInvariant, PTL

\* For every limit on the noise, minimum of samples and timeout, a stdrel
\* measurement that gives up warns of something that was unmet, unless its
\* time is min-time to the tick (log_measurement_timeout_warnings).
THEOREM StdrelTimeoutAlwaysReported == Spec => []StdrelTimeoutIsReported
  <1>1. IInv => StdrelTimeoutIsReported
    BY DEF IInv
  <1>2. QED  BY <1>1, SamplingInvariant, PTL

-----------------------------------------------------------------------------
\* What the verdicts need of the samples
LEMMA FinishedHasSamples ==
  ASSUME IInv, NEW finished \in IF EnoughSamples THEN Verdict ELSE {FALSE},
         finished
  PROVE  m_total_samples > 0 /\ m_total_samples >= config.min_samples
  <1>1. EnoughSamples /\ finished \in Verdict
    OBVIOUS
  <1>2. config.criterion \in CriterionNames
    BY ConfigTyped DEF IInv, TypeOK
  <1>3. /\ criterion.samples = m_total_samples /\ m_total_samples \in Nat
        /\ criterion.tracked \in Nat /\ criterion.invalid \in Nat
    BY EstimateTyped DEF IInv, TypeOK, SamplesAgree
  <1>4. CASE config.criterion = "sample-count"
    <2>1. Verdict = {criterion.samples >= config.goal}
      BY <1>4 DEF Verdict
    <2>2. config.goal \in Nat /\ config.goal > 0
      BY <1>4, ConfigTyped DEF IInv, TypeOK
    <2>3. criterion.samples >= config.goal
      BY <1>1, <2>1, Zenon
    <2>4. QED  BY <1>1, <1>3, <2>2, <2>3 DEF EnoughSamples
  <1>5. CASE config.criterion = "stdrel"
    <2>1. Verdict = {StdrelMust, StdrelMay}
      BY <1>5 DEF Verdict
    <2>2. StdrelMust \/ StdrelMay
      BY <1>1, <2>1
    <2>3. criterion.tracked > 0 \/ criterion.invalid > 0
      BY <1>3, <2>2 DEF StdrelMust, StdrelMay, NoiseIsKnown, GivesUp
    <2>4. QED  BY <1>1, <1>3, <2>3 DEF IInv, NoiseTracked, EnoughSamples
  <1>6. CASE config.criterion = "entropy"
    <2>1. ~(criterion.samples < 2)
      BY <1>1, <1>6 DEF Verdict
    <2>2. QED  BY <1>1, <1>3, <2>1 DEF EnoughSamples
  <1>7. QED  BY <1>2, <1>4, <1>5, <1>6 DEF CriterionNames

LEMMA StepRefines == IInv /\ [Next]_vars => [M!Next]_(M!vars)
  <1> SUFFICES ASSUME IInv, [Next]_vars PROVE [M!Next]_(M!vars)
    OBVIOUS
  <1> USE DEF M!vars, Outcome
  <1>1. CASE Discard
    BY <1>1 DEF Discard, NothingKept
  <1>2. CASE Record
    <2>1. m_total_samples' > m_total_samples
      BY <1>2 DEF Record, IInv, TypeOK
    <2>2. M!Gather
      BY <1>2, <2>1 DEF Record, M!Gather
    <2>3. QED  BY <2>2 DEF M!Next
  <1>3. CASE IsFinished
    <2> PICK finished \in IF EnoughSamples THEN Verdict ELSE {FALSE} :
          IF config.run_once \/ finished
          THEN pc' = "summaries" /\ UNCHANGED m_max_time_exceeded
          ELSE /\ pc' = IF TimedOut THEN "summaries" ELSE "record"
               /\ m_max_time_exceeded' = TimedOut
      BY <1>3 DEF IsFinished
    <2>1. ~m_max_time_exceeded
      BY <1>3 DEF IsFinished, IInv, Undecided
    <2>2. CASE config.run_once \/ finished
      <3>1. /\ m_total_samples > 0
            /\ m_total_samples >= IF config.run_once THEN 1
                                                    ELSE config.min_samples
        <4>1. CASE config.run_once
          BY <1>3, <4>1 DEF IInv, Undecided, IsFinished, TypeOK
        <4>2. CASE ~config.run_once
          BY <2>2, <4>2, FinishedHasSamples
        <4>3. QED  BY <4>1, <4>2
      <3>2. M!Complete
        BY <1>3, <2>1, <2>2, <3>1 DEF IsFinished, M!Complete, statistics
      <3>3. QED  BY <3>2 DEF M!Next
    <2>3. CASE ~(config.run_once \/ finished) /\ TimedOut
      <3>1. M!TimeOut
        BY <1>3, <2>3 DEF IsFinished, M!TimeOut, TimedOut
      <3>2. QED  BY <3>1 DEF M!Next
    <2>4. CASE ~(config.run_once \/ finished) /\ ~TimedOut
      BY <1>3, <2>1, <2>4 DEF IsFinished
    <2>5. QED  BY <2>2, <2>3, <2>4
  <1>4. CASE GenerateSummaries
    BY <1>4 DEF GenerateSummaries
  <1>5. CASE UNCHANGED vars
    BY <1>5
  <1>6. QED  BY <1>1, <1>2, <1>3, <1>4, <1>5 DEF Next, Step, Done

\* The loop is a measurement, whatever its settings: it never loses a sample,
\* is complete only with its minimum of them, and at least one, and gives up
\* only if it has a timeout (run_trials and is_finished).  That it ends is
\* left to the run.
THEOREM SamplingIsMeasurement == Spec => M!Spec
  <1>1. Init => M!Init
    BY DEF Init, M!Init, Outcome
  <1>2. QED
    BY <1>1, SamplingInvariant, StepRefines, PTL DEF Spec, M!Spec
=============================================================================
