--------------------------- MODULE PythonBenchmarks ---------------------------
(***************************************************************************)
(* A Python script that defines benchmarks with the decorators of          *)
(* cuda.bench, registers them and runs them.  A script is a sequence of    *)
(* statements: a definition with its decorators, top to bottom, or a call  *)
(* bench.register(f); it ends in bench.run_all_benchmarks.                 *)
(***************************************************************************)
EXTENDS Integers, Sequences, SequencesExt, FiniteSets, TLC

CONSTANT None

VARIABLE child   \* the process that runs the script, or None

\* The criteria the manager knows, with the parameters it gives a benchmark
Defaults == [stdrel |-> [p \in {"max-noise"} |-> 5], entropy |-> [p \in {"max-angle"} |-> 48]]

Register == [set |-> "register"]
Axis(name) == [set |-> "axis", value |-> name]
Criterion(name) == [set |-> "criterion", value |-> name]
Param(name, value) == [set |-> "param", name |-> name, value |-> value]
Option(name, value) == [set |-> "option", name |-> name, value |-> value]

\* A map with one entry set
Put(f, key, value) == [k \in DOMAIN f \cup {key} |-> IF k = key THEN value ELSE f[k]]

\* The elements of seq that are in S, in their order: SelectSeq, as a function
\* that proofs can unfold
Keep(seq, S) ==
  LET kept[i \in 0..Len(seq)] ==
        IF i = 0 THEN <<>>
        ELSE IF seq[i] \in S THEN Append(kept[i - 1], seq[i]) ELSE kept[i - 1]
  IN kept[Len(seq)]

Define(decorators) == [kind |-> "def", decorators |-> decorators]
Call(f) == [kind |-> "call", fn |-> f]

-----------------------------------------------------------------------------
(* Benchmarks and the actions recorded for them *)

Raised == [raised |-> TRUE]

add_bench(f) ==
  [fn |-> f, axes |-> <<>>, criterion |-> "stdrel", params |-> Defaults["stdrel"], options |-> <<>>]

\* set_stopping_criterion throws on a name the manager does not know, and
\* takes the parameters of the manager otherwise.
Apply(benchmark, action) ==
  IF benchmark = Raised THEN Raised ELSE
  CASE action.set = "axis" -> [benchmark EXCEPT !.axes = Append(@, action.value)]
    [] action.set = "criterion" /\ action.value \notin DOMAIN Defaults -> Raised
    [] action.set = "criterion" /\ action.value \in DOMAIN Defaults ->
         [benchmark EXCEPT !.criterion = action.value, !.params = Defaults[action.value]]
    [] action.set = "param" -> [benchmark EXCEPT !.params = Put(@, action.name, action.value)]
    [] OTHER -> [benchmark EXCEPT !.options = Put(@, action.name, action.value)]

\* Mutant: as they were recorded, from the function outward
AppliedAsRecorded(benchmark, actions) ==
  LET applied[k \in 0..Len(actions)] ==
        IF k = 0 THEN benchmark ELSE Apply(applied[k - 1], actions[k])
  IN applied[Len(actions)]

\* Decorators are evaluated from the function outward; reversed, the actions
\* are as written.
apply_benchmark_actions(benchmark, actions) ==
  LET applied[k \in 0..Len(actions)] ==
        IF k = 0 THEN benchmark ELSE Apply(applied[k - 1], actions[Len(actions) + 1 - k])
  IN applied[Len(actions)]

-----------------------------------------------------------------------------
(* The process *)

StartScript(script) ==
  child' = [pc |-> "running", script |-> script, line |-> 1, evaluated |-> 0,
            actions |-> [i \in DOMAIN script |-> <<>>], registered |-> {}, benchmarks |-> <<>>]

Running == child # None /\ child.pc = "running"
AtStatement(kind) == Running /\ child.line \in DOMAIN child.script /\ child.script[child.line].kind = kind
Decorators(f) == child.script[f].decorators

NextDecorator == Decorators(child.line)[Len(Decorators(child.line)) - child.evaluated]
EvaluatesDecorator(decorator) ==
  /\ AtStatement("def") /\ child.evaluated < Len(Decorators(child.line))
  /\ (NextDecorator.set = "register") <=> (decorator = "register")

\* A decorator above @bench.register() raises: it would come too late.
AppendBenchmarkAction ==
  /\ EvaluatesDecorator("setting")
  /\ child' = IF child.line \in child.registered THEN [child EXCEPT !.pc = "raised"]
              ELSE [child EXCEPT !.actions[child.line] = Append(@, NextDecorator), !.evaluated = @ + 1]

\* The benchmark is known to the manager even if one of its actions raises.
Registered(f) ==
  LET benchmark == apply_benchmark_actions(add_bench(f), child.actions[f]) IN
    IF benchmark = Raised THEN [child EXCEPT !.pc = "raised", !.benchmarks = Append(@, add_bench(f))]
    ELSE [child EXCEPT !.benchmarks = Append(@, benchmark), !.registered = @ \cup {f}]

RegisterDecorator ==
  /\ EvaluatesDecorator("register")
  /\ child' = [Registered(child.line) EXCEPT !.evaluated = @ + 1]

RegisterCall ==
  /\ AtStatement("call")
  /\ child' = [Registered(child.script[child.line].fn) EXCEPT !.line = @ + 1]

EndDefinition ==
  /\ AtStatement("def") /\ child.evaluated = Len(Decorators(child.line))
  /\ child' = [child EXCEPT !.line = @ + 1, !.evaluated = 0]

\* Running without a benchmark raises.
RunAllBenchmarks ==
  /\ Running /\ child.line \notin DOMAIN child.script
  /\ child' = [child EXCEPT !.pc = IF child.benchmarks = <<>> THEN "raised" ELSE "ran"]

RunScript ==
  AppendBenchmarkAction \/ RegisterDecorator \/ RegisterCall \/ EndDefinition \/ RunAllBenchmarks

-----------------------------------------------------------------------------
(* Scripts, and what is wrong with one that raises *)

Kinds == {"register", "axis", "criterion", "param", "option"}

\* Only functions that have been defined are registered by a call.
IsScript(script) ==
  /\ script \in Seq(ToSet(script))
  /\ \A i \in DOMAIN script :
       \/ /\ script[i].kind = "def"
          /\ script[i].decorators \in Seq(ToSet(script[i].decorators))
          /\ \A j \in DOMAIN script[i].decorators : script[i].decorators[j].set \in Kinds
       \/ /\ script[i].kind = "call"
          /\ script[i].fn \in 1..(i - 1) /\ script[script[i].fn].kind = "def"

DefinedIn(script) == {f \in DOMAIN script : script[f].kind = "def"}

RegisteredBy(script) ==
  {f \in DefinedIn(script) :
     \/ \E j \in DOMAIN script[f].decorators : script[f].decorators[j].set = "register"
     \/ \E i \in DOMAIN script : script[i].kind = "call" /\ script[i].fn = f}

\* A setting above a @register
MisplacedIn(decorators) ==
  \E i, j \in DOMAIN decorators :
    i < j /\ decorators[i].set # "register" /\ decorators[j].set = "register"

UnknownIn(decorators) ==
  \E i \in DOMAIN decorators :
    decorators[i].set = "criterion" /\ decorators[i].value \notin DOMAIN Defaults

Faulty(script) ==
  \/ RegisteredBy(script) = {}
  \/ \E f \in DefinedIn(script) : MisplacedIn(script[f].decorators)
  \/ \E f \in RegisteredBy(script) : UnknownIn(script[f].decorators)

-----------------------------------------------------------------------------
(* What the source of a definition says, read from the top *)

Places(f, set) == {i \in DOMAIN Decorators(f) : Decorators(f)[i].set = set}
Named(f, set, name) == {i \in Places(f, set) : Decorators(f)[i].name = name}
Names(f, places) == {Decorators(f)[i].name : i \in places}
LastOf(f, places, default) == IF places = {} THEN default ELSE Decorators(f)[Max(places)].value

CriterionWritten(f) == LastOf(f, Places(f, "criterion"), "stdrel")

\* Parameters written above the last criterion are those of another one.
BelowCriterion(f) ==
  {i \in Places(f, "param") : \A j \in Places(f, "criterion") : j < i}

AxesWritten(f) == Keep(Decorators(f), {Decorators(f)[i] : i \in Places(f, "axis")})

SaysTheSource(f, b) ==
  LET default == Defaults[CriterionWritten(f)]  below == BelowCriterion(f)  options == Places(f, "option") IN
    /\ b.criterion = CriterionWritten(f)
    /\ b.axes = [i \in DOMAIN AxesWritten(f) |-> AxesWritten(f)[i].value]
    /\ b.params = [n \in Names(f, below) \cup DOMAIN default |->
                     LastOf(f, below \cap Named(f, "param", n),
                            IF n \in DOMAIN default THEN default[n] ELSE None)]
    /\ b.options = [n \in Names(f, options) |-> LastOf(f, Named(f, "option", n), None)]

\* When the benchmarks run, each has the axes, the criterion, its parameters
\* and the options that the decorators of its function say, all of them, in
\* the order in which they are written; a function that was registered twice
\* has two such benchmarks.
ConfiguredAsWritten ==
  (child # None /\ child.pc = "ran") =>
    \A i \in DOMAIN child.benchmarks : SaysTheSource(child.benchmarks[i].fn, child.benchmarks[i])
=============================================================================
