--------------------------- MODULE MCPythonExamples ---------------------------
EXTENDS PythonExamples

Entropy ==
  Define(<<Register, Param("max-noise", 1), Axis("Elements"), Axis("Stride"), Criterion("entropy"),
           Param("max-angle", 7), Param("max-angle", 9), Option("min-samples", 3), Option("min-samples", 5)>>)
Undecorated == Define(<<Register>>)
Twice == <<Define(<<Axis("Duration"), Param("max-noise", 2), Param("min-r2", 4)>>), Call(1), Call(1)>>

MCScriptOf(name) ==
  CASE name = "python-smoke" -> Twice
    [] name \in {"skip", "axes-default-value"} -> <<Entropy, Undecorated>>
    [] OTHER -> <<Undecorated>>

Above == <<Undecorated, Define(<<Axis("Elements"), Register, Axis("Stride")>>)>>
UnknownCriterion == <<Define(<<Register, Axis("Elements"), Criterion("r2"), Option("timeout", 1)>>)>>
NothingRegistered == <<Define(<<Axis("Elements")>>)>>

Invoke(groups, cases, skip, continue) ==
  [list |-> FALSE, groups |-> groups, cases |-> cases,
   skip_missing_deps |-> skip, continue_on_failure |-> continue]

Selections ==
  {<<<<>>, <<>>>>, <<<<"pr">>, <<>>>>, <<<<"cpu">>, <<>>>>, <<<<"light-gpu", "cpu">>, <<>>>>, <<<<"gpu">>, <<>>>>,
   <<<<"all">>, <<>>>>, <<<<"all">>, <<"skip", "pytorch-bench">>>>, <<<<"syntax", "torch">>, <<>>>>,
   <<<<"pr">>, <<"skip">>>>, <<<<"core-cccl">>, <<"skip", "skip">>>>}

MCInvocations ==
  {[Invoke(<<"all">>, <<>>, FALSE, FALSE) EXCEPT !.list = TRUE]}
    \cup {Invoke(s[1], s[2], skip, continue) : s \in Selections, skip \in BOOLEAN, continue \in BOOLEAN}

Fine == [python |-> TRUE, broken |-> {}, script |-> <<>>, absent |-> {}, missing |-> {}, hung |-> {}]
MCSurroundings ==
  {Fine, [Fine EXCEPT !.python = FALSE], [Fine EXCEPT !.broken = {"syntax"}],
   [Fine EXCEPT !.broken = {"syntax", "pytorch-bench"}, !.missing = {"torch"}]}
    \cup {[Fine EXCEPT !.broken = b, !.script = s] :
            b \in {{"skip"}, {"python-smoke", "pytorch-bench"}},
            s \in {Above, UnknownCriterion, NothingRegistered}}
    \cup {[Fine EXCEPT !.absent = a, !.missing = m, !.hung = h] :
            a \in {{}, {"skip"}}, m \in {{}, {"torch"}, {"cupy"}, {"cuda.bench"}}, h \in {{}, {"axes-default-value"}}}
=============================================================================
