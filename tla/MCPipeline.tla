------------------------------ MODULE MCPipeline ------------------------------
(* Pipeline for TLC: the texts a user writes, and one rule of each class.    *)
EXTENDS Pipeline

Text(cmd, arg, more, tests) ==
    [cmd |-> cmd, arg |-> arg, more |-> more, tests |-> tests]

MCTexts == {Text("plain", None, FALSE, {}), Text("plain", None, FALSE, {"urgent"}),
            Text("info", None, FALSE, {}), Text("use", "main", FALSE, {}),
            Text("use", "b", FALSE, {}), Text("help", "b", TRUE, {}),
            Text("slash", "b", TRUE, {}), Text("slash", "b", FALSE, {})}

RuleFor(id, test, backend, isPriority) ==
    [id |-> id, backend |-> backend, priority |-> id, enabled |-> TRUE,
     isPriority |-> isPriority, groupLogic |-> "and",
     groups |-> <<[logic |-> "and",
                   conditions |-> <<[test |-> test, negate |-> FALSE]>>]>>]

Symmetry == Permutations(Handlers)

MCRules == <<RuleFor(1, "urgent", "b", TRUE)>>
=============================================================================
