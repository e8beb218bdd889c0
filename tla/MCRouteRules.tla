----------------------------- MODULE MCRouteRules -----------------------------
EXTENDS RouteRules

Test(t, negated) == [test |-> t, negate |-> negated]
Group(logic, conditions) == [logic |-> logic, conditions |-> conditions]

Body(backend, priority, isPriority, logic, groups) ==
    [backend |-> backend, priority |-> priority, enabled |-> TRUE,
     isPriority |-> isPriority, groups |-> groups, groupLogic |-> logic]

MCMessages == SUBSET {"hello", "image"}

\* A normal rule, a normal rule of a smaller number, and a priority rule of the
\* same number as the first
MCRuleBodies ==
    {Body("b1", 2, FALSE, "or",
          << Group("and", <<Test("hello", FALSE)>>),
             Group("and", <<Test("image", FALSE)>>) >>),
     Body("b2", 1, FALSE, "and", << Group("or", <<Test("hello", TRUE),
                                                  Test("image", FALSE)>>) >>),
     Body("b3", 2, TRUE, "and", << Group("and", <<Test("hello", FALSE)>>) >>)}

Symmetry == Permutations(Handlers)
===============================================================================
