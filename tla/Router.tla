-------------------------------- MODULE Router --------------------------------
(***************************************************************************)
(* The routing engine (route/router.go) as operators on its rule list.     *)
(*                                                                         *)
(* A rule is a record                                                      *)
(*   [id, backend, priority, enabled, isPriority, groups, groupLogic],     *)
(* a group [logic, conditions], a condition [test, negate].  A test stands *)
(* for one (field, operator, value, case) of the code, and a message is    *)
(* the set of tests it passes: what a condition says of a message is then  *)
(* a membership, and everything built on it is kept.                       *)
(***************************************************************************)
EXTENDS Naturals, Sequences, SequencesExt

None == "none"    \* no session override; and the absent default backend

LogicOver(logic, results) ==
    /\ results # <<>>
    /\ IF logic = "and" THEN \A i \in DOMAIN results : results[i]
                        ELSE \E i \in DOMAIN results : results[i]

EvaluateCondition(message, condition) ==
    (condition.test \in message) # condition.negate

EvaluateGroup(message, group) ==
    LogicOver(group.logic,
              [i \in DOMAIN group.conditions |->
                  EvaluateCondition(message, group.conditions[i])])

MatchRule(message, rule) ==
    LogicOver(rule.groupLogic,
              [i \in DOMAIN rule.groups |->
                  EvaluateGroup(message, rule.groups[i])])

-----------------------------------------------------------------------------
Decision(backend, matchedBy, rule) ==
    [backend |-> backend, matchedBy |-> matchedBy, rule |-> rule]

ByRule(rule) == Decision(rule.backend, "keyword", rule.id)

\* The places of the enabled rules of one class that match a message
Hits(rules, message, isPriority) ==
    {i \in DOMAIN rules : /\ rules[i].enabled
                          /\ rules[i].isPriority = isPriority
                          /\ MatchRule(message, rules[i])}

FirstOf(places) == CHOOSE i \in places : \A j \in places : i <= j

\* Variant: the user's override is looked at before the priority rules
RouteOverrideFirst(rules, default, message, override) ==
    LET hits == Hits(rules, message, TRUE) \cup Hits(rules, message, FALSE)
    IN  IF override # None THEN Decision(override, "session", 0)
        ELSE IF hits # {} THEN ByRule(rules[FirstOf(hits)])
        ELSE Decision(default, "default", 0)

\* Route: priority rules, then the session override, then the other rules,
\* then the default backend
Route(rules, default, message, override) ==
    LET first == Hits(rules, message, TRUE)
        normal == Hits(rules, message, FALSE)
    IN  IF first # {} THEN ByRule(rules[FirstOf(first)])
        ELSE IF override # None THEN Decision(override, "session", 0)
        ELSE IF normal # {} THEN ByRule(rules[FirstOf(normal)])
        ELSE Decision(default, "default", 0)

-----------------------------------------------------------------------------
\* One comparison of sortRules
Exchange(s, i, j) ==
    IF s[j].priority < s[i].priority THEN [s EXCEPT ![i] = s[j], ![j] = s[i]] ELSE s

\* The inner loop: the rule at place i is compared with those after it
SortFrom(s, i) ==
    LET upTo[j \in i..Len(s)] == IF j = i THEN s ELSE Exchange(upTo[j - 1], i, j)
    IN  upTo[Len(s)]

\* sortRules: an exchange sort on priority alone, which is not stable
SortRules(rules) ==
    LET upTo[i \in 0..Len(rules)] ==
            IF i = 0 THEN rules ELSE SortFrom(upTo[i - 1], i)
    IN  upTo[Len(rules)]

AddRule(rules, rule) == SortRules(Append(rules, rule))

PlacesOf(rules, id) == {i \in DOMAIN rules : rules[i].id = id}

\* RemoveRule stops at the first rule with the id
RemoveRule(rules, id) ==
    LET places == PlacesOf(rules, id)
    IN  IF places = {} THEN rules ELSE RemoveAt(rules, FirstOf(places))

\* Variant: the replaced rule keeps the place it had
UpdateInPlace(rules, rule) ==
    LET places == PlacesOf(rules, rule.id)
    IN  IF places = {} THEN rules
        ELSE [rules EXCEPT ![FirstOf(places)] = rule]

\* UpdateRule replaces the first rule with the id, or reports an error that its
\* caller ignores
UpdateRule(rules, rule) ==
    LET places == PlacesOf(rules, rule.id)
    IN  IF places = {} THEN rules
        ELSE SortRules([rules EXCEPT ![FirstOf(places)] = rule])

===============================================================================
