------------------------------ MODULE RouteRules ------------------------------
(***************************************************************************)
(* The routing rules in the route_rules table and in the routing engine,   *)
(* and the handlers (api/route_handler.go) that keep the two together.     *)
(*                                                                         *)
(* Gin serves every request in a goroutine of its own, and no lock spans a *)
(* handler.  Create, update and delete write the table, then the engine;   *)
(* toggle and reorder write the table, then read all of it, then replace   *)
(* the engine's list.  Each of these is a step here (the database has one  *)
(* connection, the engine one mutex).  The process may exit between two    *)
(* steps; boot (main.go) fills the engine from the table.                  *)
(***************************************************************************)
EXTENDS Router, Integers, FiniteSets

CONSTANTS Handlers,     \* goroutines that serve rule requests
          RuleBodies,   \* rules an administrator may submit, without their id
          Messages,     \* incoming messages: sets of tests they pass
          Backends,     \* backends a session may be switched to
          DefaultBackend,
          MaxRules,     \* bound on the rules created in a behaviour
          MaxRequests   \* bound on the requests of a behaviour

\* A rule without its id: the columns of a row, whose priority and switch the
\* handlers change by themselves
RowBodies ==
    [backend : {body.backend : body \in RuleBodies},
     priority : Int, enabled : BOOLEAN, isPriority : BOOLEAN,
     groups : {body.groups : body \in RuleBodies},
     groupLogic : {body.groupLogic : body \in RuleBodies}]

ASSUME RulesAssumption ==
    MaxRules \in Nat /\ MaxRequests \in Nat /\ RuleBodies \subseteq RowBodies

VARIABLES db,        \* route_rules: a function from the ids present to bodies
          nextId,    \* the id AUTOINCREMENT gives next
          rules,     \* Router.rules
          handler,   \* handler[h]: the request goroutine h serves
          requests,  \* requests begun so far
          stale,     \* history: two requests overlapped, or the table could not
                     \* be listed for a reload or at boot, and no request that
                     \* reloads ran alone since
          flagsLost  \* history: boot dropped the flag of a rule of the table

vars == <<db, nextId, rules, handler, requests, stale, flagsLost>>

Idle == [at |-> "idle"]

\* convertToRouteRule: the rule of a body and its id
RuleOf(id, body) == [id |-> id, backend |-> body.backend,
                     priority |-> body.priority, enabled |-> body.enabled,
                     isPriority |-> body.isPriority, groups |-> body.groups,
                     groupLogic |-> body.groupLogic]

\* ORDER BY is_priority DESC, priority ASC, id ASC
ListedBefore(a, b) ==
    \/ a.isPriority /\ ~b.isPriority
    \/ /\ a.isPriority = b.isPriority
       /\ a.priority < b.priority \/ (a.priority = b.priority /\ a.id < b.id)

ListRouteRules(table) ==
    LET rows == {RuleOf(id, table[id]) : id \in DOMAIN table}
    IN  CHOOSE list \in [1..Cardinality(rows) -> rows] :
            \A i, j \in DOMAIN list : i < j => ListedBefore(list[i], list[j])

\* A table without rows
Nothing == [id \in {} |-> {}]

Init ==
    /\ db = Nothing
    /\ nextId = 1
    /\ rules = <<>>
    /\ handler = [h \in Handlers |-> Idle]
    /\ requests = 0
    /\ stale = FALSE
    /\ flagsLost = FALSE

-----------------------------------------------------------------------------
Others(h) == {g \in Handlers \ {h} : handler[g] # Idle}

\* A request begins with its write to the table; its arg is what its call of the
\* engine needs.  History: alone, no other request has been in progress since;
\* before, the table before the write (kept only while it counts).
Begin(h, at, arg, table) ==
    /\ handler[h] = Idle
    /\ requests < MaxRequests
    /\ requests' = requests + 1
    /\ db' = table
    /\ stale' = (stale \/ Others(h) # {})
    /\ handler' = [g \in Handlers |->
                      IF g = h
                      THEN [at |-> at, arg |-> arg, alone |-> Others(h) = {},
                            before |-> IF stale' THEN Nothing ELSE db]
                      ELSE IF g \in Others(h)
                      THEN [at |-> handler[g].at, arg |-> handler[g].arg,
                            alone |-> FALSE, before |-> Nothing]
                      ELSE Idle]
    /\ UNCHANGED <<rules, flagsLost>>

\* handleCreateRouteRule, up to CreateRouteRule
BeginCreate(h) ==
    /\ nextId <= MaxRules
    /\ \E body \in RuleBodies :
          Begin(h, "add", RuleOf(nextId, body),
                [id \in DOMAIN db \cup {nextId} |->
                    IF id = nextId THEN body ELSE db[id]])
    /\ nextId' = nextId + 1

\* handleUpdateRouteRule, up to UpdateRouteRule: no error for an unknown id
BeginUpdate(h) ==
    /\ \E id \in 1..MaxRules, body \in RuleBodies :
          Begin(h, "update", RuleOf(id, body),
                IF id \in DOMAIN db THEN [db EXCEPT ![id] = body] ELSE db)
    /\ UNCHANGED nextId

\* handleDeleteRouteRule, up to DeleteRouteRule
BeginDelete(h) ==
    /\ \E id \in 1..MaxRules :
          Begin(h, "remove", id, [i \in DOMAIN db \ {id} |-> db[i]])
    /\ UNCHANGED nextId

\* handleToggleRouteRule, up to ToggleRouteRule
BeginToggle(h) ==
    /\ \E id \in DOMAIN db :
          Begin(h, "list", None, [db EXCEPT ![id].enabled = ~@])
    /\ UNCHANGED nextId

\* handleReorderRouteRules, up to ReorderRouteRules: one transaction gives the
\* rules named by ids the priorities 1, 2, ...
BeginReorder(h) ==
    /\ \E ids \in UNION {SetToSeqs(S) : S \in SUBSET DOMAIN db} :
          LET Reordered(id) ==
                  IF \E i \in DOMAIN ids : ids[i] = id
                  THEN [db[id] EXCEPT !.priority =
                           CHOOSE i \in DOMAIN ids : ids[i] = id]
                  ELSE db[id]
          IN  Begin(h, "list", None, [id \in DOMAIN db |-> Reordered(id)])
    /\ UNCHANGED nextId

-----------------------------------------------------------------------------
\* The last step of a handler: its call of the routing engine
Finish(h, newRules, newStale, newFlagsLost) ==
    /\ rules' = newRules
    /\ handler' = [handler EXCEPT ![h] = Idle]
    /\ stale' = newStale
    /\ flagsLost' = newFlagsLost
    /\ UNCHANGED <<db, nextId, requests>>

FinishCreate(h) ==
    /\ handler[h].at = "add"
    /\ Finish(h, AddRule(rules, handler[h].arg), stale, flagsLost)

FinishUpdate(h) ==
    /\ handler[h].at = "update"
    /\ Finish(h, UpdateRule(rules, handler[h].arg), stale, flagsLost)

FinishDelete(h) ==
    /\ handler[h].at = "remove"
    /\ Finish(h, RemoveRule(rules, handler[h].arg), stale, flagsLost)

\* reloadRouteRules: read the table ...
ReloadList(h) ==
    /\ handler[h].at = "list"
    /\ handler' = [handler EXCEPT ![h] =
                      [at |-> "load", arg |-> ListRouteRules(db),
                       alone |-> @.alone, before |-> @.before]]
    /\ UNCHANGED <<db, nextId, rules, requests, stale, flagsLost>>

\* ... or fail to, and answer success all the same
ReloadFails(h) ==
    /\ handler[h].at = "list"
    /\ Finish(h, rules, TRUE, flagsLost)

\* Variant: the rows read are added to the list that is there
LoadRulesAppends(h) ==
    /\ handler[h].at = "load"
    /\ Finish(h, rules \o handler[h].arg, stale /\ ~handler[h].alone, FALSE)

\* ... and LoadRules, which replaces the list and does not sort it
LoadRules(h) ==
    /\ handler[h].at = "load"
    /\ Finish(h, handler[h].arg, stale /\ ~handler[h].alone, FALSE)

\* main.go adds the rules of the table one by one, in the order of ListRouteRules,
\* and leaves IsPriority out
AddedAtBoot(rows) ==
    LET upTo[k \in 0..Len(rows)] ==
            IF k = 0 THEN <<>>
            ELSE AddRule(upTo[k - 1], [rows[k] EXCEPT !.isPriority = FALSE])
    IN  upTo[Len(rows)]

\* The process exits, at any point, and starts again; when the table cannot be
\* read it goes on without rules
Restart(read) ==
    /\ rules' = IF read THEN AddedAtBoot(ListRouteRules(db)) ELSE <<>>
    /\ handler' = [h \in Handlers |-> Idle]
    /\ stale' = ~read
    /\ flagsLost' = (read /\ \E id \in DOMAIN db : db[id].isPriority)
    /\ UNCHANGED <<db, nextId, requests>>

Next ==
    \/ \E h \in Handlers : \/ BeginCreate(h)
                           \/ BeginUpdate(h)
                           \/ BeginDelete(h)
                           \/ BeginToggle(h)
                           \/ BeginReorder(h)
                           \/ FinishCreate(h)
                           \/ FinishUpdate(h)
                           \/ FinishDelete(h)
                           \/ ReloadList(h)
                           \/ ReloadFails(h)
                           \/ LoadRules(h)
    \/ \E read \in BOOLEAN : Restart(read)

Spec == Init /\ [][Next]_vars

-----------------------------------------------------------------------------
Places == 1..MaxRules

\* Type invariant.  The list may hold a rule twice, when a request that reloads
\* lists a created rule before its creator adds it, but never three times.
TypeOK ==
    /\ DOMAIN db \subseteq 1..(nextId - 1)
    /\ nextId \in 1..(MaxRules + 1)
    /\ stale \in BOOLEAN
    /\ flagsLost \in BOOLEAN
    /\ \A i \in DOMAIN rules : rules[i].id \in 1..(nextId - 1)
    /\ \A id \in Places : Cardinality(PlacesOf(rules, id)) <= 2
    /\ \A h \in Handlers :
          handler[h].at \in {"idle", "add", "update", "remove", "list", "load"}

\* Within the priority rules, and within the others, the engine tries rules by
\* ascending priority, whatever requests overlapped: AddRule and UpdateRule
\* sort the list as a whole, LoadRules takes the table's order, RemoveRule
\* keeps what is there.
SortedWithinClass ==
    \A i, j \in DOMAIN rules :
        (i < j /\ rules[i].isPriority = rules[j].isPriority)
            => rules[i].priority <= rules[j].priority

\* The table the engine has to agree with: while a request is between its write
\* and its call of the engine, the table before the write
Committed ==
    LET busy == {h \in Handlers : handler[h] # Idle}
    IN  IF busy = {} THEN db ELSE handler[CHOOSE h \in busy : TRUE].before

\* What is compared of a rule after boot dropped the flag
Compared(rule) ==
    IF flagsLost THEN [rule EXCEPT !.isPriority = FALSE] ELSE rule

\* As long as requests come one at a time and the table can be listed, and again
\* once a reloading request ran alone or a boot read the table, the engine holds
\* each rule of the table once, as the table has it, and no other ("sync to the
\* memory routing engine", route_handler.go:80): but for IsPriority, which boot
\* drops.
MemoryMatchesDatabase ==
    ~stale =>
        /\ Len(rules) = Cardinality(DOMAIN Committed)
        /\ {Compared(rules[i]) : i \in DOMAIN rules}
             = {Compared(RuleOf(id, Committed[id])) : id \in DOMAIN Committed}

\* The decisions the table allows: the first class that decides, and in it any
\* matching enabled rule of least priority number (ties are left open)
DecisionsByTable(table, message, override) ==
    LET Matching(class) ==
            {id \in DOMAIN table : /\ table[id].enabled
                                   /\ table[id].isPriority = class
                                   /\ MatchRule(message, RuleOf(id, table[id]))}
        Best(S) == {id \in S : \A other \in S :
                                  table[id].priority <= table[other].priority}
        Named(S) == {ByRule(RuleOf(id, table[id])) : id \in Best(S)}
    IN  IF Matching(TRUE) # {} THEN Named(Matching(TRUE))
        ELSE IF override # None THEN {Decision(override, "session", 0)}
        ELSE IF Matching(FALSE) # {} THEN Named(Matching(FALSE))
        ELSE {Decision(DefaultBackend, "default", 0)}

\* Under the same conditions every message is routed as the table says, also in
\* the middle of a request, when it is the table before the request that
\* counts: no message sees a half-applied change.
RoutesByTable ==
    (~stale /\ ~flagsLost) =>
        \A message \in Messages, override \in Backends \cup {None} :
            Route(rules, DefaultBackend, message, override)
                \in DecisionsByTable(Committed, message, override)

\* database/route_rules.go:50: a priority rule comes right after the commands and
\* takes no account of the current backend.  Stated of the rules of the table
\* when no request is in progress and none overlapped.
PriorityRulesComeFirst ==
    (~stale /\ \A h \in Handlers : handler[h] = Idle) =>
        \A id \in DOMAIN db, message \in Messages, override \in Backends :
            ( /\ db[id].isPriority
              /\ db[id].enabled
              /\ MatchRule(message, RuleOf(id, db[id])) )
            => Route(rules, DefaultBackend, message, override).matchedBy = "keyword"
===============================================================================
