---------------------------- MODULE SessionContext ----------------------------
(***************************************************************************)
(* The conversation memory of session/context.go: one SessionContext for   *)
(* each user and backend, found or made by GetContext, which the callers   *)
(* in api/pipeline.go hold while the backend works and to which            *)
(* HandleDirectMessage adds the turn.  The map is guarded by the lock of   *)
(* the manager and a history by the lock of its session, so a session may  *)
(* leave the map while a caller holds it.                                  *)
(*                                                                         *)
(* An id is the sequence of the parts that ':' separates in it, usually    *)
(* one; so an id, ':' and another id is the two sequences one behind the   *)
(* other, and two pairs of ids may have one key.  A turn stands for a      *)
(* message and its reply.  Time is abstract: a session may at any moment   *)
(* become as old as the ttl.                                               *)
(***************************************************************************)
EXTENDS Naturals, Sequences

CONSTANTS Parts,            \* text without a ':'
          Users, Backends,  \* ids: sequences of at least one part
          Callers,
          Objects,     \* the sessions ever made; bounds their number
          Turns,       \* what users say and backends answer
          MaxHistory,  \* turns a session remembers (20 in main.go)
          MaxTurns,    \* bound on the turns added to a session
          None         \* no session, or no pair of ids

VARIABLES sessions,  \* ContextManager.sessions: key to session or None
          owner,     \* owner[o]: the user and the backend of o, None before
          history,   \* history[o]: messages, oldest first
          old,       \* sessions last active longer ago than the ttl
          caller,    \* caller[p]: what goroutine p does, and with which session
          added,     \* history: the turns added to o since it was last cleared
          removed    \* history: the sessions that were taken out of the map

vars == <<sessions, owner, history, old, caller, added, removed>>

Pairs == Users \X Backends

\* buildKey: userID + ":" + backendID
BuildKey(pair) == pair[1] \o pair[2]

Keys == {BuildKey(pair) : pair \in Pairs}

Roles == {"user", "assistant"}
Idle == [at |-> "idle"]

Init ==
    /\ sessions = [k \in Keys |-> None]
    /\ owner = [o \in Objects |-> None]
    /\ history = [o \in Objects |-> <<>>]
    /\ old = {}
    /\ caller = [p \in Callers |-> Idle]
    /\ added = [o \in Objects |-> <<>>]
    /\ removed = {}

-----------------------------------------------------------------------------
Hold(p, pair, o) ==
    caller' = [caller EXCEPT ![p] = [at |-> "held", for |-> pair, session |-> o]]

\* GetContext under the read lock: the session of the key if there is one
Look(p, pair) ==
    /\ caller[p] = Idle
    /\ LET o == sessions[BuildKey(pair)]
       IN  IF o # None THEN Hold(p, pair, o)
           ELSE caller' = [caller EXCEPT ![p] = [at |-> "create", for |-> pair]]
    /\ UNCHANGED <<sessions, owner, history, old, added, removed>>

\* NewSessionContext
Make(pair, o) ==
    /\ owner[o] = None
    /\ owner' = [owner EXCEPT ![o] = pair]
    /\ sessions' = [sessions EXCEPT ![BuildKey(pair)] = o]

\* GetContext under the write lock: looks again before it makes a session
Create(p) ==
    /\ caller[p].at = "create"
    /\ LET pair == caller[p].for
           found == sessions[BuildKey(pair)]
       IN  IF found # None
           THEN Hold(p, pair, found) /\ UNCHANGED <<sessions, owner>>
           ELSE \E o \in Objects : Make(pair, o) /\ Hold(p, pair, o)
    /\ UNCHANGED <<history, old, added, removed>>

\* The last n elements of s
LastOf(s, n) == IF Len(s) > n THEN SubSeq(s, Len(s) - n + 1, Len(s)) ELSE s

Message(role, t) == <<role, t>>

\* AddTurn: two messages at the end, then the oldest are cut off
Remember(h, t) ==
    LastOf(Append(Append(h, Message("user", t)), Message("assistant", t)),
           2 * MaxHistory)

\* HandleDirectMessage adds the answered turn to the session it holds
AddTurn(p, t) ==
    /\ caller[p].at = "held"
    /\ LET o == caller[p].session
       IN  /\ Len(added[o]) < MaxTurns
           /\ history' = [history EXCEPT ![o] = Remember(history[o], t)]
           /\ added' = [added EXCEPT ![o] = Append(added[o], t)]
           /\ old' = old \ {o}
    /\ caller' = [caller EXCEPT ![p] = Idle]
    /\ UNCHANGED <<sessions, owner, removed>>

\* The backend fails, or the caller is processMessage, which adds nothing
Leave(p) ==
    /\ caller[p].at = "held"
    /\ caller' = [caller EXCEPT ![p] = Idle]
    /\ UNCHANGED <<sessions, owner, history, old, added, removed>>

-----------------------------------------------------------------------------
\* Takes the sessions of the keys K out of the map; who holds one keeps it
Remove(K) ==
    /\ sessions' = [k \in Keys |-> IF k \in K THEN None ELSE sessions[k]]
    /\ removed' = removed \cup ({sessions[k] : k \in K} \ {None})
    /\ UNCHANGED <<owner, history, old, caller, added>>

\* ClearContext: what the key of the user and the backend has
ClearContext(pair) == Remove({BuildKey(pair)})

\* ClearAllUserContext: the keys whose part before the first ':' is the user id;
\* none is, when the id has a ':' itself
ClearAllUserContext(u) == Remove({k \in Keys : <<Head(k)>> = u})

\* On the ticker of cleanupLoop
CleanupExpired == Remove({k \in Keys : sessions[k] \in old})

\* SessionContext.Clear
Clear(o) ==
    /\ owner[o] # None
    /\ history' = [history EXCEPT ![o] = <<>>]
    /\ added' = [added EXCEPT ![o] = <<>>]
    /\ UNCHANGED <<sessions, owner, old, caller, removed>>

\* The ttl passes without a turn; looking a session up does not renew it
GrowsOld(o) ==
    /\ owner[o] # None
    /\ old' = old \cup {o}
    /\ UNCHANGED <<sessions, owner, history, caller, added, removed>>

Next ==
    \/ \E p \in Callers : \/ \E pair \in Pairs : Look(p, pair)
                          \/ Create(p)
                          \/ \E t \in Turns : AddTurn(p, t)
                          \/ Leave(p)
    \/ \E pair \in Pairs : ClearContext(pair)
    \/ \E u \in Users : ClearAllUserContext(u)
    \/ CleanupExpired
    \/ \E o \in Objects : Clear(o) \/ GrowsOld(o)

Spec == Init /\ [][Next]_vars

-----------------------------------------------------------------------------
States ==
    {Idle} \cup [at : {"create"}, for : Pairs]
           \cup [at : {"held"}, for : Pairs, session : Objects]

\* The shape of the state.
TypeOK ==
    /\ sessions \in [Keys -> Objects \cup {None}]
    /\ owner \in [Objects -> Pairs \cup {None}]
    /\ history \in [Objects -> Seq(Roles \X Turns)]
    /\ old \subseteq Objects
    /\ caller \in [Callers -> States]
    /\ added \in [Objects -> Seq(Turns)]
    /\ removed \subseteq Objects

\* Session o was made for a user and a backend whose key is k.
MadeUnder(o, k) == owner[o] # None /\ BuildKey(owner[o]) = k

\* GetContext, buildKey: what the map has under a key, and what a caller holds for
\* a user and a backend, was made for ids with that same key.
SessionsAreByKey ==
    /\ \A k \in Keys : sessions[k] # None => MadeUnder(sessions[k], k)
    /\ \A p \in Callers :
           caller[p].at = "held" => MadeUnder(caller[p].session, BuildKey(caller[p].for))

\* No id of a user has a ':', so that the key of a pair tells the pair.
PlainUsers == \A u \in Users : Len(u) = 1

\* GetContext, buildKey: what a caller holds for a user and a backend was made for
\* that user and that backend, so no one is answered with the memory of another.
\* The keys do not see to it: "a:b" at "c" and "a" at "b:c" have one key.
SessionsAreOwn ==
    \A p \in Callers :
        caller[p].at = "held" => owner[caller[p].session] = caller[p].for

\* ClearAllUserContext: after it the user has no session in the map.
ForgetsUser(u) ==
    \A k \in Keys : sessions[k] # None => owner[sessions[k]][1] # u

\* ClearAllUserContext forgets the whole of a user, and of no other user a session.
ClearsUserOnly ==
    [][\A u \in Users : ClearAllUserContext(u) =>
           /\ ForgetsUser(u)'
           /\ \A k \in Keys :
                 sessions[k] # None /\ owner[sessions[k]][1] # u
                     => sessions'[k] = sessions[k]]_vars

\* GetContext looks twice: callers for one user and backend hold one and the same
\* session, and the turn of a caller is lost to the map only if its session was
\* taken out after the caller looked it up.
HeldUnlessRemoved ==
    \A p \in Callers : caller[p].at = "held" =>
        \/ sessions[BuildKey(caller[p].for)] = caller[p].session
        \/ caller[p].session \in removed

\* A session that was taken out never comes back: callers after it start afresh.
RemovedStaysOut == \A k \in Keys : sessions[k] \notin removed

\* h is what is left of the turns ts: the newest of them, each with its message
\* before its reply
NewestTurns(h, ts) ==
    LET kept == IF Len(ts) > MaxHistory THEN MaxHistory ELSE Len(ts)
        first == Len(ts) - kept
    IN  /\ Len(h) = 2 * kept
        /\ \A i \in 1..kept : /\ h[2 * i - 1] = Message("user", ts[first + i])
                              /\ h[2 * i] = Message("assistant", ts[first + i])

\* AddTurn: however the callers interleave, a history is the newest MaxHistory turns
\* added to it, in the order in which they were added, and never half a turn.
HistoryIsNewest == \A o \in Objects : NewestTurns(history[o], added[o])

===============================================================================
